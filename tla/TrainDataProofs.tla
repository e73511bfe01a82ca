--------------------------- MODULE TrainDataProofs ---------------------------
(* IterablePackingDataset keeps no answer between two rounds, and loses and *)
(* doubles no sample, for every number of workers, round and data set; the  *)
(* training job drives it as its specification says, so that this holds in  *)
(* the job, over epochs, kills and resumptions; PackingDataset's packed_idx *)
(* is what each chunk gives packed on its own, in whatever order its        *)
(* processes ran; and every step the weights stand for is made with the     *)
(* packs that a job never killed would give it.                             *)
EXTENDS TrainData, SequenceFacts, FiniteSetTheorems, FunctionTheorems,
        SequenceTheorems, TLAPS

(* The samples of the rounds that are over. *)
Base == pos - sent
Value(x) == IF x \in Encodable THEN x ELSE Nothing

(* An index of the round is at one place at a time: in the queue, in one    *)
(* worker, in an answer, or counted.                                        *)
QueueOK ==
    /\ \A k \in DOMAIN inQ :
           /\ inQ[k][1] < sent /\ inQ[k][1] \notin got
           /\ inQ[k][2] = Base + inQ[k][1] + 1
           /\ \A a \in answers : a[1] # inQ[k][1]
           /\ \A w \in Workers : busy[w] # NoItem => busy[w][1] # inQ[k][1]
    /\ \A k, l \in DOMAIN inQ : inQ[k][1] = inQ[l][1] => k = l

WorkersOK ==
    \A w \in Workers : busy[w] # NoItem =>
        /\ busy[w][1] < sent /\ busy[w][1] \notin got
        /\ busy[w][2] = Base + busy[w][1] + 1
        /\ \A a \in answers : a[1] # busy[w][1]
        /\ \A v \in Workers : busy[v] # NoItem /\ busy[v][1] = busy[w][1] => v = w

AnswersOK ==
    /\ \A a \in answers : /\ a[1] < sent /\ a[1] \notin got
                          /\ a[2] = Value(Base + a[1] + 1)
    /\ \A i \in 0..Interval - 1 :
           res[i] = IF i \in got THEN Value(Base + i + 1) ELSE Nothing
    /\ \A i \in got : i < sent

RoundOK ==
    /\ sent <= pos
    /\ gpc # "fetch" => got = {}
    /\ gpc = "end" => sent = 0

PacksOK ==
    /\ \A x \in Encodable : x <= Base => x \in Packed(yielded) \cup Held(data)
    /\ Packed(yielded) \cup Held(data) \subseteq 1..Base
    /\ Packed(yielded) \cap Held(data) = {}
    /\ Once(yielded) /\ Distinct(data)

IInv == StreamTypeOK /\ RoundOK /\ QueueOK /\ WorkersOK /\ AnswersOK /\ PacksOK
-----------------------------------------------------------------------------
(* Lemmas about sequences of samples and packs.                             *)

LEMMA CardinalityUpTo ==
    ASSUME NEW n \in Nat
    PROVE  IsFiniteSet(1..n) /\ Cardinality(1..n) = n
<1>1. 1 \in Int /\ n \in Int
  OBVIOUS
<1>2. IsFiniteSet(1..n) /\ Cardinality(1..n) = IF 1 > n THEN 0 ELSE n - 1 + 1
  BY <1>1, FS_Interval
<1> QED BY <1>2

(* A sequence without repetitions is no longer than the data set: it is one *)
(* the assumption about the library speaks of.                              *)
LEMMA DistinctIsOrder ==
    ASSUME NEW s \in Seq(Samples), Distinct(s)
    PROVE  s \in Orders
<1> DEFINE n == Len(s)
<1>1. s \in [1..n -> Samples] /\ n \in Nat /\ N \in Nat
  BY LenProperties, SampleAssumption
<1> HIDE DEF n
<1>2. s \in Injection(1..n, Samples)
  BY <1>1 DEF Injection, IsInjective, Distinct
<1>3. IsFiniteSet(Samples) /\ Cardinality(Samples) = N
  BY <1>1, CardinalityUpTo DEF Samples
<1>4. Cardinality(1..n) = n
  BY <1>1, CardinalityUpTo
<1>5. n <= N
  BY <1>2, <1>3, <1>4, FS_Injection
<1>6. n \in 0..N
  BY <1>1, <1>5
<1> QED
  BY <1>1, <1>6 DEF Orders

(* What a sequence of packs holds after another is appended to it.          *)
LEMMA PackedConcat ==
    ASSUME NEW p \in Seq(Seq(Samples)), NEW q \in Seq(Seq(Samples))
    PROVE  Packed(p \o q) = Packed(p) \cup Packed(q)
<1> DEFINE c == p \o q
<1>1. /\ Len(p) \in Nat /\ Len(q) \in Nat /\ DOMAIN c = 1..Len(p) + Len(q)
      /\ DOMAIN p = 1..Len(p) /\ DOMAIN q = 1..Len(q)
      /\ \A i \in 1..Len(p) + Len(q) :
             c[i] = IF i <= Len(p) THEN p[i] ELSE q[i - Len(p)]
  BY ConcatProperties, LenProperties
<1> HIDE DEF c
<1>2. ASSUME NEW x \in Packed(c) PROVE x \in Packed(p) \cup Packed(q)
  <2>1. PICK i \in 1..Len(p) + Len(q) : x \in Held(c[i])
    BY <1>1 DEF Packed
  <2>2. CASE i <= Len(p)
    BY <2>1, <2>2, <1>1 DEF Packed
  <2>3. CASE ~(i <= Len(p))
    <3>1. i - Len(p) \in 1..Len(q) /\ c[i] = q[i - Len(p)]
      BY <1>1, <2>3
    <3> QED BY <2>1, <3>1, <1>1 DEF Packed
  <2> QED BY <2>2, <2>3
<1>3. ASSUME NEW x \in Packed(p) PROVE x \in Packed(c)
  <2>1. PICK i \in 1..Len(p) : x \in Held(p[i])
    BY <1>1 DEF Packed
  <2>2. i \in 1..Len(p) + Len(q) /\ c[i] = p[i]
    BY <1>1
  <2> QED BY <2>1, <2>2, <1>1 DEF Packed
<1>4. ASSUME NEW x \in Packed(q) PROVE x \in Packed(c)
  <2>1. PICK i \in 1..Len(q) : x \in Held(q[i])
    BY <1>1 DEF Packed
  <2>2. /\ i + Len(p) \in 1..Len(p) + Len(q)
        /\ ~(i + Len(p) <= Len(p)) /\ (i + Len(p)) - Len(p) = i
    BY <1>1
  <2>3. c[i + Len(p)] = q[i]
    BY <1>1, <2>2
  <2> QED BY <2>1, <2>2, <2>3, <1>1 DEF Packed
<1> QED BY <1>2, <1>3, <1>4 DEF c

(* Packs that share no sample with others can be appended to them.          *)
LEMMA OnceConcat ==
    ASSUME NEW p \in Seq(Seq(Samples)), NEW q \in Seq(Seq(Samples)),
           Once(p), Once(q), Packed(p) \cap Packed(q) = {}
    PROVE  Once(p \o q)
<1> DEFINE c == p \o q
<1>1. /\ Len(p) \in Nat /\ Len(q) \in Nat /\ DOMAIN c = 1..Len(p) + Len(q)
      /\ DOMAIN p = 1..Len(p) /\ DOMAIN q = 1..Len(q)
      /\ \A i \in 1..Len(p) + Len(q) :
             c[i] = IF i <= Len(p) THEN p[i] ELSE q[i - Len(p)]
  BY ConcatProperties, LenProperties
<1> HIDE DEF c
<1> SUFFICES ASSUME NEW i \in DOMAIN c, NEW k \in DOMAIN c,
                    NEW j \in DOMAIN c[i], NEW l \in DOMAIN c[k],
                    c[i][j] = c[k][l]
             PROVE  i = k /\ j = l
  BY DEF Once, c
<1>2. \A m \in DOMAIN c : m > Len(p) => m - Len(p) \in DOMAIN q
  BY <1>1
<1>3. CASE i <= Len(p) /\ k <= Len(p)
  BY <1>1, <1>3 DEF Once
<1>4. CASE i > Len(p) /\ k > Len(p)
  <2>0. i \in Nat /\ k \in Nat /\ i \in 1..Len(p) + Len(q) /\ k \in 1..Len(p) + Len(q)
    BY <1>1
  <2>1. c[i] = q[i - Len(p)] /\ c[k] = q[k - Len(p)]
    <3>1. ~ (i <= Len(p)) /\ ~ (k <= Len(p))
      BY <1>1, <1>4, <2>0
    <3> QED BY <1>1, <2>0, <3>1, Zenon
  <2>2. i - Len(p) = k - Len(p) /\ j = l
    BY <1>2, <1>4, <2>1 DEF Once
  <2> QED BY <1>1, <2>0, <2>2
<1>5. CASE i <= Len(p) /\ k > Len(p)
  <2>1. i \in DOMAIN p /\ k - Len(p) \in DOMAIN q
    BY <1>1, <1>2, <1>5
  <2>2. c[i] = p[i] /\ c[k] = q[k - Len(p)]
    BY <1>1, <1>5
  <2>3. c[i][j] \in Packed(p) /\ c[k][l] \in Packed(q)
    BY <2>1, <2>2 DEF Packed, Held
  <2> QED BY <2>3
<1>6. CASE i > Len(p) /\ k <= Len(p)
  <2>1. k \in DOMAIN p /\ i - Len(p) \in DOMAIN q
    BY <1>1, <1>2, <1>6
  <2>2. c[k] = p[k] /\ c[i] = q[i - Len(p)]
    BY <1>1, <1>6
  <2>3. c[k][l] \in Packed(p) /\ c[i][j] \in Packed(q)
    BY <2>1, <2>2 DEF Packed, Held
  <2> QED BY <2>3
<1> QED BY <1>1, <1>3, <1>4, <1>5, <1>6

(* The same two facts about two sequences of samples.                       *)
LEMMA HeldConcat ==
    ASSUME NEW p \in Seq(Samples), NEW q \in Seq(Samples)
    PROVE  /\ Held(p \o q) = Held(p) \cup Held(q)
           /\ Distinct(p) /\ Distinct(q) /\ Held(p) \cap Held(q) = {}
                  => Distinct(p \o q)
<1> DEFINE c == p \o q
<1>1. /\ Len(p) \in Nat /\ Len(q) \in Nat /\ DOMAIN c = 1..Len(p) + Len(q)
      /\ DOMAIN p = 1..Len(p) /\ DOMAIN q = 1..Len(q)
      /\ \A i \in 1..Len(p) + Len(q) :
             c[i] = IF i <= Len(p) THEN p[i] ELSE q[i - Len(p)]
  BY ConcatProperties, LenProperties
<1> HIDE DEF c
<1>2. \A m \in DOMAIN c : m > Len(p) => m - Len(p) \in DOMAIN q
  BY <1>1
<1>3. ASSUME NEW i \in DOMAIN c PROVE c[i] \in Held(p) \cup Held(q)
  <2>1. CASE i <= Len(p)
    BY <1>1, <2>1 DEF Held
  <2>2. CASE i > Len(p)
    <3>1. i - Len(p) \in DOMAIN q /\ c[i] = q[i - Len(p)]
      BY <1>1, <1>2, <2>2
    <3> QED BY <3>1 DEF Held
  <2> QED BY <1>1, <2>1, <2>2
<1>4. \A i \in DOMAIN p : i \in DOMAIN c /\ c[i] = p[i]
  BY <1>1
<1>5. \A i \in DOMAIN q : i + Len(p) \in DOMAIN c /\ c[i + Len(p)] = q[i]
  BY <1>1
<1>6. Held(c) = Held(p) \cup Held(q)
  <2>1. Held(c) \subseteq Held(p) \cup Held(q)
    BY <1>3 DEF Held
  <2>2. Held(p) \subseteq Held(c) /\ Held(q) \subseteq Held(c)
    BY <1>4, <1>5 DEF Held
  <2> QED BY <2>1, <2>2
<1>7. ASSUME Distinct(p), Distinct(q), Held(p) \cap Held(q) = {},
             NEW i \in DOMAIN c, NEW k \in DOMAIN c, c[i] = c[k]
      PROVE  i = k
  <2>1. CASE i <= Len(p) /\ k <= Len(p)
    BY <1>1, <1>7, <2>1 DEF Distinct
  <2>2. CASE i > Len(p) /\ k > Len(p)
    <3>1. i - Len(p) = k - Len(p)
      BY <1>1, <1>2, <1>7, <2>2 DEF Distinct
    <3> QED BY <1>1, <3>1
  <2>3. CASE ~(i <= Len(p) <=> k <= Len(p))
    <3>1. CASE i <= Len(p) /\ k > Len(p)
      <4>1. c[i] \in Held(p) /\ c[k] \in Held(q)
        BY <1>1, <1>2, <3>1 DEF Held
      <4> QED BY <4>1, <1>7
    <3>2. CASE i > Len(p) /\ k <= Len(p)
      <4>1. c[k] \in Held(p) /\ c[i] \in Held(q)
        BY <1>1, <1>2, <3>2 DEF Held
      <4> QED BY <4>1, <1>7
    <3> QED BY <1>1, <2>3, <3>1, <3>2
  <2> QED BY <1>1, <2>1, <2>2, <2>3
<1> QED BY <1>6, <1>7 DEF c, Distinct
(* What Matched makes of samples that are not repeated: every one is in a   *)
(* pack or waits, and is there once.                                        *)
LEMMA MatchedKeepsAll ==
    ASSUME NEW s \in Seq(Samples), Distinct(s), NEW f \in BOOLEAN
    PROVE  /\ Matched(s, f).packs \in Seq(Seq(Samples))
           /\ Matched(s, f).rest \in Seq(Samples)
           /\ Packed(Matched(s, f).packs) \cup Held(Matched(s, f).rest) = Held(s)
           /\ Packed(Matched(s, f).packs) \cap Held(Matched(s, f).rest) = {}
           /\ Once(Matched(s, f).packs) /\ Distinct(Matched(s, f).rest)
<1>1. CASE s = << >>
  BY <1>1 DEF Matched, Packed, Held, Once, Distinct
<1> DEFINE b == Bins(s)
<1>2. /\ b \in Seq(Seq(Samples)) /\ Packed(b) = Held(s) /\ Once(b)
  BY DistinctIsOrder, BinsAssumption
<1> HIDE DEF b
<1>3. CASE s # << >> /\ f
  <2>1. Matched(s, f).packs = b /\ Matched(s, f).rest = << >>
    BY <1>3 DEF Matched, b
  <2> QED BY <2>1, <1>2 DEF Held, Distinct
<1>4. CASE s # << >> /\ ~f
  <2> DEFINE n == Len(b)
             p == SubSeq(b, 1, n - 1)
  <2>1. Matched(s, f).packs = p /\ Matched(s, f).rest = b[n]
    BY <1>4 DEF Matched, b, Front, Last
  <2>2. n \in Nat /\ DOMAIN b = 1..n /\ \A i \in 1..n : b[i] \in Seq(Samples)
    BY <1>2, LenProperties, ElementOfSeq
  <2>3. n \in 1..n
    <3>1. Len(s) \in 1..Len(s)
      BY <1>4, LenProperties, EmptySeq
    <3>2. Held(s) # {}
      BY <3>1, LenProperties DEF Held
    <3>3. DOMAIN b # {}
      BY <3>2, <1>2 DEF Packed
    <3> QED BY <2>2, <3>3
  <2> HIDE DEF n
  <2>4. /\ p \in Seq(Seq(Samples)) /\ DOMAIN p = 1..n - 1
        /\ \A i \in 1..n - 1 : p[i] = b[i]
    <3>1. 1 \in Int /\ n - 1 \in Int /\ \A i \in 1..n - 1 : b[i] \in Seq(Samples)
      BY <2>2, <2>3
    <3>2. /\ p \in Seq(Seq(Samples))
          /\ Len(p) = IF 1 <= n - 1 THEN (n - 1) - 1 + 1 ELSE 0
          /\ \A i \in 1..(n - 1) - 1 + 1 : p[i] = b[1 + i - 1]
      BY <3>1, SubSeqProperties
    <3>3. DOMAIN p = 1..Len(p)
      BY <3>2, LenProperties
    <3> HIDE DEF p
    <3> QED BY <2>2, <2>3, <3>2, <3>3
  <2> HIDE DEF p
  <2>5. Packed(p) \cup Held(b[n]) = Packed(b)
    <3>1. \A i \in 1..n : i \in 1..n - 1 \/ i = n
      BY <2>2
    <3>2. \A i \in 1..n - 1 : i \in 1..n
      BY <2>2
    <3> QED BY <2>2, <2>3, <2>4, <3>1, <3>2 DEF Packed
  <2>6. ASSUME NEW x \in Packed(p) \cap Held(b[n]) PROVE FALSE
    <3>1. PICK i \in 1..n - 1 : x \in Held(b[i])
      BY <2>6, <2>4 DEF Packed
    <3>2. PICK j \in DOMAIN b[i] : x = b[i][j]
      BY <3>1 DEF Held
    <3>3. PICK l \in DOMAIN b[n] : x = b[n][l]
      BY <2>6 DEF Held
    <3>4. i \in DOMAIN b /\ n \in DOMAIN b /\ i # n
      BY <2>2, <2>3
    <3> QED BY <3>2, <3>3, <3>4, <1>2 DEF Once
  <2>7. Once(p)
    <3>1. \A i \in DOMAIN p : i \in DOMAIN b /\ p[i] = b[i]
      BY <2>2, <2>4
    <3> QED BY <3>1, <1>2 DEF Once
  <2>8. Distinct(b[n])
    BY <1>2, <2>2, <2>3 DEF Once, Distinct
  <2> QED BY <2>1, <2>2, <2>3, <2>4, <2>5, <2>6, <2>7, <2>8, <1>2
<1> QED BY <1>1, <1>3, <1>4

Rising(s) == \A i, j \in DOMAIN s : i < j => s[i] < s[j]

(* The encoded samples of a round: the answers that are not empty, each     *)
(* once, in order.                                                          *)
LEMMA EncodedIsFilled ==
    ASSUME Interval \in Nat,
           res \in [0..Interval - 1 -> Samples \cup {Nothing}],
           \A i, j \in Filled : res[i] = res[j] => i = j
    PROVE  /\ Encoded \in Seq(Samples) /\ Distinct(Encoded)
           /\ Held(Encoded) = {res[i] : i \in Filled}
           /\ (\A i, j \in Filled : i < j => res[i] < res[j]) => Rising(Encoded)
<1> DEFINE n == Cardinality(Filled)
           Lower(i) == {h \in Filled : h < i}
           f == [i \in Filled |-> Before(i)]
<1>1. IsFiniteSet(Filled) /\ n \in Nat /\ Filled \subseteq Nat
  <2>1. 0 \in Int /\ Interval - 1 \in Int
    OBVIOUS
  <2>2. IsFiniteSet(0..Interval - 1)
    BY <2>1, FS_Interval
  <2>3. Filled \in SUBSET (0..Interval - 1)
    BY DEF Filled
  <2>4. IsFiniteSet(Filled)
    BY <2>2, <2>3, FS_Subset
  <2> QED BY <2>3, <2>4, FS_CardinalityType
<1>2. \A i \in Filled : /\ Before(i) = Cardinality(Lower(i))
                         /\ Lower(i) \in SUBSET Filled /\ i \notin Lower(i)
  BY <1>1 DEF Before
<1>3. ASSUME NEW i \in Filled, NEW j \in Filled, i < j
      PROVE  Lower(i) \in SUBSET Lower(j) /\ i \in Lower(j)
  <2>1. \A h \in Filled : h < i => h < j
    BY <1>1, <1>3
  <2> QED BY <1>3, <2>1
<1> HIDE DEF Lower
<1> DEFINE B(i) == Before(i)
<1>4. \A i \in Filled : IsFiniteSet(Lower(i)) /\ Cardinality(Lower(i)) \in Nat
  BY <1>1, <1>2, FS_Subset, FS_CardinalityType
<1>5. \A i \in Filled : B(i) \in Nat /\ B(i) < n
  <2> SUFFICES ASSUME NEW i \in Filled PROVE B(i) \in Nat /\ B(i) < n
    OBVIOUS
  <2>1. Cardinality(Lower(i)) <= n /\ n # Cardinality(Lower(i))
    BY <1>1, <1>2, FS_Subset
  <2>2. B(i) = Cardinality(Lower(i))
    BY <1>2
  <2> HIDE DEF n, B
  <2> QED BY <1>1, <1>4, <2>1, <2>2
<1>6. \A i, j \in Filled : i < j => B(i) < B(j)
  <2> SUFFICES ASSUME NEW i \in Filled, NEW j \in Filled, i < j
               PROVE  B(i) < B(j)
    OBVIOUS
  <2>1. /\ Lower(i) \in SUBSET Lower(j) /\ i \in Lower(j) /\ i \notin Lower(i)
        /\ B(i) = Cardinality(Lower(i)) /\ B(j) = Cardinality(Lower(j))
    BY <1>2, <1>3
  <2>2. /\ Cardinality(Lower(i)) <= Cardinality(Lower(j))
        /\ Cardinality(Lower(j)) # Cardinality(Lower(i))
    BY <1>4, <2>1, FS_Subset
  <2> HIDE DEF B
  <2> QED BY <1>4, <2>1, <2>2
<1> HIDE DEF n, B
<1>7. \A i, j \in Filled : B(i) = B(j) => i = j
  BY <1>1, <1>5, <1>6
<1>8. f \in Surjection(Filled, 0..n - 1)
  <2>1. 0 \in Int /\ n - 1 \in Int
    BY <1>1
  <2>2. IsFiniteSet(0..n - 1)
        /\ Cardinality(0..n - 1) = IF 0 > n - 1 THEN 0 ELSE (n - 1) - 0 + 1
    BY <2>1, FS_Interval
  <2>3. Cardinality(0..n - 1) = n
    BY <1>1, <2>2
  <2>4. f \in [Filled -> 0..n - 1] /\ \A i \in Filled : f[i] = B(i)
    <3>1. \A i \in Filled : B(i) \in 0..n - 1
      BY <1>1, <1>5
    <3> QED BY <3>1 DEF B
  <2>5. f \in Injection(Filled, 0..n - 1)
    BY <2>4, <1>7 DEF Injection, IsInjective
  <2> QED BY <2>2, <2>3, <2>5, FS_Injection DEF n
<1>9. \A j \in 1..n : \E i \in Filled : B(i) = j - 1
  <2> SUFFICES ASSUME NEW j \in 1..n PROVE \E i \in Filled : B(i) = j - 1
    OBVIOUS
  <2>1. j - 1 \in 0..n - 1
    BY <1>1
  <2>2. PICK i \in Filled : f[i] = j - 1
    BY <1>8, <2>1 DEF Surjection
  <2> QED BY <2>2 DEF B
<1> DEFINE At(j) == CHOOSE i \in Filled : Before(i) = j - 1
<1>10. \A j \in 1..n : At(j) \in Filled /\ B(At(j)) = j - 1
  BY <1>9 DEF B
<1>11. \A j \in 1..n : Encoded[j] = res[At(j)]
  BY DEF Encoded, n
<1>12. \A i \in Filled : res[i] \in Samples
  BY DEF Filled
<1>13. Encoded = [j \in 1..n |-> res[At(j)]]
  BY DEF Encoded, n
<1> HIDE DEF At
<1>14. /\ Encoded \in [1..n -> Samples] /\ DOMAIN Encoded = 1..n
       /\ Encoded \in Seq(Samples)
  <2>1. \A j \in 1..n : res[At(j)] \in Samples
    BY <1>10, <1>12
  <2>2. [j \in 1..n |-> res[At(j)]] \in Seq(Samples)
    BY <1>1, <2>1, IsASeq
  <2> QED BY <1>13, <2>1, <2>2
<1>15. Distinct(Encoded)
  <2> SUFFICES ASSUME NEW j \in 1..n, NEW k \in 1..n, res[At(j)] = res[At(k)]
               PROVE  j = k
    BY <1>11, <1>14 DEF Distinct
  <2>1. At(j) = At(k)
    BY <1>10
  <2>2. j - 1 = k - 1
    BY <2>1, <1>10
  <2> QED BY <2>2, <1>1
<1>16. \A i \in Filled : \E j \in 1..n : At(j) = i
  <2> SUFFICES ASSUME NEW i \in Filled PROVE \E j \in 1..n : At(j) = i
    OBVIOUS
  <2>1. B(i) + 1 \in 1..n /\ (B(i) + 1) - 1 = B(i)
    BY <1>1, <1>5
  <2>2. At(B(i) + 1) \in Filled /\ B(At(B(i) + 1)) = B(i)
    BY <2>1, <1>10
  <2>3. At(B(i) + 1) = i
    BY <2>2, <1>7
  <2> QED BY <2>1, <2>3
<1>17. Held(Encoded) = {res[i] : i \in Filled}
  BY <1>10, <1>11, <1>14, <1>16 DEF Held
<1>18. ASSUME \A i, j \in Filled : i < j => res[i] < res[j]
       PROVE  Rising(Encoded)
  <2>1. ASSUME NEW j \in 1..n, NEW k \in 1..n, j < k
        PROVE  Encoded[j] < Encoded[k]
    <3>1. /\ At(j) \in Filled /\ At(k) \in Filled
          /\ B(At(j)) = j - 1 /\ B(At(k)) = k - 1 /\ j - 1 < k - 1
      BY <1>1, <1>10, <2>1
    <3>2. At(j) < At(k)
      <4>1. At(j) \in Nat /\ At(k) \in Nat
        BY <1>1, <3>1
      <4>2. PICK a \in Filled, b \in Filled : a = At(j) /\ b = At(k)
        BY <3>1, Zenon
      <4>3. B(a) = j - 1 /\ B(b) = k - 1
        BY <3>1, <4>2, Zenon
      <4>4. ~ (B(b) < B(a)) /\ B(a) # B(b)
        BY <1>1, <2>1, <4>3
      <4>5. ~ (At(k) < At(j)) /\ At(k) # At(j)
        BY <1>6, <4>2, <4>4, Zenon
      <4> QED BY <4>1, <4>5
    <3> QED BY <1>11, <1>18, <3>1, <3>2, Zenon
  <2> QED BY <1>14, <2>1, Zenon DEF Rising
<1> QED BY <1>14, <1>15, <1>17, <1>18
-----------------------------------------------------------------------------
(* The inductive invariant, one lemma per action.                           *)

LEMMA InitInv == StreamInit => IInv
<1> SUFFICES ASSUME StreamInit PROVE IInv
  OBVIOUS
<1>1. Interval \in Nat /\ N \in Nat
  BY StreamAssumption, SampleAssumption
<1>2. << >> \in Seq(Item) /\ << >> \in Seq(Samples) /\ << >> \in Seq(Seq(Samples))
  BY EmptySeq
<1>3. StreamTypeOK
  BY <1>1, <1>2 DEF StreamInit, StreamTypeOK, NoAnswers
<1>4. RoundOK /\ QueueOK /\ WorkersOK /\ AnswersOK
  BY <1>1 DEF StreamInit, RoundOK, QueueOK, WorkersOK, AnswersOK, NoAnswers
<1>5. PacksOK
  BY <1>1 DEF StreamInit, PacksOK, Packed, Held, Once, Distinct, Base,
              Encodable, Samples
<1> QED BY <1>3, <1>4, <1>5 DEF IInv

(* An action that does not touch the packs keeps what is said of them.      *)
LEMMA PacksKept ==
    ASSUME PacksOK, UNCHANGED <<yielded, data>>, Base' = Base
    PROVE  PacksOK'
BY DEF PacksOK, Encodable, Packed, Held, Once, Distinct

LEMMA TakeInv == ASSUME NEW w \in Workers, IInv, Take(w) PROVE IInv'
<1> USE DEF IInv
<1>1. /\ Head(inQ) \in Item /\ Tail(inQ) \in Seq(Item)
      /\ Len(inQ) \in Nat /\ DOMAIN inQ = 1..Len(inQ) /\ 1 \in DOMAIN inQ
      /\ DOMAIN Tail(inQ) = 1..Len(inQ) - 1 /\ Head(inQ) = inQ[1]
      /\ \A k \in DOMAIN Tail(inQ) : Tail(inQ)[k] = inQ[k + 1]
  <2>1. inQ \in Seq(Item) /\ inQ # << >>
    BY DEF Take, StreamTypeOK
  <2> QED BY <2>1, HeadTailProperties, LenProperties, EmptySeq
<1>2. \A k \in DOMAIN Tail(inQ) : k + 1 \in DOMAIN inQ /\ k + 1 # 1
  BY <1>1
<1>3. StreamTypeOK'
  BY <1>1 DEF Take, StreamTypeOK
<1>4. /\ inQ' = Tail(inQ) /\ busy' = [busy EXCEPT ![w] = inQ[1]]
      /\ busy[w] = NoItem /\ busy \in [Workers -> Item \cup {NoItem}]
      /\ UNCHANGED <<gpc, pos, sent, answers, got, res, data, yielded>>
  BY <1>1 DEF Take, StreamTypeOK
<1>5. /\ \A k \in DOMAIN Tail(inQ) : Tail(inQ)[k][1] # inQ[1][1]
      /\ \A k, l \in DOMAIN Tail(inQ) : Tail(inQ)[k][1] = Tail(inQ)[l][1] => k = l
  <2>1. \A k \in DOMAIN Tail(inQ) : Tail(inQ)[k][1] # inQ[1][1]
    BY <1>1, <1>2 DEF QueueOK
  <2>2. ASSUME NEW k \in DOMAIN Tail(inQ), NEW l \in DOMAIN Tail(inQ),
               Tail(inQ)[k][1] = Tail(inQ)[l][1]
        PROVE  k = l
    <3>1. k + 1 = l + 1
      BY <2>2, <1>1, <1>2 DEF QueueOK
    <3> QED BY <3>1, <1>1
  <2> QED BY <2>1, <2>2
<1>6. QueueOK'
  <2>1. ASSUME NEW k \in DOMAIN Tail(inQ)
        PROVE  /\ Tail(inQ)[k][1] < sent /\ Tail(inQ)[k][1] \notin got
               /\ Tail(inQ)[k][2] = Base + Tail(inQ)[k][1] + 1
               /\ \A a \in answers : a[1] # Tail(inQ)[k][1]
               /\ \A v \in Workers : busy'[v] # NoItem => busy'[v][1] # Tail(inQ)[k][1]
    BY <1>1, <1>2, <1>4, <1>5 DEF QueueOK
  <2> QED BY <2>1, <1>4, <1>5 DEF QueueOK, Base
<1>7. WorkersOK'
  <2>1. /\ inQ[1][1] < sent /\ inQ[1][1] \notin got
        /\ inQ[1][2] = Base + inQ[1][1] + 1
        /\ \A a \in answers : a[1] # inQ[1][1]
        /\ \A v \in Workers : busy[v] # NoItem => busy[v][1] # inQ[1][1]
    BY <1>1 DEF QueueOK
  <2> QED BY <2>1, <1>4 DEF WorkersOK, Base
<1>8. RoundOK' /\ AnswersOK'
  BY <1>4 DEF RoundOK, AnswersOK, Base, Value, Encodable
<1>9. PacksOK'
  BY <1>4, PacksKept DEF Base
<1> QED BY <1>3, <1>6, <1>7, <1>8, <1>9

LEMMA EncodeInv == ASSUME NEW w \in Workers, IInv, Encode(w) PROVE IInv'
<1> USE DEF IInv
<1> DEFINE i == busy[w][1]
           a == <<i, Value(busy[w][2])>>
<1>1. /\ busy[w] \in Item /\ i \in 0..Interval - 1 /\ busy[w][2] \in Samples
      /\ busy \in [Workers -> Item \cup {NoItem}]
  BY DEF Encode, StreamTypeOK, Item
<1>2. /\ answers' = answers \cup {a} /\ busy' = [busy EXCEPT ![w] = NoItem]
      /\ UNCHANGED <<strict, gpc, pos, sent, inQ, dead, got, res, data, ready, yielded>>
  BY DEF Encode, Value
<1>3. a \in Answer /\ a[1] = i /\ a[2] = Value(busy[w][2])
  BY <1>1 DEF Answer, Value, Nothing
<1>4. /\ i < sent /\ i \notin got /\ busy[w][2] = Base + i + 1
      /\ \A v \in Workers : busy[v] # NoItem /\ busy[v][1] = i => v = w
      /\ \A k \in DOMAIN inQ : inQ[k][1] # i
  BY DEF WorkersOK, QueueOK, Encode
<1> HIDE DEF a, i
<1>5. StreamTypeOK'
  BY <1>1, <1>2, <1>3 DEF StreamTypeOK
<1>6. QueueOK'
  BY <1>1, <1>2, <1>3, <1>4 DEF QueueOK, Base
<1>7. WorkersOK'
  BY <1>1, <1>2, <1>3, <1>4 DEF WorkersOK, Base
<1>8. AnswersOK'
  <2>1. \A b \in answers' : /\ b[1] < sent /\ b[1] \notin got
                            /\ b[2] = Value(Base + b[1] + 1)
    BY <1>2, <1>3, <1>4 DEF AnswersOK
  <2> QED BY <2>1, <1>2 DEF AnswersOK, Base, Value, Encodable
<1>9. RoundOK' /\ PacksOK'
  BY <1>2, PacksKept DEF RoundOK, Base
<1> QED BY <1>5, <1>6, <1>7, <1>8, <1>9

LEMMA PutInv == ASSUME IInv, PutOne PROVE IInv'
<1> USE DEF IInv
<1> DEFINE x == <<sent, pos + 1>>
           n == Len(inQ)
<1>1. /\ Interval \in Nat /\ N \in Nat /\ sent \in 0..Interval - 1
      /\ pos \in 0..N - 1 /\ x \in Item /\ sent \in Nat /\ pos \in Nat
      /\ got = {} /\ x[1] = sent /\ x[2] = pos + 1
  BY StreamAssumption, SampleAssumption
     DEF PutOne, StreamTypeOK, Item, Samples, RoundOK
<1>2. /\ inQ' = Append(inQ, x) /\ sent' = sent + 1 /\ pos' = pos + 1
      /\ UNCHANGED <<strict, gpc, busy, dead, answers, got, res, data, ready, yielded>>
  BY DEF PutOne
<1>3. /\ inQ \in Seq(Item) /\ n \in Nat /\ DOMAIN inQ = 1..n
      /\ inQ' \in Seq(Item) /\ DOMAIN inQ' = 1..n + 1
      /\ \A k \in 1..n : k # n + 1 /\ inQ'[k] = inQ[k]
      /\ inQ'[n + 1] = x
  <2>1. inQ \in Seq(Item)
    BY DEF StreamTypeOK
  <2>2. n \in Nat /\ DOMAIN inQ = 1..n
    BY <2>1, LenProperties
  <2>3. /\ Append(inQ, x) \in Seq(Item) /\ Len(Append(inQ, x)) = n + 1
        /\ \A k \in 1..n : Append(inQ, x)[k] = inQ[k]
        /\ Append(inQ, x)[n + 1] = x
    BY <2>1, <1>1, AppendProperties
  <2>4. DOMAIN Append(inQ, x) = 1..n + 1
    BY <2>3, LenProperties
  <2> HIDE DEF x, n
  <2> QED BY <1>2, <2>1, <2>2, <2>3, <2>4
<1>4. Base' = Base
  BY <1>1, <1>2 DEF Base
<1>5. Base \in Nat /\ pos + 1 = Base + sent + 1
  BY <1>1 DEF Base, RoundOK
<1>6. StreamTypeOK'
  BY <1>1, <1>2, <1>3 DEF StreamTypeOK
<1>7. \A k \in DOMAIN inQ' : k \in DOMAIN inQ \/ k = n + 1
  BY <1>3
<1>8. /\ \A a \in answers : a[1] \in Nat /\ a[1] # sent /\ a[1] < sent + 1
      /\ \A w \in Workers : busy[w] # NoItem =>
             busy[w][1] \in Nat /\ busy[w][1] # sent /\ busy[w][1] < sent + 1
      /\ \A k \in DOMAIN inQ :
             inQ[k][1] \in Nat /\ inQ[k][1] # sent /\ inQ[k][1] < sent + 1
  <2>1. \A a \in answers : a[1] \in Nat
    BY DEF StreamTypeOK, Answer
  <2>2. \A w \in Workers : busy[w] # NoItem => busy[w][1] \in Nat
    BY DEF StreamTypeOK, Item
  <2>3. \A k \in DOMAIN inQ : inQ[k][1] \in Nat
    BY <1>3 DEF Item
  <2> QED BY <1>1, <2>1, <2>2, <2>3 DEF AnswersOK, WorkersOK, QueueOK
<1> HIDE DEF x, n
<1>9. QueueOK'
  <2>1. ASSUME NEW k \in DOMAIN inQ'
        PROVE  /\ inQ'[k][1] < sent' /\ inQ'[k][1] \notin got'
               /\ inQ'[k][2] = Base' + inQ'[k][1] + 1
               /\ \A a \in answers' : a[1] # inQ'[k][1]
               /\ \A w \in Workers : busy'[w] # NoItem => busy'[w][1] # inQ'[k][1]
    <3>1. CASE k \in DOMAIN inQ
      BY <3>1, <1>1, <1>2, <1>3, <1>4, <1>8 DEF QueueOK
    <3>2. CASE k = n + 1
      BY <3>2, <1>1, <1>2, <1>3, <1>4, <1>5, <1>8
    <3> QED BY <1>7, <3>1, <3>2
  <2>2. ASSUME NEW k \in DOMAIN inQ', NEW l \in DOMAIN inQ', inQ'[k][1] = inQ'[l][1]
        PROVE  k = l
    <3>1. CASE k \in DOMAIN inQ /\ l \in DOMAIN inQ
      BY <2>2, <3>1, <1>3 DEF QueueOK
    <3>2. CASE k \in DOMAIN inQ /\ l = n + 1
      BY <2>2, <3>2, <1>1, <1>3, <1>8
    <3>3. CASE l \in DOMAIN inQ /\ k = n + 1
      BY <2>2, <3>3, <1>1, <1>3, <1>8
    <3> QED BY <1>7, <3>1, <3>2, <3>3
  <2> QED BY <2>1, <2>2 DEF QueueOK
<1>10. WorkersOK'
  BY <1>1, <1>2, <1>4, <1>8 DEF WorkersOK
<1>11. AnswersOK'
  BY <1>1, <1>2, <1>4, <1>8 DEF AnswersOK, Value, Encodable
<1>12. RoundOK'
  BY <1>1, <1>2 DEF RoundOK, PutOne
<1>13. PacksOK'
  BY <1>2, <1>4, PacksKept
<1> QED BY <1>6, <1>9, <1>10, <1>11, <1>12, <1>13

LEMMA FetchInv == ASSUME IInv, FetchOne PROVE IInv'
<1> USE DEF IInv
<1>1. PICK a \in answers : /\ answers' = answers \ {a}
                           /\ res' = [res EXCEPT ![a[1]] = a[2]]
                           /\ got' = got \cup {a[1]}
  BY DEF FetchOne
<1>2. /\ gpc = "fetch" /\ a[1] \in 0..Interval - 1 /\ a[2] \in Samples \cup {Nothing}
      /\ answers \subseteq Answer /\ a[1] < sent /\ a[1] \notin got
      /\ a[2] = Value(Base + a[1] + 1)
      /\ UNCHANGED <<strict, gpc, pos, sent, inQ, busy, dead, data, ready, yielded>>
  BY DEF FetchOne, StreamTypeOK, Answer, AnswersOK
<1>3. \A b \in answers : b[1] = a[1] => b = a
  <2> SUFFICES ASSUME NEW b \in answers, b[1] = a[1] PROVE b = a
    OBVIOUS
  <2>1. b[2] = a[2]
    BY DEF AnswersOK
  <2> QED BY <2>1, <1>2 DEF Answer
<1>4. StreamTypeOK'
  BY <1>1, <1>2 DEF StreamTypeOK
<1>5. QueueOK' /\ WorkersOK'
  BY <1>1, <1>2 DEF QueueOK, WorkersOK, Base
<1>6. AnswersOK'
  <2>1. \A b \in answers' : /\ b[1] < sent /\ b[1] \notin got'
                            /\ b[2] = Value(Base + b[1] + 1)
    BY <1>1, <1>3 DEF AnswersOK
  <2>2. \A i \in 0..Interval - 1 :
            res'[i] = IF i \in got' THEN Value(Base + i + 1) ELSE Nothing
    BY <1>1, <1>2 DEF AnswersOK, StreamTypeOK
  <2> QED BY <1>1, <1>2, <2>1, <2>2 DEF AnswersOK, Base, Value, Encodable
<1>7. RoundOK' /\ PacksOK'
  BY <1>2, PacksKept DEF RoundOK, Base
<1> QED BY <1>4, <1>5, <1>6, <1>7
(* Once as many answers are counted as items were put, every index of the   *)
(* round is counted: nothing of it is left in a queue or a worker.          *)
LEMMA AllCounted ==
    ASSUME IInv, Cardinality(got) = sent
    PROVE  /\ got = 0..sent - 1
           /\ inQ = << >> /\ answers = {} /\ \A w \in Workers : busy[w] = NoItem
<1> USE DEF IInv
<1>1. got \in SUBSET (0..sent - 1) /\ sent \in Nat /\ Interval \in Nat
  BY StreamAssumption DEF StreamTypeOK, AnswersOK
<1>2. IsFiniteSet(0..sent - 1) /\ Cardinality(0..sent - 1) = sent
  <2>1. 0 \in Int /\ sent - 1 \in Int
    BY <1>1
  <2>2. IsFiniteSet(0..sent - 1)
        /\ Cardinality(0..sent - 1) = IF 0 > sent - 1 THEN 0 ELSE (sent - 1) - 0 + 1
    BY <2>1, FS_Interval
  <2> QED BY <1>1, <2>2
<1>3. got = 0..sent - 1
  BY <1>1, <1>2, FS_Subset
<1>4. \A i \in 0..Interval - 1 : i < sent => i \in got
  BY <1>1, <1>3
<1>5. answers = {}
  BY <1>4 DEF StreamTypeOK, Answer, AnswersOK
<1>6. \A w \in Workers : busy[w] = NoItem
  BY <1>4 DEF StreamTypeOK, Item, WorkersOK
<1>7. inQ = << >>
  <2>1. inQ \in Seq(Item) /\ DOMAIN inQ = 1..Len(inQ) /\ Len(inQ) \in Nat
    BY LenProperties DEF StreamTypeOK
  <2>2. \A k \in DOMAIN inQ : inQ[k] \in Item
    BY <2>1, ElementOfSeq
  <2>3. DOMAIN inQ = {}
    BY <1>4, <2>2 DEF Item, QueueOK
  <2>4. Len(inQ) = 0
    <3>1. Len(inQ) # 0 => 1 \in DOMAIN inQ
      BY <2>1
    <3> QED BY <2>3, <3>1
  <2> QED BY <2>1, <2>4, EmptySeq
<1> QED BY <1>3, <1>5, <1>6, <1>7

(* The samples of the round that are packed with what was left.             *)
LEMMA RoundEncoded ==
    ASSUME IInv, Cardinality(got) = sent
    PROVE  /\ data \o Encoded \in Seq(Samples) /\ Distinct(data \o Encoded)
           /\ Held(data \o Encoded) =
                  Held(data) \cup {x \in Encodable : Base < x /\ x <= pos}
           /\ Encoded \in Seq(Samples) /\ Rising(Encoded)
           /\ Held(Encoded) = {x \in Encodable : Base < x /\ x <= pos}
<1> USE DEF IInv
<1>1. /\ sent \in Nat /\ pos \in Nat /\ Base \in Nat /\ N \in Nat /\ pos <= N
      /\ pos = Base + sent /\ Interval \in Nat /\ sent <= Interval
  BY StreamAssumption, SampleAssumption DEF StreamTypeOK, RoundOK, Base
<1>2. /\ got = 0..sent - 1
      /\ \A i \in 0..Interval - 1 :
             res[i] = IF i \in got THEN Value(Base + i + 1) ELSE Nothing
      /\ res \in [0..Interval - 1 -> Samples \cup {Nothing}]
  BY AllCounted DEF AnswersOK, StreamTypeOK
<1>3. \A x \in Encodable : x # Nothing /\ x \in 1..N
  BY <1>1 DEF Encodable, Samples, Nothing
<1>4. ASSUME NEW i \in Filled
      PROVE  i \in 0..sent - 1 /\ res[i] = Base + i + 1 /\ res[i] \in Encodable
  BY <1>2, <1>4 DEF Filled, Value
<1>5. ASSUME NEW x \in Encodable, Base < x, x <= pos
      PROVE  x - Base - 1 \in Filled /\ res[x - Base - 1] = x
  <2>1. x - Base - 1 \in 0..sent - 1 /\ x - Base - 1 \in 0..Interval - 1
        /\ Base + (x - Base - 1) + 1 = x
    BY <1>1, <1>3, <1>5
  <2> QED BY <2>1, <1>2, <1>3 DEF Filled, Value
<1>6. \A i, j \in Filled : res[i] = res[j] => i = j
  BY <1>1, <1>4
<1>7. /\ Encoded \in Seq(Samples) /\ Distinct(Encoded)
      /\ Held(Encoded) = {res[i] : i \in Filled} /\ Rising(Encoded)
  <2>1. \A i, j \in Filled : i < j => res[i] < res[j]
    BY <1>1, <1>4
  <2> QED BY <1>1, <1>2, <1>6, <2>1, EncodedIsFilled
<1>8. Held(Encoded) = {x \in Encodable : Base < x /\ x <= pos}
  <2>1. \A i \in Filled : Base < res[i] /\ res[i] <= pos
    BY <1>1, <1>4
  <2> QED BY <2>1, <1>4, <1>5, <1>7
<1>9. Held(data) \cap Held(Encoded) = {}
  BY <1>1, <1>8 DEF PacksOK
<1> QED BY <1>7, <1>8, <1>9, HeldConcat DEF StreamTypeOK, PacksOK

LEMMA PackInv == ASSUME IInv, Pack PROVE IInv'
<1> USE DEF IInv
<1> DEFINE s == data \o Encoded
           m == Matched(s, Over)
<1>1. /\ s \in Seq(Samples) /\ Distinct(s)
      /\ Held(s) = Held(data) \cup {x \in Encodable : Base < x /\ x <= pos}
  BY RoundEncoded DEF Pack
<1> HIDE DEF s
<1>2. /\ m.packs \in Seq(Seq(Samples)) /\ m.rest \in Seq(Samples)
      /\ Packed(m.packs) \cup Held(m.rest) = Held(s)
      /\ Packed(m.packs) \cap Held(m.rest) = {}
      /\ Once(m.packs) /\ Distinct(m.rest)
  BY <1>1, MatchedKeepsAll DEF Over
<1>3. /\ data' = m.rest /\ ready' = ready \o m.packs /\ yielded' = yielded \o m.packs
      /\ gpc' \in {"put", "end"} /\ sent' = 0 /\ got' = {} /\ res' = NoAnswers
      /\ UNCHANGED <<strict, pos, inQ, busy, dead, answers>>
  BY DEF Pack, Repack, s
<1> HIDE DEF m
<1>4. /\ inQ = << >> /\ answers = {} /\ \A w \in Workers : busy[w] = NoItem
  BY AllCounted DEF Pack
<1>5. /\ sent \in Nat /\ pos \in Nat /\ Base \in Nat /\ pos = Base + sent
      /\ Interval \in Nat /\ Base' = pos
  BY <1>3, StreamAssumption, SampleAssumption DEF StreamTypeOK, RoundOK, Base
<1>6. StreamTypeOK'
  <2>1. ready' \in Seq(Seq(Samples)) /\ yielded' \in Seq(Seq(Samples))
    BY <1>2, <1>3, ConcatProperties DEF StreamTypeOK
  <2> QED BY <2>1, <1>2, <1>3, <1>5 DEF StreamTypeOK, NoAnswers
<1>7. RoundOK' /\ QueueOK' /\ WorkersOK' /\ AnswersOK'
  BY <1>3, <1>4, <1>5 DEF RoundOK, QueueOK, WorkersOK, AnswersOK, NoAnswers
<1>8. PacksOK'
  <2>1. yielded \in Seq(Seq(Samples))
    BY DEF StreamTypeOK
  <2>2. Packed(yielded') = Packed(yielded) \cup Packed(m.packs)
    BY <1>2, <1>3, <2>1, PackedConcat
  <2>3. Packed(yielded') \cup Held(data')
            = Packed(yielded) \cup Held(data) \cup {x \in Encodable : Base < x /\ x <= pos}
    BY <1>1, <1>2, <1>3, <2>2
  <2>4. /\ \A x \in Encodable : x \in Nat /\ x >= 1
        /\ \A x \in Packed(yielded) \cup Held(data) : x \in 1..pos /\ x <= Base
    BY <1>5, SampleAssumption DEF PacksOK, Encodable, Samples
  <2>5. Packed(yielded') \cup Held(data') \subseteq 1..pos
    BY <2>3, <2>4, <1>5
  <2>6. \A x \in Encodable : x <= pos => x \in Packed(yielded') \cup Held(data')
    <3> SUFFICES ASSUME NEW x \in Encodable, x <= pos
                 PROVE  x \in Packed(yielded') \cup Held(data')
      OBVIOUS
    <3>1. x <= Base \/ Base < x
      BY <1>5, <2>4
    <3> QED BY <2>3, <3>1 DEF PacksOK
  <2>7. Packed(yielded) \cap Held(s) = {}
    <3> SUFFICES ASSUME NEW x \in Packed(yielded), x \in Held(s) PROVE FALSE
      OBVIOUS
    <3>1. x \in Held(data) \/ Base < x
      BY <1>1
    <3> QED BY <3>1, <2>4, <1>5 DEF PacksOK
  <2>8. Packed(yielded') \cap Held(data') = {}
    BY <1>2, <1>3, <2>2, <2>7
  <2>9. Once(yielded')
    BY <1>2, <1>3, <2>1, <2>7, OnceConcat DEF PacksOK
  <2>10. Distinct(data)'
    BY <1>2, <1>3 DEF Distinct
  <2> QED BY <1>3, <1>5, <2>5, <2>6, <2>8, <2>9, <2>10
          DEF PacksOK, Packed, Held, Once, Distinct, Encodable
<1> QED BY <1>6, <1>7, <1>8

(* With no item put, there is none anywhere. *)
LEMMA EmptyRound ==
    ASSUME IInv, sent = 0
    PROVE  inQ = << >> /\ answers = {} /\ \A w \in Workers : busy[w] = NoItem
<1>1. got = {} /\ Interval \in Nat
  BY StreamAssumption DEF IInv, StreamTypeOK, AnswersOK
<1>2. Cardinality(got) = 0
  BY <1>1, FS_EmptySet
<1> QED BY <1>2, AllCounted

(* A pass, or the job, starts with nothing drawn from the data set.         *)
LEMMA FreshInv ==
    ASSUME strict' \in BOOLEAN, gpc' = "put", pos' = 0, sent' = 0,
           inQ' = << >>, answers' = {}, got' = {}, dead' \subseteq Workers,
           busy' \in [Workers -> {NoItem}],
           res' \in [0..Interval - 1 -> {Nothing}],
           data' = << >>, ready' = << >>, yielded' = << >>
    PROVE  IInv'
<1>1. Interval \in Nat /\ N \in Nat
  BY StreamAssumption, SampleAssumption
<1>2. << >> \in Seq(Item) /\ << >> \in Seq(Samples) /\ << >> \in Seq(Seq(Samples))
  BY EmptySeq
<1>3. StreamTypeOK'
  BY <1>1, <1>2 DEF StreamTypeOK
<1>4. RoundOK' /\ QueueOK' /\ WorkersOK' /\ AnswersOK'
  BY <1>1 DEF RoundOK, QueueOK, WorkersOK, AnswersOK
<1>5. PacksOK'
  BY <1>1 DEF PacksOK, Packed, Held, Once, Distinct, Base, Encodable, Samples
<1> QED BY <1>3, <1>4, <1>5 DEF IInv

LEMMA PassInv == ASSUME IInv, PassAgain PROVE IInv'
<1>1. sent = 0 /\ got = {}
  BY DEF PassAgain, IInv, RoundOK
<1>2. inQ = << >> /\ answers = {} /\ \A w \in Workers : busy[w] = NoItem
  BY <1>1, EmptyRound
<1>3. busy \in [Workers -> {NoItem}] /\ res \in [0..Interval - 1 -> {Nothing}]
  BY <1>1, <1>2 DEF IInv, StreamTypeOK, AnswersOK
<1>4. strict \in BOOLEAN /\ dead \subseteq Workers
  BY DEF IInv, StreamTypeOK
<1> QED BY <1>1, <1>2, <1>3, <1>4, FreshInv DEF PassAgain

(* The actions that move nothing of a round. *)
LEMMA OtherInv ==
    ASSUME IInv,
           \/ \E w \in Workers : Die(w)
           \/ PutOver \/ DrawPack \/ UNCHANGED streamVars
    PROVE  IInv'
<1> USE DEF IInv
<1>1. UNCHANGED <<strict, pos, sent, inQ, busy, answers, got, res, data, yielded>>
  BY DEF Die, PutOver, DrawPack, streamVars
<1>2. dead' \subseteq Workers /\ ready' \in Seq(Seq(Samples))
  <2>1. ready # << >> => Tail(ready) \in Seq(Seq(Samples))
    BY HeadTailProperties DEF StreamTypeOK
  <2> QED BY <2>1 DEF Die, PutOver, DrawPack, streamVars, StreamTypeOK
<1>3. gpc' = gpc \/ (gpc = "put" /\ gpc' = "fetch")
  BY DEF Die, PutOver, DrawPack, streamVars
<1>4. StreamTypeOK'
  BY <1>1, <1>2, <1>3 DEF StreamTypeOK
<1>5. RoundOK' /\ QueueOK' /\ WorkersOK' /\ AnswersOK'
  BY <1>1, <1>3 DEF RoundOK, QueueOK, WorkersOK, AnswersOK, Base, Value, Encodable
<1>6. PacksOK'
  BY <1>1, PacksKept DEF Base
<1> QED BY <1>4, <1>5, <1>6

LEMMA NextInv == IInv /\ [StreamNext]_streamVars => IInv'
<1> SUFFICES ASSUME IInv, [StreamNext]_streamVars PROVE IInv'
  OBVIOUS
<1>1. CASE \E w \in Workers : Take(w) \/ Encode(w)
  BY <1>1, TakeInv, EncodeInv
<1>2. CASE PutOne
  BY <1>2, PutInv
<1>3. CASE FetchOne
  BY <1>3, FetchInv
<1>4. CASE Pack
  BY <1>4, PackInv
<1>5. CASE PassAgain
  BY <1>5, PassInv
<1>6. CASE StreamRestart
  <2>1. NoAnswers \in [0..Interval - 1 -> {Nothing}]
    BY DEF NoAnswers
  <2>2. strict \in BOOLEAN
    BY DEF IInv, StreamTypeOK
  <2> QED BY <1>6, <2>1, <2>2, FreshInv DEF StreamRestart
<1>7. CASE (\E w \in Workers : Die(w)) \/ PutOver \/ DrawPack \/ UNCHANGED streamVars
  BY <1>7, OtherInv
<1> QED
  BY <1>1, <1>2, <1>3, <1>4, <1>5, <1>6, <1>7 DEF StreamNext, Encoding

LEMMA Inductive == StreamSpec => []IInv
<1> QED BY InitInv, NextInv, PTL DEF StreamSpec

-----------------------------------------------------------------------------
(* The rounds of IterablePackingDataset share two queues, and each numbers  *)
(* its items from 0: _fetch_data_out_queue never takes an answer of another *)
(* round for one of its own, whatever the workers do.                       *)
THEOREM RoundsApart == StreamSpec => []NothingOutstanding
<1>1. IInv => NothingOutstanding
  BY EmptyRound DEF NothingOutstanding, IInv, RoundOK
<1> QED BY <1>1, Inductive, PTL

(* What is left of a round (last_res) is carried over: over all rounds of a *)
(* pass every encodable sample is packed, or waits, exactly once, for every *)
(* bin packing that keeps all it is given.                                  *)
THEOREM SamplesOnce == StreamSpec => []EverySampleOnce
<1>1. IInv => EverySampleOnce
  <2> SUFFICES ASSUME IInv PROVE EverySampleOnce
    OBVIOUS
  <2>1. /\ yielded \in Seq(Seq(Samples)) /\ data \in Seq(Samples)
        /\ Once(yielded) /\ Distinct(data) /\ Packed(yielded) \cap Held(data) = {}
    BY DEF IInv, StreamTypeOK, PacksOK
  <2> DEFINE last == <<data>>
  <2>2. last \in Seq(Seq(Samples)) /\ DOMAIN last = {1} /\ last[1] = data
    BY <2>1
  <2>3. Once(last) /\ Packed(last) = Held(data)
    BY <2>1, <2>2 DEF Once, Distinct, Packed
  <2> HIDE DEF last
  <2>4. Once(yielded \o last)
    BY <2>1, <2>2, <2>3, OnceConcat
  <2>5. Append(yielded, data) = yielded \o last
    BY <2>1 DEF last
  <2> QED BY <2>4, <2>5 DEF EverySampleOnce, IInv, PacksOK, Base
<1> QED BY <1>1, Inductive, PTL

-----------------------------------------------------------------------------
(* Each step of the job is a step of the generator or leaves it alone:      *)
(* Draw takes a pack, ScatterNone begins another pass, Kill starts it anew. *)
LEMMA StepOfStream == [Next]_vars => [StreamNext]_streamVars
<1> SUFFICES ASSUME [Next]_vars PROVE [StreamNext]_streamVars
  OBVIOUS
<1>1. CASE UNCHANGED vars
  BY <1>1 DEF vars, streamVars
<1>2. CASE Prepare
  BY <1>2 DEF Prepare, StreamNext
<1>3. CASE Draw
  BY <1>3 DEF Draw, StreamNext
<1>4. CASE ScatterNone
  BY <1>4 DEF ScatterNone, StreamNext
<1>5. CASE Kill
  BY <1>5 DEF Kill, StreamNext
<1>6. CASE Resume \/ OpenEpoch \/ SkipGroup \/ SkipFails
  BY <1>6 DEF Resume, OpenEpoch, SkipGroup, SkipFails
<1>7. CASE Scatter \/ TrainShard \/ ShardOver \/ Save
  BY <1>7 DEF Scatter, TrainShard, ShardOver, Save
<1> QED
  BY <1>1, <1>2, <1>3, <1>4, <1>5, <1>6, <1>7 DEF Next

(* TrainData is a refinement of StreamPacking. *)
THEOREM ImplementsStream == Spec => StreamSpec
<1>1. Init => StreamInit
  BY DEF Init
<1> QED BY <1>1, StepOfStream, PTL DEF Spec, StreamSpec

(* The two facts of the generator in the training job. *)
THEOREM JobRoundsApart == Spec => []NothingOutstanding
<1> QED BY ImplementsStream, RoundsApart, PTL

THEOREM JobSamplesOnce == Spec => []EverySampleOnce
<1> QED BY ImplementsStream, SamplesOnce, PTL

-----------------------------------------------------------------------------
(* Packing round after round: what PackRounds defines by recursion.         *)

(* The packs, and what waits, after one more round.                         *)
LastRound(rounds, r) == r = Len(rounds)
OneRound(rounds, u, r) ==
    LET m == Matched(u.rest \o rounds[r], LastRound(rounds, r))
    IN  [packs |-> u.packs \o m.packs, rest |-> m.rest]

Unpacked == [packs |-> << >>, rest |-> << >>]

LEMMA OneRoundIs ==
    ASSUME NEW rounds, NEW u, NEW r
    PROVE  LET m == Matched(u.rest \o rounds[r], LastRound(rounds, r))
           IN  /\ OneRound(rounds, u, r).packs = u.packs \o m.packs
               /\ OneRound(rounds, u, r).rest = m.rest
BY Zenon DEF OneRound

Packs(rounds, k, f) ==
    /\ DOMAIN f = 0..k /\ f[0] = Unpacked
    /\ \A r \in 1..k : f[r] = OneRound(rounds, f[r - 1], r)

LEMMA PacksExist ==
    ASSUME NEW rounds, NEW n \in Nat
    PROVE  \E f : f = [r \in 0..n |-> f[r]] /\ Packs(rounds, n, f)
<1> DEFINE Some(k) == \E f : f = [r \in 0..k |-> f[r]] /\ Packs(rounds, k, f)
           S == {k \in Nat : Some(k)}
<1>1. Some(0)
  <2> DEFINE f == [r \in 0..0 |-> Unpacked]
  <2>1. DOMAIN f = 0..0 /\ f[0] = Unpacked /\ f = [r \in 0..0 |-> f[r]]
    <3> HIDE DEF Unpacked
    <3> QED OBVIOUS
  <2> HIDE DEF f
  <2> QED BY <2>1 DEF Packs
<1>2. ASSUME NEW k \in Nat, Some(k)
      PROVE  Some(k + 1)
  <2>1. PICK f : Packs(rounds, k, f)
    BY <1>2
  <2> DEFINE last == OneRound(rounds, f[k], k + 1)
             g == [r \in 0..(k + 1) |-> IF r = k + 1 THEN last ELSE f[r]]
  <2> HIDE DEF last
  <2>2. /\ k + 1 \in 0..(k + 1) /\ k \in 0..k /\ 0 \in 0..k
        /\ \A r \in 0..k : r \in 0..(k + 1) /\ r # k + 1
        /\ \A r \in 1..k : r \in 0..k /\ r - 1 \in 0..k
        /\ \A r \in 1..(k + 1) : r = k + 1 \/ r \in 1..k
        /\ (k + 1) - 1 = k
    OBVIOUS
  <2>3. /\ g[k + 1] = last /\ \A r \in 0..k : g[r] = f[r]
        /\ DOMAIN g = 0..(k + 1) /\ g = [r \in 0..(k + 1) |-> g[r]]
    BY <2>2, Zenon
  <2> HIDE DEF g
  <2>4. g[0] = Unpacked
    BY <2>1, <2>2, <2>3, Zenon DEF Packs
  <2>5. ASSUME NEW r \in 1..(k + 1)
        PROVE  g[r] = OneRound(rounds, g[r - 1], r)
    <3>1. CASE r = k + 1
      <4>1. r - 1 = k /\ g[k] = f[k]
        BY <2>2, <2>3, <3>1
      <4> QED BY <2>3, <3>1, <4>1, Zenon DEF last
    <3>2. CASE r \in 1..k
      <4>1. g[r] = f[r] /\ g[r - 1] = f[r - 1]
        BY <2>2, <2>3, <3>2, Zenon
      <4>2. f[r] = OneRound(rounds, f[r - 1], r)
        BY <2>1, <3>2, Zenon DEF Packs
      <4> QED BY <4>1, <4>2, Zenon
    <3> QED BY <2>2, <3>1, <3>2, Zenon
  <2>6. Packs(rounds, k + 1, g)
    BY <2>3, <2>4, <2>5, Zenon DEF Packs
  <2> QED BY <2>3, <2>6, Zenon
<1>3. n \in S
  <2>1. 0 \in S /\ \A k \in Nat : k \in S => k + 1 \in S
    <3> HIDE DEF Some
    <3> QED BY <1>1, <1>2
  <2> HIDE DEF S
  <2> QED BY <2>1, SetInduction
<1> QED BY <1>3

LEMMA PackRoundsDef ==
    ASSUME NEW rounds, NEW n \in Nat, n = Len(rounds)
    PROVE  Packs(rounds, n, PackRounds(rounds))
<1> DEFINE Body(f, r) ==
               IF r = 0 THEN [packs |-> << >>, rest |-> << >>]
               ELSE LET m == Matched(f[r - 1].rest \o rounds[r], r = n)
                    IN  [packs |-> f[r - 1].packs \o m.packs, rest |-> m.rest]
           Equation(f) == f = [r \in 0..n |-> Body(f, r)]
           g == CHOOSE f : Equation(f)
<1>1. PackRounds(rounds) = g
  BY DEF PackRounds
<1>2. \A f : /\ Body(f, 0) = Unpacked
             /\ \A r \in 1..n : Body(f, r) = OneRound(rounds, f[r - 1], r)
  <2>1. \A r \in 1..n : r # 0
    OBVIOUS
  <2> QED BY <2>1, Zenon DEF OneRound, LastRound, Unpacked
<1>3. \A r \in 0..n : r = 0 \/ r \in 1..n
  OBVIOUS
<1>4. 0 \in 0..n /\ \A r \in 1..n : r \in 0..n
  OBVIOUS
<1> HIDE DEF Body
<1>5. \A f : f = [r \in 0..n |-> f[r]] /\ Packs(rounds, n, f) => Equation(f)
  <2> SUFFICES ASSUME NEW f, f = [r \in 0..n |-> f[r]], Packs(rounds, n, f)
               PROVE  Equation(f)
    OBVIOUS
  <2>1. \A r \in 0..n : f[r] = Body(f, r)
    BY <1>2, <1>3, Zenon DEF Packs
  <2> QED BY <2>1, Zenon
<1>6. \E f : Equation(f)
  <2> HIDE DEF Equation
  <2> QED BY <1>5, PacksExist, Zenon
<1>7. Equation(g)
  <2> HIDE DEF Equation
  <2> QED BY <1>6, Zenon
<1> HIDE DEF g
<1>8. /\ DOMAIN g = 0..n /\ \A r \in 0..n : g[r] = Body(g, r)
  BY <1>7, Zenon
<1>9. Packs(rounds, n, g)
  BY <1>2, <1>4, <1>8, Zenon DEF Packs
<1> QED BY <1>1, <1>9, Zenon

(* What a sequence of packs is, after a round is packed: no pack is too     *)
(* long, and every sample so far is in a pack or waits, and is there once.  *)
LEMMA MatchedFits ==
    ASSUME NEW s \in Seq(Samples), Distinct(s), NEW f \in BOOLEAN
    PROVE  /\ Fit(Matched(s, f).packs)
           /\ f => Matched(s, f).rest = << >>
<1>1. CASE s = << >>
  BY <1>1 DEF Matched, Fit
<1> DEFINE b == Bins(s)
<1>2. b \in Seq(Seq(Samples)) /\ Packed(b) = Held(s) /\ Fit(b)
  BY DistinctIsOrder, BinsAssumption
<1> HIDE DEF b
<1>3. CASE s # << >> /\ f
  BY <1>2, <1>3 DEF Matched, b
<1>4. CASE s # << >> /\ ~f
  <2> DEFINE n == Len(b)
             p == SubSeq(b, 1, n - 1)
  <2>1. Matched(s, f).packs = p
    BY <1>4 DEF Matched, b, Front
  <2>2. n \in Nat /\ DOMAIN b = 1..n /\ \A i \in 1..n : b[i] \in Seq(Samples)
    BY <1>2, LenProperties, ElementOfSeq
  <2>3. n \in 1..n
    <3>1. Len(s) \in 1..Len(s)
      BY <1>4, LenProperties, EmptySeq
    <3>2. Held(s) # {}
      BY <3>1, LenProperties DEF Held
    <3>3. DOMAIN b # {}
      BY <3>2, <1>2 DEF Packed
    <3> QED BY <2>2, <3>3
  <2> HIDE DEF n
  <2>4. DOMAIN p = 1..n - 1 /\ \A i \in 1..n - 1 : p[i] = b[i] /\ i \in 1..n
    <3>1. 1 \in Int /\ n - 1 \in Int /\ \A i \in 1..n - 1 : b[i] \in Seq(Samples)
      BY <2>2, <2>3
    <3>2. /\ p \in Seq(Seq(Samples))
          /\ Len(p) = IF 1 <= n - 1 THEN (n - 1) - 1 + 1 ELSE 0
          /\ \A i \in 1..(n - 1) - 1 + 1 : p[i] = b[1 + i - 1]
      BY <3>1, SubSeqProperties
    <3>3. DOMAIN p = 1..Len(p)
      BY <3>2, LenProperties
    <3> HIDE DEF p
    <3> QED BY <2>2, <2>3, <3>2, <3>3
  <2> HIDE DEF p
  <2>5. Fit(p)
    BY <1>2, <2>2, <2>4, Zenon DEF Fit
  <2> QED BY <1>4, <2>1, <2>5, Zenon
<1> QED BY <1>1, <1>3, <1>4

LEMMA FitConcat ==
    ASSUME NEW p \in Seq(Seq(Samples)), NEW q \in Seq(Seq(Samples)),
           Fit(p), Fit(q)
    PROVE  Fit(p \o q)
<1> DEFINE c == p \o q
<1>1. /\ Len(p) \in Nat /\ Len(q) \in Nat /\ DOMAIN c = 1..Len(p) + Len(q)
      /\ DOMAIN p = 1..Len(p) /\ DOMAIN q = 1..Len(q)
      /\ \A i \in 1..Len(p) + Len(q) :
             c[i] = IF i <= Len(p) THEN p[i] ELSE q[i - Len(p)]
  BY ConcatProperties, LenProperties
<1> HIDE DEF c
<1>2. ASSUME NEW i \in DOMAIN c
      PROVE  Tokens(c[i]) <= PackingLength
  <2>1. CASE i <= Len(p)
    <3>1. i \in DOMAIN p /\ c[i] = p[i]
      BY <1>1, <2>1
    <3> QED BY <3>1, Zenon DEF Fit
  <2>2. CASE ~(i <= Len(p))
    <3>1. i - Len(p) \in DOMAIN q /\ c[i] = q[i - Len(p)]
      BY <1>1, <2>2
    <3> QED BY <3>1, Zenon DEF Fit
  <2> QED BY <2>1, <2>2
<1> QED BY <1>2 DEF Fit, c

(* The samples of the first rounds.                                         *)
Arrived(rounds, r) == UNION {Held(rounds[i]) : i \in 1..r}

Kept(rounds, r) ==
    LET u == PackRounds(rounds)[r]
    IN  /\ u.packs \in Seq(Seq(Samples)) /\ u.rest \in Seq(Samples)
        /\ Packed(u.packs) \cup Held(u.rest) = Arrived(rounds, r)
        /\ Packed(u.packs) \cap Held(u.rest) = {}
        /\ Once(u.packs) /\ Distinct(u.rest) /\ Fit(u.packs)

LEMMA RoundKeeps ==
    ASSUME NEW rounds \in Seq(Seq(Samples)), Once(rounds), NEW r \in Nat,
           r + 1 <= Len(rounds), Kept(rounds, r)
    PROVE  /\ Kept(rounds, r + 1)
           /\ r + 1 = Len(rounds) => PackRounds(rounds)[r + 1].rest = << >>
<1> DEFINE u == PackRounds(rounds)[r]
           v == PackRounds(rounds)[r + 1]
           new == rounds[r + 1]
           s == u.rest \o new
           over == LastRound(rounds, r + 1)
           m == Matched(s, over)
<1>1. /\ Len(rounds) \in Nat /\ DOMAIN rounds = 1..Len(rounds)
      /\ r + 1 \in DOMAIN rounds /\ r + 1 \in 1..Len(rounds) /\ (r + 1) - 1 = r
      /\ \A i \in 1..r : i \in DOMAIN rounds /\ i # r + 1
      /\ \A i \in 1..(r + 1) : i \in 1..r \/ i = r + 1
      /\ \A i \in 1..r : i \in 1..(r + 1)
      /\ r + 1 \in 1..(r + 1)
  OBVIOUS
<1>2. new \in Seq(Samples)
  BY <1>1
<1>3. v.packs = u.packs \o m.packs /\ v.rest = m.rest
  <2>1. Packs(rounds, Len(rounds), PackRounds(rounds))
    BY <1>1, PackRoundsDef, Zenon
  <2>2. PackRounds(rounds)[r + 1]
            = OneRound(rounds, PackRounds(rounds)[(r + 1) - 1], r + 1)
    BY <1>1, <2>1, Zenon DEF Packs
  <2>3. v = OneRound(rounds, u, r + 1)
    BY <1>1, <2>2, Zenon
  <2> HIDE DEF u, v
  <2> QED BY <2>3, Zenon DEF OneRound
<1>4. /\ u.packs \in Seq(Seq(Samples)) /\ u.rest \in Seq(Samples)
      /\ Packed(u.packs) \cup Held(u.rest) = Arrived(rounds, r)
      /\ Packed(u.packs) \cap Held(u.rest) = {}
      /\ Once(u.packs) /\ Distinct(u.rest) /\ Fit(u.packs)
  BY Zenon DEF Kept
<1>5. Distinct(new)
  <2>1. \A i \in DOMAIN rounds : Distinct(rounds[i])
    BY Zenon DEF Once, Distinct
  <2> QED BY <1>1, <2>1, Zenon
<1>6. Arrived(rounds, r) \cap Held(new) = {}
  <2> SUFFICES ASSUME NEW x \in Arrived(rounds, r), x \in Held(new)
               PROVE  FALSE
    OBVIOUS
  <2>1. PICK i \in 1..r : x \in Held(rounds[i])
    BY Zenon DEF Arrived
  <2>2. PICK j \in DOMAIN rounds[i] : x = rounds[i][j]
    BY <2>1, Zenon DEF Held
  <2>3. PICK l \in DOMAIN new : x = new[l]
    BY Zenon DEF Held
  <2> QED BY <1>1, <2>2, <2>3, Zenon DEF Once
<1>7. Arrived(rounds, r + 1) = Arrived(rounds, r) \cup Held(new)
  <2>1. Arrived(rounds, r + 1) \subseteq Arrived(rounds, r) \cup Held(new)
    BY <1>1, Zenon DEF Arrived
  <2>2. Arrived(rounds, r) \cup Held(new) \subseteq Arrived(rounds, r + 1)
    BY <1>1, Zenon DEF Arrived
  <2> QED BY <2>1, <2>2
<1> HIDE DEF u, v, new
<1>8. /\ s \in Seq(Samples) /\ Held(s) = Held(u.rest) \cup Held(new)
      /\ Distinct(s)
  <2>1. Held(u.rest) \cap Held(new) = {}
    BY <1>4, <1>6
  <2>2. u.rest \o new \in Seq(Samples)
    BY <1>2, <1>4
  <2> QED BY <1>2, <1>4, <1>5, <2>1, <2>2, HeldConcat
<1> HIDE DEF s
<1>9. over \in BOOLEAN
  BY DEF LastRound
<1> HIDE DEF over
<1>10. /\ m.packs \in Seq(Seq(Samples)) /\ m.rest \in Seq(Samples)
       /\ Packed(m.packs) \cup Held(m.rest) = Held(s)
       /\ Packed(m.packs) \cap Held(m.rest) = {}
       /\ Once(m.packs) /\ Distinct(m.rest)
  BY <1>8, <1>9, MatchedKeepsAll
<1>11. Fit(m.packs) /\ (over => m.rest = << >>)
  BY <1>8, <1>9, MatchedFits
<1> HIDE DEF m
<1>12. /\ v.packs \in Seq(Seq(Samples)) /\ v.rest \in Seq(Samples)
       /\ Packed(v.packs) = Packed(u.packs) \cup Packed(m.packs)
  <2>1. u.packs \o m.packs \in Seq(Seq(Samples))
    BY <1>4, <1>10, ConcatProperties
  <2>2. Packed(u.packs \o m.packs) = Packed(u.packs) \cup Packed(m.packs)
    BY <1>4, <1>10, PackedConcat
  <2> QED BY <1>3, <1>10, <2>1, <2>2, Zenon
<1>13. Packed(v.packs) \cup Held(v.rest) = Arrived(rounds, r + 1)
  BY <1>3, <1>4, <1>7, <1>8, <1>10, <1>12
<1>14. Packed(u.packs) \cap Held(s) = {}
  BY <1>4, <1>6, <1>8
<1>15. Packed(v.packs) \cap Held(v.rest) = {}
  BY <1>3, <1>10, <1>12, <1>14
<1>16. Once(v.packs) /\ Fit(v.packs)
  <2>1. Packed(u.packs) \cap Packed(m.packs) = {}
    BY <1>10, <1>14
  <2>2. Once(u.packs \o m.packs)
    BY <1>4, <1>10, <2>1, OnceConcat
  <2>3. Fit(u.packs \o m.packs)
    BY <1>4, <1>10, <1>11, FitConcat
  <2> QED BY <1>3, <2>2, <2>3, Zenon
<1>17. Kept(rounds, r + 1)
  BY <1>3, <1>10, <1>12, <1>13, <1>15, <1>16, Zenon DEF Kept, v
<1>18. over => v.rest = << >>
  BY <1>3, <1>11, Zenon
<1> QED BY <1>17, <1>18, Zenon DEF v, over, LastRound

LEMMA RoundsKeep ==
    ASSUME NEW rounds \in Seq(Seq(Samples)), Once(rounds)
    PROVE  /\ \A r \in 0..Len(rounds) : Kept(rounds, r)
           /\ PackRounds(rounds)[Len(rounds)].rest = << >>
<1> DEFINE n == Len(rounds)
           K == {r \in Nat : r <= n => Kept(rounds, r)}
<1>1. n \in Nat
  OBVIOUS
<1> HIDE DEF n
<1>2. PackRounds(rounds)[0] = Unpacked
  BY <1>1, PackRoundsDef, Zenon DEF Packs, n
<1>3. Kept(rounds, 0)
  <2>1. Unpacked.packs = << >> /\ Unpacked.rest = << >>
    BY DEF Unpacked
  <2>2. << >> \in Seq(Samples) /\ << >> \in Seq(Seq(Samples))
    OBVIOUS
  <2>3. Packed(<< >>) = {} /\ Held(<< >>) = {} /\ Arrived(rounds, 0) = {}
    BY DEF Packed, Held, Arrived
  <2>4. Once(<< >>) /\ Distinct(<< >>) /\ Fit(<< >>)
    BY DEF Once, Distinct, Fit
  <2>5. Packed(<< >>) \cup Held(<< >>) = Arrived(rounds, 0)
        /\ Packed(<< >>) \cap Held(<< >>) = {}
    BY <2>3
  <2> QED BY <1>2, <2>1, <2>2, <2>4, <2>5, Zenon DEF Kept
<1>4. 0 \in K
  BY <1>3
<1>5. ASSUME NEW r \in Nat, r \in K
      PROVE  r + 1 \in K
  <2>1. CASE r + 1 <= n
    <3>1. r <= n
      BY <1>1, <2>1
    <3>2. Kept(rounds, r)
      BY <1>5, <3>1
    <3>3. Kept(rounds, r + 1)
      BY <2>1, <3>2, RoundKeeps DEF n
    <3> QED BY <3>3
  <2> QED BY <2>1
<1>6. \A r \in Nat : r \in K
  <2> HIDE DEF K
  <2> QED BY <1>4, <1>5, SetInduction
<1>7. \A r \in 0..n : Kept(rounds, r)
  <2>1. \A r \in 0..n : r \in Nat /\ r <= n
    BY <1>1
  <2> QED BY <1>6, <2>1, Zenon
<1>8. PackRounds(rounds)[n].rest = << >>
  <2>1. CASE n = 0
    BY <1>2, <2>1 DEF Unpacked
  <2>2. CASE n # 0
    <3>1. PICK r \in Nat : r + 1 = n
      <4>1. n - 1 \in Nat /\ (n - 1) + 1 = n
        BY <1>1, <2>2
      <4> QED BY <4>1
    <3>2. Kept(rounds, r) /\ r + 1 <= Len(rounds)
      BY <1>1, <1>7, <3>1 DEF n
    <3>3. r + 1 = Len(rounds)
      BY <3>1 DEF n
    <3>4. PackRounds(rounds)[r + 1].rest = << >>
      BY <3>2, <3>3, RoundKeeps
    <3> QED BY <3>1, <3>4, Zenon
  <2> QED BY <2>1, <2>2
<1> QED BY <1>7, <1>8 DEF n

(* The packs of the first rounds are the first packs of all rounds.         *)
Starts(s, t) == Len(s) <= Len(t) /\ \A i \in 1..Len(s) : s[i] = t[i]

LEMMA StartsConcat ==
    ASSUME NEW T, NEW p \in Seq(T), NEW q \in Seq(T), NEW t \in Seq(T),
           Starts(p \o q, t)
    PROVE  Starts(p, t)
<1>1. /\ Len(p \o q) = Len(p) + Len(q) /\ Len(p) \in Nat /\ Len(q) \in Nat
      /\ Len(t) \in Nat /\ \A i \in 1..Len(p) : (p \o q)[i] = p[i]
  BY ConcatProperties, LenProperties
<1>2. \A i \in 1..Len(p) : i \in 1..Len(p) + Len(q)
  BY <1>1
<1>3. Len(p) <= Len(t)
  BY <1>1 DEF Starts
<1>4. \A i \in 1..Len(p) : p[i] = t[i]
  BY <1>1, <1>2, Zenon DEF Starts
<1> QED BY <1>3, <1>4, Zenon DEF Starts

(* What a round packs of what waited and its own samples.                  *)
LEMMA RoundPacks ==
    ASSUME NEW rounds \in Seq(Seq(Samples)), Once(rounds),
           NEW k \in Nat, k + 1 <= Len(rounds)
    PROVE  Matched(PackRounds(rounds)[k].rest \o rounds[k + 1],
                   LastRound(rounds, k + 1)).packs \in Seq(Seq(Samples))
<1> DEFINE n == Len(rounds)
           P == PackRounds(rounds)
           r == k + 1
<1>1. /\ n \in Nat /\ k \in 0..n /\ k + 1 <= Len(rounds)
      /\ r \in DOMAIN rounds /\ \A i \in 1..k : i \in DOMAIN rounds /\ i # r
  OBVIOUS
<1> DEFINE s == P[k].rest \o rounds[r]
           m == Matched(s, LastRound(rounds, r))
<1>2. s \in Seq(Samples) /\ Distinct(s)
  <2>1. /\ P[k].rest \in Seq(Samples) /\ Distinct(P[k].rest)
        /\ Held(P[k].rest) \subseteq Arrived(rounds, k)
    <3>1. Kept(rounds, k)
      BY <1>1, RoundsKeep, Zenon
    <3>2. /\ P[k].rest \in Seq(Samples) /\ Distinct(P[k].rest)
          /\ Packed(P[k].packs) \cup Held(P[k].rest) = Arrived(rounds, k)
      BY <3>1, Zenon DEF Kept
    <3> QED BY <3>2
  <2>2. rounds[r] \in Seq(Samples) /\ Distinct(rounds[r])
    BY <1>1 DEF Once, Distinct
  <2>3. Held(P[k].rest) \cap Held(rounds[r]) = {}
    <3> SUFFICES ASSUME NEW x \in Held(P[k].rest), x \in Held(rounds[r])
                 PROVE  FALSE
      OBVIOUS
    <3>1. PICK i \in 1..k : x \in Held(rounds[i])
      BY <2>1, Zenon DEF Arrived
    <3>2. i \in DOMAIN rounds /\ i # r
      BY <1>1
    <3>3. PICK j \in DOMAIN rounds[i] : x = rounds[i][j]
      BY <3>1, Zenon DEF Held
    <3>4. PICK l \in DOMAIN rounds[r] : x = rounds[r][l]
      BY Zenon DEF Held
    <3> QED BY <1>1, <3>2, <3>3, <3>4, Zenon DEF Once
  <2> HIDE DEF P
  <2>4. P[k].rest \o rounds[r] \in Seq(Samples)
    BY <2>1, <2>2
  <2> QED BY <2>1, <2>2, <2>3, <2>4, HeldConcat
<1> HIDE DEF s
<1>3. LastRound(rounds, r) \in BOOLEAN
  BY DEF LastRound
<1>4. m.packs \in Seq(Seq(Samples))
  BY <1>2, <1>3, MatchedKeepsAll
<1> QED BY <1>4 DEF s

LEMMA PacksGrow ==
    ASSUME NEW rounds \in Seq(Seq(Samples)), Once(rounds)
    PROVE  \A r \in 0..Len(rounds) :
               Starts(PackRounds(rounds)[r].packs,
                      PackRounds(rounds)[Len(rounds)].packs)
<1> DEFINE n == Len(rounds)
           P == PackRounds(rounds)
           K == {k \in Nat : k <= n => Starts(P[n - k].packs, P[n].packs)}
<1>1. n \in Nat /\ n - 0 = n
  OBVIOUS
<1>2. /\ \A r \in 1..n : P[r] = OneRound(rounds, P[r - 1], r)
      /\ \A r \in 0..n : P[r].packs \in Seq(Seq(Samples)) /\ P[r].rest \in Seq(Samples)
  <2>1. Packs(rounds, n, P)
    BY <1>1, PackRoundsDef, Zenon
  <2>2. \A r \in 0..n : Kept(rounds, r)
    BY RoundsKeep, Zenon
  <2> QED BY <2>1, <2>2, Zenon DEF Packs, Kept
<1>3. \A r \in 1..n : \E q \in Seq(Seq(Samples)) : P[r].packs = P[r - 1].packs \o q
  <2> SUFFICES ASSUME NEW r \in 1..n
               PROVE  \E q \in Seq(Seq(Samples)) : P[r].packs = P[r - 1].packs \o q
    OBVIOUS
  <2>1. PICK k \in Nat : k + 1 = r /\ r - 1 = k
    <3>1. r - 1 \in Nat /\ (r - 1) + 1 = r
      BY <1>1
    <3> QED BY <3>1
  <2>2. /\ k \in 0..n /\ k + 1 <= Len(rounds) /\ r \in DOMAIN rounds
        /\ k + 1 \in DOMAIN rounds
    BY <1>1, <2>1
  <2> DEFINE s == P[k].rest \o rounds[r]
             m == Matched(s, LastRound(rounds, r))
  <2>5. m.packs \in Seq(Seq(Samples))
    <3>1. Matched(P[k].rest \o rounds[k + 1], LastRound(rounds, k + 1)).packs
              \in Seq(Seq(Samples))
      BY <2>2, RoundPacks
    <3> QED BY <2>1, <3>1, Zenon
  <2>6. P[r].packs = P[k].packs \o m.packs
    <3>1. P[r] = OneRound(rounds, P[k], r)
      BY <1>2, <2>1, Zenon
    <3>2. OneRound(rounds, P[k], r).packs = P[k].packs \o m.packs
      <4> HIDE DEF P
      <4> QED BY Zenon DEF OneRound, s
    <3> QED BY <3>1, <3>2, Zenon
  <2> QED BY <2>1, <2>5, <2>6, Zenon
<1> HIDE DEF P, n
<1>4. 0 \in K
  <2>1. Starts(P[n].packs, P[n].packs)
    <3>1. n \in 0..n
      BY <1>1
    <3>2. P[n].packs \in Seq(Seq(Samples))
      BY <1>2, <3>1, Zenon
    <3>3. Len(P[n].packs) <= Len(P[n].packs)
      BY <3>2
    <3> QED BY <3>3, Zenon DEF Starts
  <2> QED BY <1>1, <2>1
<1>5. ASSUME NEW k \in Nat, k \in K
      PROVE  k + 1 \in K
  <2>1. CASE k + 1 <= n
    <3>1. k <= n /\ n - k \in 1..n /\ (n - k) - 1 = n - (k + 1) /\ n - (k + 1) \in 0..n
          /\ n \in 0..n /\ n - k \in 0..n
      BY <1>1, <2>1
    <3>2. Starts(P[n - k].packs, P[n].packs)
      BY <1>5, <3>1
    <3>3. PICK q \in Seq(Seq(Samples)) :
                  P[n - k].packs = P[n - (k + 1)].packs \o q
      BY <1>3, <3>1, Zenon
    <3>4. PICK p \in Seq(Seq(Samples)) : p = P[n - (k + 1)].packs
      BY <1>2, <3>1, Zenon
    <3>5. PICK t \in Seq(Seq(Samples)) : t = P[n].packs
      BY <1>2, <3>1, Zenon
    <3>6. Starts(p \o q, t)
      BY <3>2, <3>3, <3>4, <3>5, Zenon
    <3>7. Starts(p, t)
      BY <3>6, StartsConcat
    <3>8. Starts(P[n - (k + 1)].packs, P[n].packs)
      BY <3>4, <3>5, <3>7, Zenon
    <3> QED BY <3>8
  <2> QED BY <2>1
<1>6. \A k \in Nat : k \in K
  <2> HIDE DEF K
  <2> QED BY <1>4, <1>5, SetInduction
<1>7. \A r \in 0..n : n - r \in Nat /\ n - r <= n /\ n - (n - r) = r
  BY <1>1
<1>8. \A r \in 0..n : Starts(P[r].packs, P[n].packs)
  <2> SUFFICES ASSUME NEW r \in 0..n
               PROVE  Starts(P[r].packs, P[n].packs)
    OBVIOUS
  <2>1. PICK k \in Nat : k = n - r /\ k <= n /\ n - k = r
    BY <1>7
  <2> QED BY <1>6, <2>1, Zenon
<1> QED BY <1>8 DEF P, n

-----------------------------------------------------------------------------
(* Sequences of samples in their order.                                     *)

LEMMA MinIs ==
    ASSUME NEW a \in Int, NEW b \in Int
    PROVE  Min({a, b}) = IF a <= b THEN a ELSE b
<1>1. \E x \in {a, b} : \A y \in {a, b} : x <= y
  OBVIOUS
<1>2. /\ Min({a, b}) \in {a, b} /\ \A y \in {a, b} : Min({a, b}) <= y
  <2> DEFINE Least(x) == x \in {a, b} /\ \A y \in {a, b} : x <= y
  <2>1. Min({a, b}) = CHOOSE x : Least(x)
    BY Zenon DEF Min
  <2>2. \E x : Least(x)
    BY <1>1, Zenon
  <2> HIDE DEF Least
  <2>3. Least(Min({a, b}))
    BY <2>1, <2>2, Zenon
  <2> QED BY <2>3, Zenon DEF Least
<1> QED BY <1>2

LEMMA MaxIs ==
    ASSUME NEW a \in Int, NEW b \in Int
    PROVE  Max({a, b}) = IF a >= b THEN a ELSE b
<1>1. \E x \in {a, b} : \A y \in {a, b} : x >= y
  OBVIOUS
<1>2. /\ Max({a, b}) \in {a, b} /\ \A y \in {a, b} : Max({a, b}) >= y
  <2> DEFINE Most(x) == x \in {a, b} /\ \A y \in {a, b} : x >= y
  <2>1. Max({a, b}) = CHOOSE x : Most(x)
    BY Zenon DEF Max
  <2>2. \E x : Most(x)
    BY <1>1, Zenon
  <2> HIDE DEF Most
  <2>3. Most(Max({a, b}))
    BY <2>1, <2>2, Zenon
  <2> QED BY <2>3, Zenon DEF Most
<1> QED BY <1>2

LEMMA RisingIsDistinct ==
    ASSUME NEW s \in Seq(Samples), Rising(s)
    PROVE  Distinct(s)
<1>1. /\ DOMAIN s = 1..Len(s) /\ Len(s) \in Nat
      /\ \A i \in DOMAIN s : i \in Nat /\ s[i] \in Nat
  BY SampleAssumption DEF Samples
<1>2. ASSUME NEW i \in DOMAIN s, NEW j \in DOMAIN s, s[i] = s[j]
      PROVE  i = j
  <2>1. ~ (i < j) /\ ~ (j < i)
    BY <1>1, <1>2 DEF Rising
  <2> QED BY <1>1, <2>1
<1> QED BY <1>2 DEF Distinct

(* The first samples where two of them could differ.                        *)
LEMMA NextOfRising ==
    ASSUME NEW s \in Seq(Samples), NEW t \in Seq(Samples), Rising(s), Rising(t),
           Held(s) \subseteq Held(t), NEW k \in Nat, k + 1 <= Len(s),
           \A j \in 1..k : /\ j <= Len(s) /\ j <= Len(t) /\ s[j] = t[j]
    PROVE  k + 1 <= Len(t) /\ t[k + 1] <= s[k + 1]
<1>1. /\ DOMAIN s = 1..Len(s) /\ Len(s) \in Nat
      /\ DOMAIN t = 1..Len(t) /\ Len(t) \in Nat
      /\ \A i \in DOMAIN s : s[i] \in Nat
      /\ \A i \in DOMAIN t : t[i] \in Nat
  <2>1. \A x \in Samples : x \in Nat
    BY SampleAssumption DEF Samples
  <2>2. DOMAIN s = 1..Len(s) /\ Len(s) \in Nat /\ \A i \in DOMAIN s : s[i] \in Samples
    BY ONLY s \in Seq(Samples)
  <2>3. DOMAIN t = 1..Len(t) /\ Len(t) \in Nat /\ \A i \in DOMAIN t : t[i] \in Samples
    BY ONLY t \in Seq(Samples)
  <2> QED BY <2>1, <2>2, <2>3, Zenon
<1>2. k + 1 \in DOMAIN s
  BY <1>1
<1>3. PICK l \in DOMAIN t : s[k + 1] = t[l]
  BY <1>2, Zenon DEF Held
<1>4. ~ (l <= k)
  <2> SUFFICES ASSUME l <= k PROVE FALSE
    OBVIOUS
  <2>1. l \in 1..k /\ l \in DOMAIN s /\ l < k + 1
    BY <1>1, <1>3
  <2>2. s[l] = s[k + 1] /\ s[l] < s[k + 1]
    BY <1>2, <1>3, <2>1 DEF Rising
  <2>3. s[l] \in Nat
    BY <1>1, <2>1
  <2> QED BY <2>2, <2>3
<1>5. k + 1 \in DOMAIN t /\ k + 1 <= Len(t) /\ (k + 1 = l \/ k + 1 < l)
  BY <1>1, <1>3, <1>4
<1>6. t[k + 1] <= t[l]
  <2>1. t[k + 1] \in Nat /\ t[l] \in Nat
    BY <1>1, <1>2, <1>3, <1>5
  <2>2. CASE k + 1 = l
    BY <2>1, <2>2
  <2>3. CASE k + 1 < l
    <3>1. t[k + 1] < t[l]
      BY <1>3, <1>5, <2>3 DEF Rising
    <3> QED BY <2>1, <3>1
  <2> QED BY <1>5, <2>2, <2>3
<1> QED BY <1>3, <1>5, <1>6

(* A set of samples has one order.                                          *)
LEMMA RisingSame ==
    ASSUME NEW s \in Seq(Samples), NEW t \in Seq(Samples), Rising(s), Rising(t),
           Held(s) = Held(t)
    PROVE  s = t
<1> DEFINE Same(j) == /\ j <= Len(s) <=> j <= Len(t)
                      /\ j <= Len(s) => s[j] = t[j]
           K == {k \in Nat : \A j \in 1..k : Same(j)}
<1>1. /\ DOMAIN s = 1..Len(s) /\ Len(s) \in Nat
      /\ DOMAIN t = 1..Len(t) /\ Len(t) \in Nat
      /\ \A i \in DOMAIN s : s[i] \in Nat
      /\ \A i \in DOMAIN t : t[i] \in Nat
  <2>1. \A x \in Samples : x \in Nat
    BY SampleAssumption DEF Samples
  <2>2. DOMAIN s = 1..Len(s) /\ Len(s) \in Nat /\ \A i \in DOMAIN s : s[i] \in Samples
    BY ONLY s \in Seq(Samples)
  <2>3. DOMAIN t = 1..Len(t) /\ Len(t) \in Nat /\ \A i \in DOMAIN t : t[i] \in Samples
    BY ONLY t \in Seq(Samples)
  <2> QED BY <2>1, <2>2, <2>3, Zenon
<1>2. 0 \in K
  OBVIOUS
<1>3. ASSUME NEW k \in Nat, k \in K
      PROVE  k + 1 \in K
  <2>1. \A j \in 1..k : Same(j)
    BY <1>3
  <2>2. /\ k + 1 <= Len(s) => \A j \in 1..k : j <= Len(s) /\ j <= Len(t) /\ s[j] = t[j]
        /\ k + 1 <= Len(t) => \A j \in 1..k : j <= Len(s) /\ j <= Len(t) /\ s[j] = t[j]
    <3>1. \A j \in 1..k : /\ k + 1 <= Len(s) => j <= Len(s)
                          /\ k + 1 <= Len(t) => j <= Len(t)
      BY <1>1
    <3> QED BY <2>1, <3>1
  <2>3. k + 1 <= Len(s) => k + 1 <= Len(t) /\ t[k + 1] <= s[k + 1]
    <3> SUFFICES ASSUME k + 1 <= Len(s)
                 PROVE  k + 1 <= Len(t) /\ t[k + 1] <= s[k + 1]
      OBVIOUS
    <3> HIDE DEF K
    <3>1. Held(s) \subseteq Held(t)
      OBVIOUS
    <3> QED BY <2>2, <3>1, NextOfRising
  <2>4. k + 1 <= Len(t) => k + 1 <= Len(s) /\ s[k + 1] <= t[k + 1]
    <3> SUFFICES ASSUME k + 1 <= Len(t)
                 PROVE  k + 1 <= Len(s) /\ s[k + 1] <= t[k + 1]
      OBVIOUS
    <3>1. \A j \in 1..k : /\ j <= Len(t) /\ j <= Len(s) /\ t[j] = s[j]
      BY <2>2
    <3>2. Held(t) \subseteq Held(s)
      OBVIOUS
    <3> HIDE DEF K
    <3> QED BY <3>1, <3>2, NextOfRising
  <2>5. Same(k + 1)
    <3>1. k + 1 <= Len(s) => s[k + 1] \in Nat
      <4>1. k + 1 <= Len(s) => k + 1 \in 1..Len(s)
        BY <1>1
      <4> QED BY <1>1, <4>1
    <3>2. k + 1 <= Len(t) => t[k + 1] \in Nat
      <4>1. k + 1 <= Len(t) => k + 1 \in 1..Len(t)
        BY <1>1
      <4> QED BY <1>1, <4>1
    <3> QED BY <2>3, <2>4, <3>1, <3>2
  <2>6. \A j \in 1..(k + 1) : j \in 1..k \/ j = k + 1
    OBVIOUS
  <2> HIDE DEF Same
  <2>7. \A j \in 1..(k + 1) : Same(j)
    BY <2>1, <2>5, <2>6, Zenon
  <2> QED BY <2>7
<1>4. \A k \in Nat : k \in K
  <2> HIDE DEF K
  <2> QED BY <1>2, <1>3, SetInduction
<1>5. \A j \in Nat \ {0} : Same(j)
  <2> SUFFICES ASSUME NEW j \in Nat \ {0} PROVE Same(j)
    OBVIOUS
  <2>1. j \in Nat /\ j \in 1..j
    OBVIOUS
  <2> HIDE DEF Same
  <2>2. j \in K
    BY <1>4, <2>1
  <2> QED BY <2>1, <2>2
<1>6. Len(s) = Len(t)
  <2>1. ASSUME Len(s) # 0 PROVE Len(s) <= Len(t)
    BY <1>1, <1>5, <2>1
  <2>2. ASSUME Len(t) # 0 PROVE Len(t) <= Len(s)
    BY <1>1, <1>5, <2>2
  <2>3. Len(s) \in Nat /\ Len(t) \in Nat
    BY <1>1
  <2> QED BY ONLY <2>1, <2>2, <2>3
<1>7. \A j \in 1..Len(s) : s[j] = t[j]
  <2>1. \A j \in 1..Len(s) : j \in Nat \ {0} /\ j <= Len(s)
    BY <1>1
  <2> QED BY <1>5, <2>1, Zenon
<1> QED BY <1>1, <1>6, <1>7

(* What Those leaves out leaves the rest in its order.                      *)
LEMMA RisingThose ==
    ASSUME NEW S
    PROVE  \A s \in Seq(Samples) :
               Rising(s) => /\ Rising(Those(s, S))
                            /\ Held(Those(s, S)) = Held(s) \cap S
<1> DEFINE Good(s) == Rising(s) => /\ Rising(Those(s, S))
                                   /\ Held(Those(s, S)) = Held(s) \cap S
           P == {s \in Seq(Samples) : Good(s)}
<1>1. << >> \in P
  <2>1. Those(<< >>, S) = << >>
    BY ThoseEmpty
  <2>2. << >> \in Seq(Samples) /\ Rising(<< >>) /\ Held(<< >>) = {}
    BY DEF Rising, Held
  <2>3. Held(<< >>) = Held(<< >>) \cap S
    BY <2>2
  <2>4. Good(<< >>)
    BY <2>1, <2>2, <2>3, Zenon
  <2> QED BY <2>2, <2>4
<1>2. ASSUME NEW s \in Seq(Samples), NEW x \in Samples, s \in P
      PROVE  Append(s, x) \in P
  <2>1. PICK u \in Seq(Samples) : u = Append(s, x)
    <3>1. Append(s, x) \in Seq(Samples)
      OBVIOUS
    <3> QED BY <3>1, Zenon
  <2>2. PICK v \in Seq(Samples) : v = Those(s, S)
    BY ThoseType, Zenon
  <2>3. Those(u, S) = IF x \in S THEN Append(v, x) ELSE v
    BY <2>1, <2>2, ThoseAppend
  <2>4. \A w \in Seq(Samples) :
            /\ Append(w, x) \in Seq(Samples)
            /\ DOMAIN w = 1..Len(w) /\ DOMAIN Append(w, x) = 1..(Len(w) + 1)
            /\ Len(w) \in Nat /\ Append(w, x)[Len(w) + 1] = x
            /\ \A i \in 1..Len(w) : Append(w, x)[i] = w[i]
    OBVIOUS
  <2>5. \A w \in Seq(Samples) : Held(Append(w, x)) = Held(w) \cup {x}
    <3> SUFFICES ASSUME NEW w \in Seq(Samples)
                 PROVE  Held(Append(w, x)) = Held(w) \cup {x}
      OBVIOUS
    <3>1. PICK z \in Seq(Samples) : z = Append(w, x)
      BY <2>4, Zenon
    <3>2. /\ DOMAIN w = 1..Len(w) /\ DOMAIN z = 1..(Len(w) + 1) /\ Len(w) \in Nat
          /\ z[Len(w) + 1] = x /\ \A i \in 1..Len(w) : z[i] = w[i]
      BY <2>4, <3>1, Zenon
    <3>3. /\ \A i \in DOMAIN z : i \in DOMAIN w \/ i = Len(w) + 1
          /\ \A i \in DOMAIN w : i \in DOMAIN z
          /\ Len(w) + 1 \in DOMAIN z
      BY <3>2
    <3>4. Held(z) \subseteq Held(w) \cup {x}
      BY <3>2, <3>3 DEF Held
    <3>5. Held(w) \cup {x} \subseteq Held(z)
      BY <3>2, <3>3 DEF Held
    <3> QED BY <3>1, <3>4, <3>5, Zenon
  <2>6. ASSUME Rising(u)
        PROVE  Rising(s) /\ \A i \in DOMAIN s : s[i] < x
    <3>1. /\ DOMAIN s = 1..Len(s) /\ DOMAIN u = 1..(Len(s) + 1) /\ Len(s) \in Nat
          /\ u[Len(s) + 1] = x /\ \A i \in 1..Len(s) : u[i] = s[i]
      BY <2>1, <2>4, Zenon
    <3>2. /\ \A i \in DOMAIN s : i \in DOMAIN u /\ i < Len(s) + 1
          /\ Len(s) + 1 \in DOMAIN u
      BY <3>1
    <3>3. ASSUME NEW i \in DOMAIN s, NEW j \in DOMAIN s, i < j
          PROVE  s[i] < s[j]
      <4>1. i \in DOMAIN u /\ j \in DOMAIN u /\ u[i] = s[i] /\ u[j] = s[j]
        BY <3>1, <3>2
      <4>2. u[i] < u[j]
        BY <2>6, <3>3, <4>1, Zenon DEF Rising
      <4> QED BY <4>1, <4>2, Zenon
    <3>4. ASSUME NEW i \in DOMAIN s
          PROVE  s[i] < x
      BY <2>6, <3>1, <3>2, Zenon DEF Rising
    <3> QED BY <3>3, <3>4, Zenon DEF Rising
  <2>7. ASSUME Rising(u)
        PROVE  /\ Rising(Those(u, S)) /\ Held(Those(u, S)) = Held(u) \cap S
    <3>1. Rising(v) /\ Held(v) = Held(s) \cap S /\ \A y \in Held(s) : y < x
      <4>1. Good(s)
        BY <1>2
      <4>2. \A y \in Held(s) : y < x
        BY <2>6, <2>7, Zenon DEF Held
      <4> QED BY <2>2, <2>6, <2>7, <4>1, <4>2, Zenon
    <3>2. Held(u) = Held(s) \cup {x}
      BY <2>1, <2>5, Zenon
    <3>3. CASE x \notin S
      <4>1. Held(v) = Held(u) \cap S
        BY <3>1, <3>2, <3>3
      <4> QED BY <2>3, <3>1, <3>3, <4>1, Zenon
    <3>4. CASE x \in S
      <4>1. PICK z \in Seq(Samples) : z = Append(v, x)
        BY <2>4, Zenon
      <4>2. /\ DOMAIN v = 1..Len(v) /\ DOMAIN z = 1..(Len(v) + 1) /\ Len(v) \in Nat
            /\ z[Len(v) + 1] = x /\ \A i \in 1..Len(v) : z[i] = v[i]
        BY <2>4, <4>1, Zenon
      <4>3. Held(z) = Held(u) \cap S
        <5>1. Held(z) = Held(v) \cup {x}
          BY <2>5, <4>1, Zenon
        <5> QED BY <3>1, <3>2, <3>4, <5>1
      <4>4. \A i \in DOMAIN v : v[i] < x
        <5>1. \A i \in DOMAIN v : v[i] \in Held(v)
          BY Zenon DEF Held
        <5>2. Held(v) \subseteq Held(s)
          BY <3>1
        <5> QED BY <3>1, <5>1, <5>2
      <4>5. ASSUME NEW i \in DOMAIN z, NEW j \in DOMAIN z, i < j
            PROVE  z[i] < z[j]
        <5>1. i \in DOMAIN v /\ (j \in DOMAIN v \/ j = Len(v) + 1)
          BY <4>2, <4>5
        <5> QED BY <3>1, <4>2, <4>4, <4>5, <5>1, Zenon DEF Rising
      <4>6. Rising(z)
        BY <4>5 DEF Rising
      <4> QED BY <2>3, <3>4, <4>1, <4>3, <4>6, Zenon
    <3> QED BY <3>3, <3>4
  <2>8. Good(u)
    BY <2>7
  <2> QED BY <2>1, <2>8
<1>3. \A s \in Seq(Samples) : s \in P
  <2> HIDE DEF P
  <2> QED BY <1>1, <1>2, SeqInduction
<1> QED BY <1>3

-----------------------------------------------------------------------------
(* Quotients and products of naturals.                                      *)

LEMMA TimesMonotone ==
    ASSUME NEW a \in Nat, NEW b \in Nat, NEW c \in Nat, a <= b
    PROVE  a * c \in Nat /\ b * c \in Nat /\ a * c <= b * c
<1>1. PICK d \in Nat : b = a + d
  <2>1. b - a \in Nat /\ b = a + (b - a)
    OBVIOUS
  <2> QED BY <2>1
<1>2. b * c = a * c + d * c /\ a * c \in Nat /\ d * c \in Nat
  BY <1>1
<1> QED BY <1>2

LEMMA TimesNext ==
    ASSUME NEW a \in Nat, NEW c \in Nat
    PROVE  (a + 1) * c = a * c + c /\ a * c \in Nat
OBVIOUS

LEMMA DivMod ==
    ASSUME NEW a \in Int, NEW b \in Int, b > 0
    PROVE  a = b * (a \div b) + (a % b)
OBVIOUS

LEMMA DivIs ==
    ASSUME NEW a \in Nat, NEW b \in Nat \ {0}
    PROVE  /\ a \div b \in Nat /\ a % b \in Nat /\ a % b < b
           /\ a = (a \div b) * b + (a % b)
<1>1. a \div b \in Nat
  OBVIOUS
<1>2. a % b \in Nat /\ a % b < b
  OBVIOUS
<1>3. a = b * (a \div b) + (a % b)
  <2>1. a \in Int /\ b \in Int /\ b > 0
    OBVIOUS
  <2> QED BY ONLY <2>1, DivMod
<1>4. PICK q \in Nat : q = a \div b
  BY <1>1
<1>5. b * q = q * b
  OBVIOUS
<1> QED BY <1>1, <1>2, <1>3, <1>4, <1>5, Zenon

LEMMA DivUnique ==
    ASSUME NEW b \in Nat \ {0}, NEW q \in Nat, NEW r \in Nat, r < b
    PROVE  (q * b + r) \div b = q /\ (q * b + r) % b = r
<1> DEFINE a == q * b + r
           p == a \div b
<1>1. a \in Nat
  OBVIOUS
<1>2. p \in Nat /\ a % b \in Nat /\ a % b < b /\ a = p * b + (a % b)
  BY <1>1, DivIs
<1> DEFINE m == a % b
<1>3. q * b + r = p * b + m /\ m \in Nat /\ m < b
  BY <1>2
<1> HIDE DEF a, p, m
<1>4. ~ (q < p)
  <2> SUFFICES ASSUME q + 1 <= p PROVE FALSE
    BY <1>2
  <2>1. (q + 1) * b <= p * b /\ (q + 1) * b = q * b + b
    BY <1>2, TimesMonotone, TimesNext
  <2> QED BY <1>2, <1>3, <2>1
<1>5. ~ (p < q)
  <2> SUFFICES ASSUME p + 1 <= q PROVE FALSE
    BY <1>2
  <2>1. (p + 1) * b <= q * b /\ (p + 1) * b = p * b + b
    BY <1>2, TimesMonotone, TimesNext
  <2> QED BY <1>2, <1>3, <2>1
<1>6. p = q
  BY <1>2, <1>4, <1>5
<1>7. m = r
  BY <1>3, <1>6
<1> QED BY <1>6, <1>7 DEF a, p, m

-----------------------------------------------------------------------------
(* The rounds of a pass over a streamed data set.                           *)

Row(d, n) == [i \in 1..n |-> d + i]

LEMMA RowIs ==
    ASSUME NEW d \in Nat, NEW n \in Nat, d + n <= N
    PROVE  /\ Row(d, n) \in Seq(Samples) /\ Len(Row(d, n)) = n
           /\ DOMAIN Row(d, n) = 1..n /\ Rising(Row(d, n))
           /\ Held(Row(d, n)) = {x \in Samples : d < x /\ x <= d + n}
<1> DEFINE s == Row(d, n)
<1>1. /\ DOMAIN s = 1..n /\ \A i \in 1..n : s[i] = d + i
      /\ s = [i \in 1..n |-> d + i]
  BY DEF Row
<1>2. \A i \in 1..n : d + i \in Samples /\ d < d + i /\ d + i <= d + n
  BY SampleAssumption DEF Samples
<1>3. s \in Seq(Samples)
  BY <1>1, <1>2, IsASeq
<1> HIDE DEF s
<1>4. Len(s) = n
  <2>1. Len(s) \in Nat /\ DOMAIN s = 1..Len(s)
    BY <1>3
  <2> QED BY <1>1, <2>1
<1>5. Rising(s)
  BY <1>1 DEF Rising
<1>6. Held(s) = {x \in Samples : d < x /\ x <= d + n}
  <2>1. Held(s) \subseteq {x \in Samples : d < x /\ x <= d + n}
    BY <1>1, <1>2 DEF Held
  <2>2. ASSUME NEW x \in Samples, d < x, x <= d + n
        PROVE  x \in Held(s)
    <3>1. x - d \in 1..n /\ d + (x - d) = x
      BY <2>2, SampleAssumption DEF Samples
    <3>2. x - d \in DOMAIN s /\ s[x - d] = x
      BY <1>1, <3>1
    <3> QED BY <3>2 DEF Held
  <2> QED BY <2>1, <2>2
<1> QED BY <1>1, <1>3, <1>4, <1>5, <1>6 DEF s

LEMMA IntervalsIn ==
           /\ N \in Nat /\ Interval \in Nat \ {0} /\ N \div Interval \in Nat
           /\ (N \div Interval) * Interval <= N
           /\ N < (N \div Interval) * Interval + Interval
           /\ \A r \in Nat : r <= N \div Interval =>
                  r * Interval \in Nat /\ r * Interval <= N
           /\ \A r \in Nat : r < N \div Interval => (r + 1) * Interval <= N
           /\ \A r \in Nat : (r + 1) * Interval = r * Interval + Interval
<1>1. N \in Nat /\ Interval \in Nat \ {0}
  BY SampleAssumption, StreamAssumption
<1>2. PICK q \in Nat : q = N \div Interval
  BY <1>1, DivIs
<1>3. q * Interval <= N /\ N < q * Interval + Interval
  <2>1. /\ N % Interval \in Nat /\ N % Interval < Interval
        /\ N = q * Interval + (N % Interval)
    BY <1>1, <1>2, DivIs
  <2>2. q * Interval \in Nat
    BY <1>1
  <2> QED BY <1>1, <2>1, <2>2
<1>4. \A r \in Nat : r <= q => r * Interval \in Nat /\ r * Interval <= N
  <2> SUFFICES ASSUME NEW r \in Nat, r <= q
               PROVE  r * Interval \in Nat /\ r * Interval <= N
    OBVIOUS
  <2>1. r * Interval \in Nat /\ q * Interval \in Nat /\ r * Interval <= q * Interval
    BY <1>1, TimesMonotone
  <2> QED BY <1>1, <1>3, <2>1
<1>5. \A r \in Nat : r < q => (r + 1) * Interval <= N
  <2> SUFFICES ASSUME NEW r \in Nat, r < q PROVE (r + 1) * Interval <= N
    OBVIOUS
  <2>1. r + 1 \in Nat /\ r + 1 <= q
    OBVIOUS
  <2> QED BY <1>4, <2>1
<1>6. \A r \in Nat : (r + 1) * Interval = r * Interval + Interval
  BY <1>1, TimesNext
<1> QED BY <1>1, <1>2, <1>3, <1>4, <1>5, <1>6, Zenon

(* The samples of one round that can be encoded, in order.                  *)
InRound(r) == {x \in Encodable : (r - 1) * Interval < x
                                 /\ x <= (r - 1) * Interval + Interval}

LEMMA PassRoundsAre ==
    /\ PassRounds \in Seq(Seq(Samples)) /\ Len(PassRounds) = N \div Interval + 1
    /\ Once(PassRounds)
    /\ \A r \in 1..Len(PassRounds) :
           Rising(PassRounds[r]) /\ Held(PassRounds[r]) = InRound(r)
<1> DEFINE n == N \div Interval + 1
           Size(r) == Min({Interval, N - (r - 1) * Interval})
           rounds == PassRounds
<1>1. n \in Nat /\ n # 0
  BY IntervalsIn
<1>2. /\ DOMAIN rounds = 1..n
      /\ \A r \in 1..n :
             rounds[r] = Those(Row((r - 1) * Interval, Size(r)), Encodable)
      /\ rounds = [r \in 1..n |-> rounds[r]]
  BY Zenon DEF PassRounds, Row
<1>3. ASSUME NEW r \in 1..n
      PROVE  /\ (r - 1) * Interval \in Nat /\ Size(r) \in Nat
             /\ (r - 1) * Interval + Size(r) <= N
             /\ \A x \in 1..N : x <= (r - 1) * Interval + Size(r)
                                    <=> x <= (r - 1) * Interval + Interval
  <2>1. PICK d \in Nat : d = (r - 1) * Interval /\ d <= N
    <3>1. r - 1 \in Nat /\ r - 1 <= N \div Interval
      BY <1>1, IntervalsIn
    <3>2. (r - 1) * Interval \in Nat /\ (r - 1) * Interval <= N
      BY <3>1, IntervalsIn
    <3> QED BY <3>2
  <2>2. N \in Nat /\ Interval \in Nat
    BY IntervalsIn
  <2>3. Size(r) = IF Interval <= N - d THEN Interval ELSE N - d
    <3>1. Interval \in Int /\ N - d \in Int
      BY <2>2
    <3>2. Min({Interval, N - d}) = IF Interval <= N - d THEN Interval ELSE N - d
      BY <3>1, MinIs
    <3> QED BY <2>1, <3>2, Zenon
  <2> HIDE DEF Size
  <2>4. /\ Size(r) \in Nat /\ d + Size(r) <= N
        /\ \A x \in 1..N : x <= d + Size(r) <=> x <= d + Interval
    <3>1. PICK k : k = Size(r)
      OBVIOUS
    <3>2. k = IF Interval <= N - d THEN Interval ELSE N - d
      BY <2>3, <3>1, Zenon
    <3>3. d \in Nat /\ d <= N
      BY <2>1
    <3>4. k \in Nat /\ d + k <= N
      BY ONLY <2>2, <3>2, <3>3
    <3>5. \A x \in 1..N : x <= d + k <=> x <= d + Interval
      <4>1. CASE Interval <= N - d
        BY <3>2, <4>1
      <4>2. CASE ~(Interval <= N - d)
        <5>1. \A x \in 1..N : x <= d + (N - d) /\ x <= d + Interval
          BY ONLY <2>2, <3>3, <4>2
        <5> QED BY <3>2, <4>2, <5>1, Zenon
      <4> QED BY <4>1, <4>2
    <3> QED BY <3>1, <3>4, <3>5, Zenon
  <2> QED BY <2>1, <2>4
<1> HIDE DEF Size
<1>4. \A r \in 1..n : /\ rounds[r] \in Seq(Samples) /\ Rising(rounds[r])
                      /\ Held(rounds[r]) = InRound(r)
  <2> SUFFICES ASSUME NEW r \in 1..n
               PROVE  /\ rounds[r] \in Seq(Samples) /\ Rising(rounds[r])
                      /\ Held(rounds[r]) = InRound(r)
    OBVIOUS
  <2>1. PICK d \in Nat, k \in Nat :
                /\ d = (r - 1) * Interval /\ k = Size(r) /\ d + k <= N
                /\ \A x \in 1..N : x <= d + k <=> x <= d + Interval
    BY <1>3
  <2>2. PICK s \in Seq(Samples) :
                /\ s = Row(d, k) /\ Rising(s)
                /\ Held(s) = {x \in Samples : d < x /\ x <= d + k}
    BY <2>1, RowIs
  <2>3. rounds[r] = Those(s, Encodable)
    BY <1>2, <2>1, <2>2, Zenon
  <2>4. Those(s, Encodable) \in Seq(Samples)
    BY ThoseType
  <2>5. Rising(Those(s, Encodable))
        /\ Held(Those(s, Encodable)) = Held(s) \cap Encodable
    BY <2>2, RisingThose, Zenon
  <2>6. Held(s) \cap Encodable = InRound(r)
    <3>1. Encodable \subseteq Samples
      BY DEF Encodable
    <3>2. InRound(r) = {x \in Encodable : d < x /\ x <= d + Interval}
      BY <2>1, Zenon DEF InRound
    <3> QED BY <2>1, <2>2, <3>1, <3>2 DEF Samples
  <2> QED BY <2>3, <2>4, <2>5, <2>6, Zenon
<1>5. rounds \in Seq(Seq(Samples)) /\ Len(rounds) = n
  <2>1. [r \in 1..n |-> rounds[r]] \in Seq(Seq(Samples))
    BY <1>1, <1>4, IsASeq
  <2>2. rounds \in Seq(Seq(Samples))
    BY <1>2, <2>1, Zenon
  <2> HIDE DEF rounds, n
  <2>3. Len(rounds) \in Nat /\ DOMAIN rounds = 1..Len(rounds)
    BY <2>2
  <2> QED BY <1>1, <1>2, <2>2, <2>3
<1>6. ASSUME NEW i \in 1..n, NEW k \in 1..n, NEW x \in InRound(i), x \in InRound(k)
      PROVE  i = k
  <2>1. \A a, b \in 1..n : a < b => (a - 1) * Interval + Interval <= (b - 1) * Interval
    <3> SUFFICES ASSUME NEW a \in 1..n, NEW b \in 1..n, a < b
                 PROVE  (a - 1) * Interval + Interval <= (b - 1) * Interval
      OBVIOUS
    <3>1. Interval \in Nat /\ a \in Nat /\ b - 1 \in Nat /\ a <= b - 1 /\ a - 1 \in Nat
          /\ (a - 1) + 1 = a
      BY <1>1, IntervalsIn
    <3>2. a * Interval <= (b - 1) * Interval
      BY <3>1, TimesMonotone
    <3>3. ((a - 1) + 1) * Interval = (a - 1) * Interval + Interval
      BY <3>1, IntervalsIn
    <3> QED BY <3>1, <3>2, <3>3
  <2>2. \A a \in 1..n : (a - 1) * Interval \in Nat
    BY <1>3
  <2>3. x \in Nat /\ Interval \in Nat
    BY IntervalsIn DEF InRound, Encodable, Samples
  <2>4. ~ (i < k)
    <3> SUFFICES ASSUME i < k PROVE FALSE
      OBVIOUS
    <3>1. x <= (i - 1) * Interval + Interval /\ (k - 1) * Interval < x
      BY <1>6, Zenon DEF InRound
    <3> QED BY <2>1, <2>2, <2>3, <3>1
  <2>5. ~ (k < i)
    <3> SUFFICES ASSUME k < i PROVE FALSE
      OBVIOUS
    <3>1. x <= (k - 1) * Interval + Interval /\ (i - 1) * Interval < x
      BY <1>6, Zenon DEF InRound
    <3> QED BY <2>1, <2>2, <2>3, <3>1
  <2>6. i \in Nat /\ k \in Nat
    BY <1>1
  <2> QED BY <2>4, <2>5, <2>6
<1>7. Once(rounds)
  <2> SUFFICES ASSUME NEW i \in 1..n, NEW k \in 1..n, NEW j \in DOMAIN rounds[i],
                      NEW l \in DOMAIN rounds[k], rounds[i][j] = rounds[k][l]
               PROVE  i = k /\ j = l
    BY <1>2, Zenon DEF Once
  <2>1. rounds[i][j] \in InRound(i) /\ rounds[k][l] \in InRound(k)
    BY <1>4, Zenon DEF Held
  <2>2. i = k
    BY <1>6, <2>1, Zenon
  <2>3. Distinct(rounds[i])
    <3>1. rounds[i] \in Seq(Samples) /\ Rising(rounds[i])
      BY <1>4, Zenon
    <3> QED BY <3>1, RisingIsDistinct, Zenon
  <2> QED BY <2>2, <2>3, Zenon DEF Distinct
<1> QED BY <1>4, <1>5, <1>7, Zenon

-----------------------------------------------------------------------------
(* The generator gives what the samples give when they are encoded one      *)
(* after the other.                                                         *)
Pass == PackRounds(PassRounds)

AsReference ==
    /\ gpc = "fetch" => sent = Interval \/ pos = N
    /\ \E r \in 0..Len(PassRounds) :
           /\ yielded = Pass[r].packs /\ data = Pass[r].rest
           /\ IF gpc = "end" THEN r = Len(PassRounds)
              ELSE r < Len(PassRounds) /\ Base = r * Interval

LEMMA PassIs ==
    /\ Len(PassRounds) \in Nat /\ Len(PassRounds) >= 1
    /\ Pass[0].packs = << >> /\ Pass[0].rest = << >>
    /\ \A r \in 1..Len(PassRounds) : Pass[r] = OneRound(PassRounds, Pass[r - 1], r)
    /\ \A r \in 0..Len(PassRounds) :
           /\ Pass[r].packs \in Seq(Seq(Samples)) /\ Fit(Pass[r].packs)
           /\ Starts(Pass[r].packs, PassPacks)
    /\ PassPacks = Pass[Len(PassRounds)].packs /\ PassPacks \in Seq(Seq(Samples))
<1> DEFINE n == Len(PassRounds)
<1>1. n \in Nat /\ n >= 1
  BY PassRoundsAre, IntervalsIn
<1>2. Packs(PassRounds, n, Pass)
  BY <1>1, PackRoundsDef, Zenon DEF Pass
<1>3. Pass[0].packs = << >> /\ Pass[0].rest = << >>
  <2>1. Pass[0] = Unpacked
    BY <1>2, Zenon DEF Packs
  <2>2. Unpacked.packs = << >> /\ Unpacked.rest = << >>
    BY DEF Unpacked
  <2> QED BY <2>1, <2>2, Zenon
<1>4. PassPacks = Pass[n].packs
  BY Zenon DEF PassPacks, Pass
<1>5. \A r \in 0..n : Kept(PassRounds, r)
  BY PassRoundsAre, RoundsKeep, Zenon
<1>6. \A r \in 0..n : Starts(Pass[r].packs, Pass[n].packs)
  BY PassRoundsAre, PacksGrow, Zenon DEF Pass
<1>7. \A r \in 0..n : Pass[r].packs \in Seq(Seq(Samples)) /\ Fit(Pass[r].packs)
  BY <1>5, Zenon DEF Kept, Pass
<1>8. n \in 0..n
  BY <1>1
<1>9. PassPacks \in Seq(Seq(Samples))
  BY <1>4, <1>7, <1>8, Zenon
<1> QED BY <1>1, <1>2, <1>3, <1>4, <1>6, <1>7, <1>9, Zenon DEF Packs

LEMMA FreshReference ==
    ASSUME gpc' = "put", pos' = 0, sent' = 0, data' = << >>, yielded' = << >>
    PROVE  AsReference'
<1>1. /\ 0 \in 0..Len(PassRounds) /\ 0 < Len(PassRounds)
      /\ Base' = 0 * Interval
  BY PassIs, IntervalsIn DEF Base
<1>2. yielded' = Pass[0].packs /\ data' = Pass[0].rest
  BY PassIs, Zenon
<1> QED BY <1>1, <1>2 DEF AsReference

(* What a round adds is what its samples give in their order.               *)
LEMMA PackReference ==
    ASSUME IInv, AsReference, Pack
    PROVE  AsReference'
<1> DEFINE n == Len(PassRounds)
           q == N \div Interval
<1>1. PICK r \in 0..n : /\ yielded = Pass[r].packs /\ data = Pass[r].rest
                        /\ r < n /\ Base = r * Interval
  BY DEF AsReference, Pack
<1>2. /\ gpc = "fetch" /\ Cardinality(got) = sent
      /\ sent' = 0 /\ pos' = pos
      /\ gpc' = IF Over THEN "end" ELSE "put"
      /\ data' = Matched(data \o Encoded, Over).rest
      /\ yielded' = yielded \o Matched(data \o Encoded, Over).packs
  BY Zenon DEF Pack, Repack
<1>3. /\ sent \in Nat /\ pos \in Nat /\ Base \in Nat /\ N \in Nat /\ pos <= N
      /\ pos = Base + sent /\ Interval \in Nat \ {0} /\ sent <= Interval
  BY StreamAssumption, SampleAssumption DEF IInv, StreamTypeOK, RoundOK, Base
<1>4. /\ r \in Nat /\ r + 1 \in 1..n /\ (r + 1) - 1 = r /\ n = q + 1 /\ q \in Nat
      /\ r <= q /\ r + 1 \in 0..n
  BY <1>1, PassRoundsAre, IntervalsIn
<1>5. (r + 1) * Interval = Base + Interval
  <2>1. (r + 1) * Interval = r * Interval + Interval
    BY <1>4, IntervalsIn
  <2> QED BY <1>1, <2>1, Zenon
<1>6. sent = Interval \/ pos = N
  BY <1>2, Zenon DEF AsReference
<1>7. Over <=> r + 1 = n
  <2>1. CASE sent = Interval
    <3>1. r # q
      <4>1. N < q * Interval + Interval
        BY IntervalsIn
      <4>2. Base + Interval <= N
        BY <1>3, <2>1
      <4>3. r = q => r * Interval = q * Interval
        OBVIOUS
      <4>4. PICK x \in Nat : x = q * Interval
        BY <1>4, IntervalsIn
      <4> QED BY <1>1, <1>3, <4>1, <4>2, <4>3, <4>4
    <3> QED BY <1>4, <2>1, <3>1 DEF Over
  <2>2. CASE sent # Interval
    <3>1. N < Base + Interval
      BY <1>3, <1>6, <2>2
    <3>2. ~ (r < q)
      <4>1. r < q => (r + 1) * Interval <= N
        BY <1>4, IntervalsIn
      <4> QED BY <1>3, <1>5, <3>1, <4>1
    <3> QED BY <1>4, <2>2, <3>2 DEF Over
  <2> QED BY <2>1, <2>2
<1>8. Encoded = PassRounds[r + 1]
  <2>1. /\ Encoded \in Seq(Samples) /\ Rising(Encoded)
        /\ Held(Encoded) = {x \in Encodable : Base < x /\ x <= pos}
    BY <1>2, RoundEncoded, Zenon
  <2>2. /\ PassRounds[r + 1] \in Seq(Samples) /\ Rising(PassRounds[r + 1])
        /\ Held(PassRounds[r + 1]) = InRound(r + 1)
    <3>1. PassRounds \in Seq(Seq(Samples))
      BY PassRoundsAre
    <3> QED BY <1>4, <3>1, PassRoundsAre
  <2>3. InRound(r + 1) = {x \in Encodable : Base < x /\ x <= Base + Interval}
    BY <1>1, <1>4, Zenon DEF InRound
  <2>4. \A x \in Encodable : x <= pos <=> x <= Base + Interval
    <3>1. \A x \in Encodable : x \in Nat /\ x <= N
      BY <1>3 DEF Encodable, Samples
    <3> QED BY <1>3, <1>6, <3>1
  <2>5. Held(Encoded) = Held(PassRounds[r + 1])
    BY <2>1, <2>2, <2>3, <2>4
  <2> QED BY <2>1, <2>2, <2>5, RisingSame
<1>9. Over = LastRound(PassRounds, r + 1)
  BY <1>7 DEF Over, LastRound
<1>10. /\ Pass[r + 1].packs = yielded' /\ Pass[r + 1].rest = data'
  <2>1. Pass[r + 1] = OneRound(PassRounds, Pass[r], r + 1)
    BY <1>4, PassIs, Zenon
  <2>2. data \o Encoded = Pass[r].rest \o PassRounds[r + 1]
    BY <1>1, <1>8, Zenon
  <2>3. PICK m : m = Matched(data \o Encoded, Over)
    OBVIOUS
  <2>4. m = Matched(Pass[r].rest \o PassRounds[r + 1],
                    LastRound(PassRounds, r + 1))
    BY <1>9, <2>2, <2>3, Zenon DEF Matched
  <2>5. /\ OneRound(PassRounds, Pass[r], r + 1).packs = Pass[r].packs \o m.packs
        /\ OneRound(PassRounds, Pass[r], r + 1).rest = m.rest
    BY <2>4, OneRoundIs, Zenon
  <2>6. data' = m.rest /\ yielded' = yielded \o m.packs
    BY <1>2, <2>3, Zenon
  <2> QED BY <1>1, <2>1, <2>5, <2>6, Zenon
<1>11. IF gpc' = "end" THEN r + 1 = n
       ELSE r + 1 < n /\ Base' = (r + 1) * Interval
  <2>1. CASE Over
    BY <1>2, <1>7, <2>1
  <2>2. CASE ~Over
    <3>1. sent = Interval
      BY <2>2 DEF Over
    <3>2. Base' = pos
      BY <1>2, <1>3 DEF Base
    <3> QED BY <1>2, <1>3, <1>4, <1>5, <1>7, <2>2, <3>1, <3>2
  <2> QED BY <2>1, <2>2
<1>12. gpc' # "fetch"
  BY <1>2
<1> QED BY <1>4, <1>10, <1>11, <1>12, Zenon DEF AsReference

(* The other steps of a round leave it where it is.                         *)
LEMMA SameReference ==
    ASSUME IInv, AsReference, UNCHANGED <<data, yielded>>, Base' = Base,
           gpc' # gpc => gpc = "put" /\ gpc' = "fetch",
           gpc' = "fetch" => sent' = Interval \/ pos' = N
    PROVE  AsReference'
<1>1. PICK r \in 0..Len(PassRounds) :
           /\ yielded = Pass[r].packs /\ data = Pass[r].rest
           /\ IF gpc = "end" THEN r = Len(PassRounds)
              ELSE r < Len(PassRounds) /\ Base = r * Interval
  BY Zenon DEF AsReference
<1>2. yielded' = Pass[r].packs /\ data' = Pass[r].rest
  BY <1>1
<1>3. IF gpc' = "end" THEN r = Len(PassRounds)
      ELSE r < Len(PassRounds) /\ Base' = r * Interval
  BY <1>1
<1> QED BY <1>2, <1>3, Zenon DEF AsReference

LEMMA NextReference ==
    ASSUME IInv, AsReference, [StreamNext]_streamVars
    PROVE  AsReference'
<1>1. CASE \E w \in Workers : Take(w) \/ Encode(w) \/ Die(w)
  <2>1. UNCHANGED <<data, yielded, gpc, sent, pos>>
    BY <1>1 DEF Take, Encode, Die
  <2>2. gpc' = "fetch" => sent' = Interval \/ pos' = N
    BY <2>1 DEF AsReference
  <2> QED BY <2>1, <2>2, SameReference DEF Base
<1>2. CASE PutOne
  <2>1. /\ UNCHANGED <<data, yielded, gpc>> /\ gpc = "put"
        /\ sent' = sent + 1 /\ pos' = pos + 1
    BY <1>2 DEF PutOne
  <2>2. Base' = Base
    BY <2>1 DEF IInv, StreamTypeOK, Base
  <2> QED BY <2>1, <2>2, SameReference
<1>3. CASE PutOver
  <2>1. /\ UNCHANGED <<data, yielded, sent, pos>> /\ gpc = "put"
        /\ sent = Interval \/ pos = N
    BY <1>3 DEF PutOver
  <2>2. gpc' = "fetch"
    BY <1>3 DEF PutOver
  <2> QED BY <2>1, <2>2, SameReference DEF Base
<1>4. CASE FetchOne \/ DrawPack \/ UNCHANGED streamVars
  <2>1. UNCHANGED <<data, yielded, gpc, sent, pos>>
    BY <1>4 DEF FetchOne, DrawPack, streamVars
  <2>2. gpc' = "fetch" => sent' = Interval \/ pos' = N
    BY <2>1 DEF AsReference
  <2> QED BY <2>1, <2>2, SameReference DEF Base
<1>5. CASE Pack
  BY <1>5, PackReference
<1>6. CASE PassAgain
  <2>1. sent = 0
    BY <1>6 DEF PassAgain, IInv, RoundOK
  <2> QED BY <1>6, <2>1, FreshReference DEF PassAgain
<1>7. CASE StreamRestart
  BY <1>7, FreshReference DEF StreamRestart
<1> QED
  BY <1>1, <1>2, <1>3, <1>4, <1>5, <1>6, <1>7 DEF StreamNext, Encoding

LEMMA InitReference == StreamInit => AsReference
<1> SUFFICES ASSUME StreamInit PROVE AsReference
  OBVIOUS
<1>1. /\ gpc = "put" /\ pos = 0 /\ sent = 0 /\ data = << >> /\ yielded = << >>
  BY DEF StreamInit
<1>2. /\ 0 \in 0..Len(PassRounds) /\ 0 < Len(PassRounds)
      /\ Base = 0 * Interval
  BY <1>1, PassIs, IntervalsIn DEF Base
<1>3. yielded = Pass[0].packs /\ data = Pass[0].rest
  BY <1>1, PassIs, Zenon
<1> QED BY <1>1, <1>2, <1>3 DEF AsReference

-----------------------------------------------------------------------------
(* The chunks of PackingDataset and the rounds of each.                     *)

LEMMA CeilIs ==
    ASSUME NEW a \in Nat, NEW b \in Nat \ {0}
    PROVE  /\ Ceil(a, b) \in Nat
           /\ \A r \in Nat : r < Ceil(a, b) <=> r * b < a
<1> DEFINE e == a + b - 1
<1>1. e \in Nat
  OBVIOUS
<1>2. PICK c \in Nat, m \in Nat : /\ c = Ceil(a, b) /\ m < b
                                  /\ a + b - 1 = c * b + m
  <2>1. e \div b \in Nat /\ e % b \in Nat /\ e % b < b
        /\ e = (e \div b) * b + (e % b)
    <3> HIDE DEF e
    <3> QED BY <1>1, DivIs
  <2>2. Ceil(a, b) = e \div b
    BY DEF Ceil
  <2> HIDE DEF e
  <2>3. PICK m \in Nat : m = e % b
    BY <2>1
  <2> QED BY <2>1, <2>2, <2>3 DEF e
<1> HIDE DEF e
<1>3. ASSUME NEW r \in Nat
      PROVE  (r < c) <=> (r * b < a)
  <2>1. c * b \in Nat /\ r * b \in Nat
    BY TimesNext
  <2>2. CASE r + 1 <= c
    <3>1. (r + 1) * b <= c * b /\ (r + 1) * b = r * b + b
      BY <2>2, TimesMonotone, TimesNext
    <3> QED BY <1>2, <2>1, <2>2, <3>1
  <2>3. CASE c <= r
    <3>1. c * b <= r * b
      BY <2>3, TimesMonotone
    <3> QED BY <1>2, <2>1, <2>3, <3>1
  <2> QED BY <2>2, <2>3
<1> QED BY <1>2, <1>3, Zenon

LEMMA DivMonotone ==
    ASSUME NEW a \in Nat, NEW b \in Nat, NEW c \in Nat \ {0}, a <= b
    PROVE  a \div c <= b \div c
<1>1. PICK p \in Nat, m \in Nat : p = a \div c /\ m < c /\ a = p * c + m
  BY DivIs
<1>2. PICK q \in Nat, l \in Nat : q = b \div c /\ l < c /\ b = q * c + l
  BY DivIs
<1>3. ~ (q + 1 <= p)
  <2> SUFFICES ASSUME q + 1 <= p PROVE FALSE
    OBVIOUS
  <2>1. (q + 1) * c <= p * c /\ (q + 1) * c = q * c + c
    BY TimesMonotone, TimesNext
  <2>2. p * c \in Nat /\ q * c \in Nat
    BY TimesNext
  <2> QED BY <1>1, <1>2, <2>1, <2>2
<1> QED BY <1>1, <1>2, <1>3

LEMMA NumProcIs ==
    /\ NumProc \in Nat /\ N \in Nat /\ RoundSize \in Nat \ {0}
    /\ NumProc = 0 => N = 0
<1>1. /\ N \in Nat /\ Asked \in Nat \ {0} /\ RoundSize \in Nat \ {0}
  BY SampleAssumption, IndexAssumption
<1>2. PICK c \in Nat : c = Ceil(N, RoundSize) /\ (0 < c <=> 0 * RoundSize < N)
  BY <1>1, CeilIs
<1>3. NumProc = IF Asked <= c THEN Asked ELSE c
  <2>1. Min({Asked, c}) = IF Asked <= c THEN Asked ELSE c
    BY <1>1, MinIs
  <2> QED BY <1>2, <2>1, Zenon DEF NumProc
<1> QED BY <1>1, <1>2, <1>3

(* split_list: the chunks follow each other and leave nothing out.          *)
LEMMA OffsetsAre ==
    ASSUME NumProc # 0
    PROVE  /\ Offset(1) = 0 /\ Offset(NumProc + 1) = N
           /\ \A i, k \in Nat \ {0} : i <= k =>
                  /\ Offset(i) \in Nat /\ Offset(i) <= Offset(k)
           /\ \A k \in Procs : k \in Nat \ {0} /\ k <= NumProc
<1>1. NumProc \in Nat \ {0} /\ N \in Nat
  BY NumProcIs
<1>2. PICK c \in Nat \ {0} : c = NumProc
  BY <1>1
<1>3. \A k : Offset(k) = ((k - 1) * N) \div c
  BY <1>2 DEF Offset
<1>4. ASSUME NEW q \in Nat
      PROVE  (q * c + 0) \div c = q
  <2>1. 0 \in Nat /\ 0 < c
    OBVIOUS
  <2> QED BY <2>1, DivUnique
<1>5. Offset(1) = 0
  <2>1. (1 - 1) * N = 0 * c + 0
    BY <1>1
  <2> QED BY <1>3, <1>4, <2>1
<1>6. Offset(NumProc + 1) = N
  <2>1. ((c + 1) - 1) * N = N * c + 0
    BY <1>1
  <2> QED BY <1>1, <1>2, <1>3, <1>4, <2>1
<1>7. ASSUME NEW i \in Nat \ {0}, NEW k \in Nat \ {0}, i <= k
      PROVE  Offset(i) \in Nat /\ Offset(i) <= Offset(k)
  <2>1. i - 1 \in Nat /\ k - 1 \in Nat /\ i - 1 <= k - 1
    BY <1>7
  <2>2. PICK a \in Nat, b \in Nat : a = (i - 1) * N /\ b = (k - 1) * N /\ a <= b
    BY <1>1, <2>1, TimesMonotone
  <2>3. a \div c \in Nat /\ a \div c <= b \div c
    BY <2>2, DivIs, DivMonotone
  <2> QED BY <1>3, <2>2, <2>3
<1>8. \A k \in Procs : k \in Nat \ {0} /\ k <= NumProc
  BY <1>1 DEF Procs
<1> QED BY <1>5, <1>6, <1>7, <1>8, Zenon

(* The samples of a chunk, and of one of its rounds.                        *)
InChunk(k) == {x \in Samples : Offset(k) < x /\ x <= Offset(k + 1)}
RoundLen(k, d) == Min({RoundSize, ChunkLen(k) - d})
InPart(k, r) == {x \in InChunk(k) : Offset(k) + (r - 1) * RoundSize < x
                     /\ x <= Offset(k) + (r - 1) * RoundSize + RoundSize}

LEMMA ChunkIs ==
    ASSUME NEW k \in Procs
    PROVE  /\ Offset(k) \in Nat /\ ChunkLen(k) \in Nat
           /\ Offset(k + 1) = Offset(k) + ChunkLen(k) /\ Offset(k + 1) <= N
<1>1. NumProc \in Nat /\ NumProc # 0
  BY NumProcIs DEF Procs
<1>2. k \in Nat \ {0} /\ k + 1 \in Nat \ {0} /\ NumProc + 1 \in Nat \ {0}
      /\ k <= k + 1 /\ k + 1 <= NumProc + 1
  BY <1>1 DEF Procs
<1>3. /\ Offset(k) \in Nat /\ Offset(k) <= Offset(k + 1)
      /\ Offset(k + 1) \in Nat /\ Offset(k + 1) <= Offset(NumProc + 1)
  BY <1>1, <1>2, OffsetsAre
<1>4. Offset(NumProc + 1) = N
  BY <1>1, OffsetsAre
<1>5. PICK a \in Nat, b \in Nat : a = Offset(k) /\ b = Offset(k + 1) /\ a <= b
  BY <1>3
<1>6. ChunkLen(k) = b - a
  BY <1>5 DEF ChunkLen
<1> QED BY <1>3, <1>4, <1>5, <1>6

(* A round of a chunk takes what is left of the chunk, and no more than     *)
(* RoundSize.                                                               *)
LEMMA RoundLenIs ==
    ASSUME NEW k \in Procs, NEW d \in Nat, d < ChunkLen(k)
    PROVE  /\ RoundLen(k, d) \in Nat
           /\ RoundLen(k, d) = IF RoundSize <= ChunkLen(k) - d THEN RoundSize
                               ELSE ChunkLen(k) - d
           /\ Offset(k) + d \in Nat /\ (Offset(k) + d) + RoundLen(k, d) <= N
           /\ \A x \in Nat : x <= (Offset(k) + d) + RoundLen(k, d)
                  <=> (x <= Offset(k + 1) /\ x <= (Offset(k) + d) + RoundSize)
<1>1. RoundSize \in Nat \ {0} /\ N \in Nat
  BY NumProcIs
<1>2. PICK l \in Nat, o \in Nat : /\ l = ChunkLen(k) /\ o = Offset(k)
                                  /\ Offset(k + 1) = o + l /\ o + l <= N
  BY ChunkIs
<1>3. PICK m : m = RoundLen(k, d)
  OBVIOUS
<1>4. m = IF RoundSize <= l - d THEN RoundSize ELSE l - d
  <2>1. Min({RoundSize, l - d}) = IF RoundSize <= l - d THEN RoundSize ELSE l - d
    BY <1>1, MinIs
  <2> QED BY <1>2, <1>3, <2>1, Zenon DEF RoundLen
<1>5. d \in Nat /\ d < l
  BY <1>2
<1>6. m \in Nat /\ o + d \in Nat /\ (o + d) + m <= N
  BY ONLY <1>1, <1>2, <1>4, <1>5
<1>7. \A x \in Nat : x <= (o + d) + m
                         <=> (x <= o + l /\ x <= (o + d) + RoundSize)
  BY ONLY <1>1, <1>4, <1>5, o \in Nat, l \in Nat
<1> QED BY <1>2, <1>3, <1>4, <1>6, <1>7, Zenon

LEMMA ChunkRoundsAre ==
    ASSUME NEW k \in Procs
    PROVE  /\ ChunkRounds(k) \in Seq(Seq(Samples)) /\ Once(ChunkRounds(k))
           /\ Len(ChunkRounds(k)) = Ceil(ChunkLen(k), RoundSize)
           /\ \A r \in 1..Len(ChunkRounds(k)) :
                  /\ (r - 1) * RoundSize \in Nat
                  /\ (r - 1) * RoundSize < ChunkLen(k)
                  /\ ChunkRounds(k)[r] = Row(Offset(k) + (r - 1) * RoundSize,
                                             RoundLen(k, (r - 1) * RoundSize))
                  /\ Held(ChunkRounds(k)[r]) = InPart(k, r)
<1> DEFINE rounds == ChunkRounds(k)
<1>1. PICK n \in Nat : /\ n = Ceil(ChunkLen(k), RoundSize)
                       /\ \A r \in Nat : r < n <=> r * RoundSize < ChunkLen(k)
  BY ChunkIs, NumProcIs, CeilIs
<1>2. RoundSize \in Nat /\ N \in Nat /\ ChunkLen(k) \in Nat /\ Offset(k) \in Nat
  BY NumProcIs, ChunkIs
<1>3. /\ DOMAIN rounds = 1..n
      /\ \A r \in 1..n :
             rounds[r] = Row(Offset(k) + (r - 1) * RoundSize,
                             RoundLen(k, (r - 1) * RoundSize))
      /\ rounds = [r \in 1..n |-> rounds[r]]
  BY <1>1, Zenon DEF ChunkRounds, Row, RoundLen
<1> HIDE DEF rounds
<1>4. \A r \in 1..n : (r - 1) * RoundSize \in Nat /\ (r - 1) * RoundSize < ChunkLen(k)
  <2> SUFFICES ASSUME NEW r \in 1..n
               PROVE  /\ (r - 1) * RoundSize \in Nat
                      /\ (r - 1) * RoundSize < ChunkLen(k)
    OBVIOUS
  <2>1. r - 1 \in Nat /\ r - 1 < n
    OBVIOUS
  <2> QED BY <1>1, <1>2, <2>1, TimesNext
<1>5. \A r \in 1..n : /\ rounds[r] \in Seq(Samples) /\ Rising(rounds[r])
                      /\ Held(rounds[r]) = InPart(k, r)
  <2> SUFFICES ASSUME NEW r \in 1..n
               PROVE  /\ rounds[r] \in Seq(Samples) /\ Rising(rounds[r])
                      /\ Held(rounds[r]) = InPart(k, r)
    OBVIOUS
  <2>1. PICK d \in Nat : d = (r - 1) * RoundSize /\ d < ChunkLen(k)
    BY <1>4
  <2>2. PICK e \in Nat, m \in Nat :
            /\ e = Offset(k) + d /\ m = RoundLen(k, d) /\ e + m <= N
            /\ \A x \in Nat : x <= e + m
                   <=> (x <= Offset(k + 1) /\ x <= e + RoundSize)
    BY <2>1, RoundLenIs
  <2>3. PICK s \in Seq(Samples) :
            /\ s = Row(e, m) /\ Rising(s)
            /\ Held(s) = {x \in Samples : e < x /\ x <= e + m}
    BY <2>2, RowIs
  <2>4. rounds[r] = s
    BY <1>3, <2>1, <2>2, <2>3, Zenon
  <2>5. {x \in Samples : e < x /\ x <= e + m}
            = {x \in InChunk(k) : e < x /\ x <= e + RoundSize}
    <3>1. \A x \in Samples : x \in Nat
      BY <1>2 DEF Samples
    <3>2. PICK o \in Nat : o = Offset(k) /\ e = o + d
      BY <1>2, <2>1, <2>2, Zenon
    <3>3. \A x \in Nat : e < x => o < x
      BY ONLY <3>2, d \in Nat, o \in Nat
    <3>4. \A x \in Samples : x \in Nat /\ (e < x => Offset(k) < x)
      BY <3>1, <3>2, <3>3, Zenon
    <3> QED BY <2>2, <3>4, Zenon DEF InChunk
  <2>6. InPart(k, r) = {x \in InChunk(k) : e < x /\ x <= e + RoundSize}
    BY <2>1, <2>2, Zenon DEF InPart
  <2> QED BY <2>3, <2>4, <2>5, <2>6, Zenon
<1>6. rounds \in Seq(Seq(Samples)) /\ Len(rounds) = n
  <2>1. [r \in 1..n |-> rounds[r]] \in Seq(Seq(Samples))
    BY <1>1, <1>5, IsASeq
  <2>2. rounds \in Seq(Seq(Samples))
    BY <1>3, <2>1, Zenon
  <2>3. Len(rounds) \in Nat /\ DOMAIN rounds = 1..Len(rounds)
    BY <2>2
  <2> QED BY <1>1, <1>3, <2>2, <2>3
<1>7. ASSUME NEW i \in 1..n, NEW j \in 1..n, NEW x \in InPart(k, i), x \in InPart(k, j)
      PROVE  i = j
  <2>1. \A a, b \in 1..n : a < b =>
            (a - 1) * RoundSize + RoundSize <= (b - 1) * RoundSize
    <3> SUFFICES ASSUME NEW a \in 1..n, NEW b \in 1..n, a < b
                 PROVE  (a - 1) * RoundSize + RoundSize <= (b - 1) * RoundSize
      OBVIOUS
    <3>1. /\ RoundSize \in Nat /\ a \in Nat /\ b - 1 \in Nat /\ a <= b - 1
          /\ a - 1 \in Nat /\ (a - 1) + 1 = a
      BY <1>2
    <3>2. a * RoundSize <= (b - 1) * RoundSize
      BY <3>1, TimesMonotone
    <3>3. ((a - 1) + 1) * RoundSize = (a - 1) * RoundSize + RoundSize
      BY <3>1, TimesNext
    <3> QED BY <3>1, <3>2, <3>3
  <2>2. x \in Nat
    BY DEF InPart, InChunk, Samples
  <2>3. ~ (i < j)
    <3> SUFFICES ASSUME i < j PROVE FALSE
      OBVIOUS
    <3>1. /\ x <= Offset(k) + (i - 1) * RoundSize + RoundSize
          /\ Offset(k) + (j - 1) * RoundSize < x
      BY <1>7, Zenon DEF InPart
    <3>2. PICK p \in Nat, q \in Nat :
              /\ p = (i - 1) * RoundSize /\ q = (j - 1) * RoundSize
              /\ p + RoundSize <= q
      BY <1>4, <2>1
    <3>3. x <= Offset(k) + p + RoundSize /\ Offset(k) + q < x
      BY <3>1, <3>2, Zenon
    <3> QED BY <1>2, <2>2, <3>2, <3>3
  <2>4. ~ (j < i)
    <3> SUFFICES ASSUME j < i PROVE FALSE
      OBVIOUS
    <3>1. /\ x <= Offset(k) + (j - 1) * RoundSize + RoundSize
          /\ Offset(k) + (i - 1) * RoundSize < x
      BY <1>7, Zenon DEF InPart
    <3>2. PICK p \in Nat, q \in Nat :
              /\ p = (j - 1) * RoundSize /\ q = (i - 1) * RoundSize
              /\ p + RoundSize <= q
      BY <1>4, <2>1
    <3>3. x <= Offset(k) + p + RoundSize /\ Offset(k) + q < x
      BY <3>1, <3>2, Zenon
    <3> QED BY <1>2, <2>2, <3>2, <3>3
  <2> QED BY <2>3, <2>4
<1>8. Once(rounds)
  <2> SUFFICES ASSUME NEW i \in 1..n, NEW h \in 1..n, NEW j \in DOMAIN rounds[i],
                      NEW l \in DOMAIN rounds[h], rounds[i][j] = rounds[h][l]
               PROVE  i = h /\ j = l
    BY <1>3, Zenon DEF Once
  <2>1. rounds[i][j] \in InPart(k, i) /\ rounds[h][l] \in InPart(k, h)
    BY <1>5, Zenon DEF Held
  <2>2. i = h
    BY <1>7, <2>1, Zenon
  <2>3. Distinct(rounds[i])
    <3>1. rounds[i] \in Seq(Samples) /\ Rising(rounds[i])
      BY <1>5, Zenon
    <3> QED BY <3>1, RisingIsDistinct, Zenon
  <2> QED BY <2>2, <2>3, Zenon DEF Distinct
<1> QED BY <1>1, <1>3, <1>4, <1>5, <1>6, <1>8, Zenon DEF rounds

(* A chunk packed alone, after each of its rounds.                          *)
Chunk(k) == PackRounds(ChunkRounds(k))

LEMMA ChunkKeeps ==
    ASSUME NEW k \in Procs
    PROVE  /\ Len(ChunkRounds(k)) \in Nat
           /\ Chunk(k)[0].packs = << >> /\ Chunk(k)[0].rest = << >>
           /\ \A r \in 1..Len(ChunkRounds(k)) :
                  Chunk(k)[r] = OneRound(ChunkRounds(k), Chunk(k)[r - 1], r)
           /\ \A r \in 0..Len(ChunkRounds(k)) :
                  /\ Chunk(k)[r].packs \in Seq(Seq(Samples))
                  /\ Chunk(k)[r].rest \in Seq(Samples)
           /\ Chunk(k)[Len(ChunkRounds(k))].rest = << >>
           /\ ChunkPacks(k) = Chunk(k)[Len(ChunkRounds(k))].packs
           /\ ChunkPacks(k) \in Seq(Seq(Samples))
           /\ Packed(ChunkPacks(k)) = InChunk(k)
           /\ Once(ChunkPacks(k)) /\ Fit(ChunkPacks(k))
<1>1. PICK rounds \in Seq(Seq(Samples)) : rounds = ChunkRounds(k)
  BY ChunkRoundsAre
<1>2. PICK n \in Nat : n = Len(rounds)
  BY <1>1
<1>3. PICK c : c = Chunk(k)
  OBVIOUS
<1>4. c = PackRounds(rounds)
  BY <1>1, <1>3, Zenon DEF Chunk
<1>5. Once(rounds)
  BY <1>1, ChunkRoundsAre, Zenon
<1>6. Packs(rounds, n, c)
  BY <1>2, <1>4, PackRoundsDef, Zenon
<1>7. c[0].packs = << >> /\ c[0].rest = << >>
  <2>1. c[0] = Unpacked
    BY <1>6, Zenon DEF Packs
  <2>2. Unpacked.packs = << >> /\ Unpacked.rest = << >>
    BY DEF Unpacked
  <2> QED BY <2>1, <2>2, Zenon
<1>8. \A r \in 1..n : c[r] = OneRound(rounds, c[r - 1], r)
  BY <1>6, Zenon DEF Packs
<1>9. \A r \in 0..n : Kept(rounds, r)
  BY <1>2, <1>5, RoundsKeep, Zenon
<1>10. \A r \in 0..n : c[r].packs \in Seq(Seq(Samples)) /\ c[r].rest \in Seq(Samples)
  BY <1>4, <1>9, Zenon DEF Kept
<1>11. c[n].rest = << >>
  BY <1>2, <1>4, <1>5, RoundsKeep, Zenon
<1>12. ChunkPacks(k) = c[n].packs
  BY <1>1, <1>2, <1>4, Zenon DEF ChunkPacks
<1>13. /\ Packed(c[n].packs) = Arrived(rounds, n)
       /\ Once(c[n].packs) /\ Fit(c[n].packs)
  <2>1. Kept(rounds, n)
    BY <1>2, <1>9
  <2>2. /\ Packed(c[n].packs) \cup Held(c[n].rest) = Arrived(rounds, n)
        /\ Once(c[n].packs) /\ Fit(c[n].packs)
    BY <1>4, <2>1, Zenon DEF Kept
  <2>3. Held(c[n].rest) = {}
    BY <1>11 DEF Held
  <2> QED BY <2>2, <2>3
<1>14. Arrived(rounds, n) = InChunk(k)
  <2>1. /\ n = Ceil(ChunkLen(k), RoundSize)
        /\ \A r \in 1..n : Held(rounds[r]) = InPart(k, r)
    BY <1>1, <1>2, ChunkRoundsAre, Zenon
  <2>2. Arrived(rounds, n) \subseteq InChunk(k)
    BY <2>1 DEF Arrived, InPart
  <2>3. ASSUME NEW x \in InChunk(k)
        PROVE  x \in Arrived(rounds, n)
    <3>1. PICK o \in Nat, l \in Nat : /\ o = Offset(k) /\ l = ChunkLen(k)
                                      /\ Offset(k + 1) = o + l
      BY ChunkIs
    <3>2. RoundSize \in Nat \ {0} /\ x \in Nat /\ o < x /\ x <= o + l
      BY <3>1, NumProcIs DEF InChunk, Samples
    <3>3. PICK y \in Nat : y = x - o - 1
      BY <3>1, <3>2
    <3>4. PICK q \in Nat, m \in Nat : m < RoundSize /\ y = q * RoundSize + m
      BY <3>2, DivIs
    <3>5. PICK p \in Nat : p = q * RoundSize
      BY <3>2, TimesNext
    <3>6. p < l /\ o + p < x /\ x <= o + p + RoundSize
      <4>1. RoundSize \in Nat /\ x \in Nat
        BY <3>2
      <4> QED BY ONLY <3>2, <3>3, <3>4, <3>5, <4>1, p \in Nat, l \in Nat, o \in Nat,
                      y \in Nat, m \in Nat
    <3>7. q < n
      BY <2>1, <3>1, <3>2, <3>5, <3>6, CeilIs
    <3>8. q + 1 \in 1..n /\ (q + 1) - 1 = q
      BY <3>7
    <3>9. x \in InPart(k, q + 1)
      BY <3>1, <3>5, <3>6, <3>8 DEF InPart
    <3> QED BY <2>1, <3>8, <3>9, Zenon DEF Arrived
  <2> QED BY <2>2, <2>3
<1>15. c[n].packs \in Seq(Seq(Samples))
  BY <1>2, <1>10
<1> QED
  BY <1>1, <1>2, <1>3, <1>7, <1>8, <1>10, <1>11, <1>12, <1>13, <1>14, <1>15, Zenon

(* Packs of several chunks, one after the other.                            *)
Apart(ss) ==
    /\ \A i \in DOMAIN ss : Once(ss[i]) /\ Fit(ss[i])
    /\ \A i, j \in DOMAIN ss : i # j => Packed(ss[i]) \cap Packed(ss[j]) = {}
InAny(ss) == UNION {Packed(ss[i]) : i \in DOMAIN ss}

LEMMA FlattenPacks ==
    \A ss \in Seq(Seq(Seq(Samples))) :
        Apart(ss) => /\ Once(FlattenSeq(ss)) /\ Fit(FlattenSeq(ss))
                     /\ Packed(FlattenSeq(ss)) = InAny(ss)
<1> DEFINE T == Seq(Seq(Samples))
           Whole(ss) == Apart(ss) => /\ Once(FlattenSeq(ss)) /\ Fit(FlattenSeq(ss))
                                     /\ Packed(FlattenSeq(ss)) = InAny(ss)
           P == {ss \in Seq(T) : Whole(ss)}
<1>1. << >> \in P
  <2>1. /\ Once(<< >>) /\ Fit(<< >>) /\ Packed(<< >>) = {} /\ InAny(<< >>) = {}
    BY DEF Once, Fit, Packed, InAny
  <2>2. << >> \in Seq(T)
    <3> HIDE DEF T
    <3> QED OBVIOUS
  <2> QED BY <2>1, <2>2, FlattenEmpty, Zenon
<1>2. ASSUME NEW s \in Seq(T), NEW x \in T, s \in P
      PROVE  Append(s, x) \in P
  <2> SUFFICES ASSUME Apart(Append(s, x))
               PROVE  /\ Once(FlattenSeq(Append(s, x))) /\ Fit(FlattenSeq(Append(s, x)))
                      /\ Packed(FlattenSeq(Append(s, x))) = InAny(Append(s, x))
    OBVIOUS
  <2>1. PICK u \in Seq(T), n \in Nat :
            /\ u = Append(s, x) /\ n = Len(s) /\ DOMAIN s = 1..n
            /\ DOMAIN u = 1..(n + 1) /\ u[n + 1] = x
            /\ \A i \in 1..n : u[i] = s[i]
    <3> HIDE DEF T, P
    <3>1. PICK u : u = Append(s, x)
      OBVIOUS
    <3>2. /\ u \in Seq(T) /\ Len(s) \in Nat /\ DOMAIN s = 1..Len(s)
          /\ Len(u) = Len(s) + 1 /\ u[Len(s) + 1] = x
          /\ \A i \in 1..Len(s) : u[i] = s[i]
      BY ONLY s \in Seq(T), x \in T, <3>1
    <3>3. DOMAIN u = 1..(Len(s) + 1)
      BY ONLY <3>2
    <3> QED BY <3>1, <3>2, <3>3, Zenon
  <2>2. /\ n + 1 \in 1..(n + 1) /\ \A i \in 1..n : i \in 1..(n + 1) /\ i # n + 1
        /\ \A i \in 1..(n + 1) : i \in 1..n \/ i = n + 1
    OBVIOUS
  <2>3. Apart(s) /\ Once(x) /\ Fit(x) /\ \A i \in 1..n : Packed(s[i]) \cap Packed(x) = {}
    <3>1. Apart(u)
      BY <2>1, Zenon
    <3>2. \A i \in 1..(n + 1) : Once(u[i]) /\ Fit(u[i])
      BY <2>1, <3>1, Zenon DEF Apart
    <3>3. \A i \in 1..(n + 1), j \in 1..(n + 1) :
              i # j => Packed(u[i]) \cap Packed(u[j]) = {}
      BY <2>1, <3>1, Zenon DEF Apart
    <3>4. Once(x) /\ Fit(x)
      BY <2>1, <2>2, <3>2, Zenon
    <3>5. \A i \in 1..n : Packed(s[i]) \cap Packed(x) = {}
      BY <2>1, <2>2, <3>3, Zenon
    <3>6. Apart(s)
      BY <2>1, <2>2, <3>2, <3>3, Zenon DEF Apart
    <3> QED BY <3>4, <3>5, <3>6, Zenon
  <2>4. /\ FlattenSeq(s) \in Seq(Seq(Samples)) /\ FlattenSeq(u) = FlattenSeq(s) \o x
    BY <2>1, FlattenType, FlattenAppend
  <2>5. /\ Once(FlattenSeq(s)) /\ Fit(FlattenSeq(s)) /\ Packed(FlattenSeq(s)) = InAny(s)
    BY <1>2, <2>3
  <2>6. InAny(s) \cap Packed(x) = {}
    BY <2>1, <2>3 DEF InAny
  <2>7. InAny(u) = InAny(s) \cup Packed(x)
    <3>1. InAny(u) \subseteq InAny(s) \cup Packed(x)
      BY <2>1, <2>2, Zenon DEF InAny
    <3>2. InAny(s) \cup Packed(x) \subseteq InAny(u)
      BY <2>1, <2>2, Zenon DEF InAny
    <3> QED BY <3>1, <3>2
  <2>8. PICK f \in Seq(Seq(Samples)) : f = FlattenSeq(s)
    BY <2>4
  <2>9. /\ Once(f \o x) /\ Fit(f \o x) /\ Packed(f \o x) = Packed(f) \cup Packed(x)
    BY <2>3, <2>5, <2>6, <2>8, OnceConcat, FitConcat, PackedConcat
  <2> QED BY <2>1, <2>4, <2>5, <2>7, <2>8, <2>9, Zenon
<1> HIDE DEF T, P
<1>3. \A s \in Seq(T) : s \in P
  BY <1>1, <1>2, SeqInduction
<1> QED BY <1>3 DEF P, T

LEMMA AllChunksAre ==
    /\ AllChunks \in Seq(Seq(Samples)) /\ Fit(AllChunks)
    /\ Once(AllChunks) /\ Packed(AllChunks) = Samples
<1> DEFINE ss == [k \in Procs |-> ChunkPacks(k)]
<1>1. NumProc \in Nat /\ N \in Nat
  BY NumProcIs
<1>2. \A k \in Procs : ChunkPacks(k) \in Seq(Seq(Samples))
  BY ChunkKeeps, Zenon
<1>3. ss \in Seq(Seq(Seq(Samples)))
  BY <1>1, <1>2, IsASeq DEF Procs
<1>4. DOMAIN ss = Procs /\ \A k \in Procs : ss[k] = ChunkPacks(k)
  OBVIOUS
<1> HIDE DEF ss
<1>5. \A k \in Procs : Packed(ss[k]) = InChunk(k) /\ Once(ss[k]) /\ Fit(ss[k])
  BY <1>4, ChunkKeeps, Zenon
<1>6. ASSUME NEW i \in Procs, NEW j \in Procs, i < j
      PROVE  InChunk(i) \cap InChunk(j) = {}
  <2>1. NumProc # 0
    BY <1>1 DEF Procs
  <2>2. i + 1 \in Nat \ {0} /\ j \in Nat \ {0} /\ i + 1 <= j
    BY <1>1, <1>6 DEF Procs
  <2>3. Offset(i + 1) <= Offset(j) /\ Offset(i + 1) \in Nat /\ Offset(j) \in Nat
    BY <2>1, <2>2, OffsetsAre, ChunkIs
  <2> QED BY <2>3 DEF InChunk, Samples
<1>7. Apart(ss)
  <2>1. \A i, j \in Procs : i # j => InChunk(i) \cap InChunk(j) = {}
    <3>1. \A i, j \in Procs : i # j => i < j \/ j < i
      BY <1>1 DEF Procs
    <3> QED BY <1>6, <3>1
  <2> QED BY <1>4, <1>5, <2>1, Zenon DEF Apart
<1>8. InAny(ss) = Samples
  <2>1. InAny(ss) \subseteq Samples
    BY <1>4, <1>5 DEF InAny, InChunk
  <2>2. ASSUME NEW x \in Samples
        PROVE  x \in InAny(ss)
    <3>1. x \in Nat /\ 0 < x /\ x <= N /\ NumProc # 0
      BY <1>1, NumProcIs DEF Samples
    <3>2. Offset(1) = 0 /\ Offset(NumProc + 1) = N
      BY <3>1, OffsetsAre
    <3> DEFINE S == {m \in Nat : x <= Offset(m + 1)}
    <3>3. NumProc \in S
      BY <1>1, <3>1, <3>2
    <3>4. PICK m \in S : \A h \in S : m <= h
      <4>1. S \subseteq Nat /\ S # {}
        BY <3>3
      <4> HIDE DEF S
      <4> QED BY <4>1, LeastElement
    <3>5. m \in Nat /\ x <= Offset(m + 1) /\ m <= NumProc
      BY <3>3, <3>4
    <3>6. m # 0
      BY <3>1, <3>2, <3>5
    <3>7. m \in Procs /\ m - 1 \in Nat /\ (m - 1) + 1 = m
      BY <1>1, <3>5, <3>6 DEF Procs
    <3>8. ~ (x <= Offset(m))
      <4>1. x <= Offset(m) => m - 1 \in S
        BY <3>7
      <4>2. ~ (m <= m - 1)
        BY <3>5
      <4> QED BY <3>4, <4>1, <4>2, Zenon
    <3>9. Offset(m) \in Nat
      BY <3>7, ChunkIs
    <3>10. x \in InChunk(m)
      BY <3>1, <3>5, <3>8, <3>9 DEF InChunk
    <3> QED BY <1>4, <1>5, <3>7, <3>10, Zenon DEF InAny
  <2> QED BY <2>1, <2>2
<1>9. AllChunks = FlattenSeq(ss)
  BY Zenon DEF AllChunks, ss
<1>10. FlattenSeq(ss) \in Seq(Seq(Samples))
  BY <1>3, FlattenType
<1>11. /\ Once(FlattenSeq(ss)) /\ Fit(FlattenSeq(ss))
       /\ Packed(FlattenSeq(ss)) = InAny(ss)
  BY <1>3, <1>7, FlattenPacks, Zenon
<1> QED BY <1>8, <1>9, <1>10, <1>11, Zenon

-----------------------------------------------------------------------------
(* What the processes of PackingDataset have packed and sent: each is r     *)
(* rounds far in its chunk, of which the master has c.                      *)
Mail == [rank : Procs, sequences : Seq(Seq(Samples)), len : Int]

Queued(k, r, c) ==
    /\ \/ Len(outQ[k]) = r - c /\ (k \in ended => r = c)
       \/ k \in ended /\ Len(outQ[k]) = r - c + 1 /\ outQ[k][r - c + 1].len = End
    /\ \A j \in 1..(r - c) :
           /\ outQ[k][j].rank = k /\ outQ[k][j].len # End
           /\ Chunk(k)[c + j].packs
                  = Chunk(k)[c + j - 1].packs \o outQ[k][j].sequences

Reached(k, r, c) ==
    /\ c <= r /\ at[k] = r * RoundSize
    /\ left[k] = Chunk(k)[r].rest /\ parts[k] = Chunk(k)[c].packs
    /\ k \in ended => r = Len(ChunkRounds(k))
    /\ Queued(k, r, c)

ChunkOK(k) == \E r, c \in 0..Len(ChunkRounds(k)) : Reached(k, r, c)

Counted == {k \in ended : outQ[k] = << >>}

IndexOK ==
    /\ IndexTypeOK /\ outQ \in [Procs -> Seq(Mail)]
    /\ finishedWorkers = Cardinality(Counted)
    /\ \A k \in Procs : ChunkOK(k)

LEMMA ProcsFinite == IsFiniteSet(Procs) /\ Cardinality(Procs) = NumProc
BY NumProcIs, CardinalityUpTo DEF Procs

LEMMA CountedType ==
    ASSUME ended' \subseteq Procs, finishedWorkers' = Cardinality(Counted')
    PROVE  finishedWorkers' \in 0..NumProc
<1>1. PICK S : S = Counted'
  OBVIOUS
<1>2. S \subseteq Procs
  BY <1>1 DEF Counted
<1>3. IsFiniteSet(S) /\ Cardinality(S) <= NumProc
  BY <1>2, ProcsFinite, FS_Subset
<1>4. Cardinality(S) \in Nat
  BY <1>3, FS_CardinalityType
<1> QED BY <1>1, <1>3, <1>4, NumProcIs

LEMMA FreshIndex ==
    ASSUME at' = [k \in Procs |-> 0], left' = [k \in Procs |-> << >>],
           ended' = {}, outQ' = [k \in Procs |-> << >>],
           parts' = [k \in Procs |-> << >>], finishedWorkers' = 0
    PROVE  IndexOK'
<1>1. Counted' = {} /\ Cardinality({}) = 0
  BY FS_EmptySet DEF Counted
<1>2. << >> \in Seq(Samples) /\ << >> \in Seq(Seq(Samples)) /\ << >> \in Seq(Mail)
  OBVIOUS
<1>3. 0 \in 0..N + RoundSize /\ 0 \in 0..NumProc
  BY NumProcIs
<1>4. IndexTypeOK' /\ (outQ \in [Procs -> Seq(Mail)])'
  <2> HIDE DEF Mail
  <2> QED BY <1>2, <1>3 DEF IndexTypeOK
<1>5. ASSUME NEW k \in Procs
      PROVE  ChunkOK(k)'
  <2>1. 0 \in 0..Len(ChunkRounds(k)) /\ 0 * RoundSize = 0
    BY ChunkKeeps, NumProcIs
  <2>2. left'[k] = Chunk(k)[0].rest /\ parts'[k] = Chunk(k)[0].packs /\ at'[k] = 0
    BY ChunkKeeps, Zenon
  <2>3. Queued(k, 0, 0)'
    <3>1. outQ'[k] = << >> /\ k \notin ended'
      BY Zenon
    <3> QED BY <3>1 DEF Queued
  <2>4. Reached(k, 0, 0)'
    <3>1. k \notin ended' /\ 0 <= 0
      OBVIOUS
    <3> QED BY <2>1, <2>2, <2>3, <3>1, Zenon DEF Reached
  <2> QED BY <2>1, <2>4, Zenon DEF ChunkOK
<1> QED BY <1>1, <1>4, <1>5, Zenon DEF IndexOK

(* A process takes one round of its chunk, or has no sample left.           *)
LEMMA NewDataIs ==
    ASSUME NEW k \in Procs, NEW r \in 0..Len(ChunkRounds(k)),
           at[k] = r * RoundSize
    PROVE  IF r < Len(ChunkRounds(k))
           THEN /\ NewData(k) = ChunkRounds(k)[r + 1] /\ NewData(k) \in Seq(Samples)
                /\ Len(NewData(k)) \in Nat \ {0}
                /\ (at[k] + RoundSize >= ChunkLen(k))
                       <=> LastRound(ChunkRounds(k), r + 1)
           ELSE NewData(k) = << >>
<1>1. PICK n \in Nat : /\ n = Len(ChunkRounds(k)) /\ n = Ceil(ChunkLen(k), RoundSize)
                       /\ \A i \in Nat : i < n <=> i * RoundSize < ChunkLen(k)
  BY ChunkRoundsAre, ChunkIs, NumProcIs, CeilIs
<1>2. PICK l \in Nat, o \in Nat : l = ChunkLen(k) /\ o = Offset(k)
  BY ChunkIs
<1>3. RoundSize \in Nat \ {0} /\ r \in Nat /\ r <= n
  BY <1>1, NumProcIs
<1>4. PICK a \in Nat : a = at[k] /\ a = r * RoundSize /\ (r + 1) * RoundSize = a + RoundSize
  BY <1>3, TimesNext
<1>5. PICK last, m : /\ last \in Int /\ last = Min({at[k] + RoundSize, ChunkLen(k)})
                     /\ m = Max({last - at[k], 0})
                     /\ last = IF a + RoundSize <= l THEN a + RoundSize ELSE l
                     /\ m = IF last - a >= 0 THEN last - a ELSE 0
  <2>1. Min({a + RoundSize, l}) = IF a + RoundSize <= l THEN a + RoundSize ELSE l
    BY <1>3, MinIs
  <2>2. PICK last \in Int : last = Min({a + RoundSize, l})
    BY <1>3, <2>1
  <2>3. Max({last - a, 0}) = IF last - a >= 0 THEN last - a ELSE 0
    BY MaxIs
  <2> QED BY <1>2, <1>4, <2>1, <2>2, <2>3, Zenon
<1>6. NewData(k) = Row(o + a, m)
  BY <1>2, <1>4, <1>5, Zenon DEF NewData, Row
<1>7. CASE r < n
  <2>1. a < l
    BY <1>1, <1>2, <1>3, <1>4, <1>7
  <2>2. m = RoundLen(k, a) /\ m \in Nat \ {0}
    <3>1. RoundLen(k, a) = IF RoundSize <= l - a THEN RoundSize ELSE l - a
      BY <1>2, <2>1, RoundLenIs
    <3> QED BY <1>3, <1>5, <2>1, <3>1
  <2>3. r + 1 \in 1..n /\ (r + 1) - 1 = r
    BY <1>3, <1>7
  <2>4. ChunkRounds(k)[r + 1] = Row(o + a, RoundLen(k, a))
    <3>1. ChunkRounds(k)[r + 1] = Row(Offset(k) + ((r + 1) - 1) * RoundSize,
                                      RoundLen(k, ((r + 1) - 1) * RoundSize))
      BY <1>1, <2>3, ChunkRoundsAre, Zenon
    <3> QED BY <1>2, <1>4, <2>3, <3>1, Zenon
  <2>5. NewData(k) = ChunkRounds(k)[r + 1]
    BY <1>6, <2>2, <2>4, Zenon
  <2>6. NewData(k) \in Seq(Samples) /\ Len(NewData(k)) = m
    <3>1. o + a \in Nat /\ (o + a) + m <= N
      <4>1. Offset(k) + a \in Nat /\ (Offset(k) + a) + RoundLen(k, a) <= N
        BY <1>2, <2>1, RoundLenIs
      <4> QED BY <1>2, <2>2, <4>1, Zenon
    <3>2. Row(o + a, m) \in Seq(Samples) /\ Len(Row(o + a, m)) = m
      BY <2>2, <3>1, RowIs
    <3> QED BY <1>6, <3>2, Zenon
  <2>7. (at[k] + RoundSize >= ChunkLen(k)) <=> LastRound(ChunkRounds(k), r + 1)
    <3>1. (r + 1 < n) <=> (a + RoundSize < l)
      <4>1. r + 1 \in Nat
        BY <1>3
      <4>2. (r + 1 < n) <=> ((r + 1) * RoundSize < ChunkLen(k))
        BY <1>1, <4>1
      <4> QED BY <1>2, <1>4, <4>2, Zenon
    <3>2. LastRound(ChunkRounds(k), r + 1) <=> r + 1 = n
      BY <1>1, Zenon DEF LastRound
    <3>3. (at[k] + RoundSize >= ChunkLen(k)) <=> (a + RoundSize >= l)
      BY <1>2, <1>4
    <3> QED BY <1>3, <1>7, <3>1, <3>2, <3>3
  <2> QED BY <1>1, <1>7, <2>2, <2>5, <2>6, <2>7
<1>8. CASE ~ (r < n)
  <2>1. ~ (a < l)
    BY <1>1, <1>2, <1>3, <1>4, <1>8
  <2>2. m = 0
    BY <1>3, <1>5, <2>1
  <2>3. Row(o + a, 0) = << >>
    BY DEF Row
  <2> QED BY <1>1, <1>6, <1>8, <2>2, <2>3
<1> QED BY <1>7, <1>8

(* A step of one process leaves the others where they are.                  *)
LEMMA OthersSame ==
    ASSUME NEW k \in Procs,
           ChunkOK(k), at'[k] = at[k], left'[k] = left[k], parts'[k] = parts[k],
           outQ'[k] = outQ[k], k \in ended' <=> k \in ended
    PROVE  ChunkOK(k)'
<1>1. PICK r \in 0..Len(ChunkRounds(k)), c \in 0..Len(ChunkRounds(k)) : Reached(k, r, c)
  BY Zenon DEF ChunkOK
<1>2. Queued(k, r, c)'
  <2>1. Queued(k, r, c)
    BY <1>1, Zenon DEF Reached
  <2> QED BY <2>1, Zenon DEF Queued
<1>3. Reached(k, r, c)'
  BY <1>1, <1>2, Zenon DEF Reached
<1> QED BY <1>3, Zenon DEF ChunkOK

LEMMA IndexTyped ==
    ASSUME IndexOK
    PROVE  /\ at \in [Procs -> 0..N + RoundSize] /\ left \in [Procs -> Seq(Samples)]
           /\ ended \subseteq Procs /\ outQ \in [Procs -> Seq(Mail)]
           /\ parts \in [Procs -> Seq(Seq(Samples))]
           /\ finishedWorkers = Cardinality(Counted)
           /\ \A k \in Procs : ChunkOK(k)
BY Zenon DEF IndexOK, IndexTypeOK

(* Two sequences put together are empty only if both are.                   *)
LEMMA EmptyConcat ==
    ASSUME NEW T, NEW s \in Seq(T), NEW t \in Seq(T)
    PROVE  /\ s \o t \in Seq(T)
           /\ (s \o t = << >>) <=> (Len(s) = 0 /\ Len(t) = 0)
OBVIOUS

LEMMA PackRoundIndex ==
    ASSUME IndexOK, NEW k \in Procs, PackRound(k)
    PROVE  IndexOK'
<1>1. PICK r \in 0..Len(ChunkRounds(k)), c \in 0..Len(ChunkRounds(k)) : Reached(k, r, c)
  BY IndexTyped, Zenon DEF ChunkOK
<1>2. PICK n \in Nat : n = Len(ChunkRounds(k))
  BY ChunkKeeps
<1>3. /\ c <= r /\ at[k] = r * RoundSize /\ left[k] = Chunk(k)[r].rest
      /\ parts[k] = Chunk(k)[c].packs /\ Queued(k, r, c)
  BY <1>1, Zenon DEF Reached
<1>4. r < n
  <2> SUFFICES ASSUME ~ (r < n) PROVE FALSE
    OBVIOUS
  <2>1. NewData(k) = << >>
    BY <1>2, <1>3, NewDataIs, Zenon
  <2>2. left[k] = << >>
    <3>1. r = n
      BY <1>2
    <3> QED BY <1>2, <1>3, <3>1, ChunkKeeps, Zenon
  <2>3. << >> \o << >> = << >>
    OBVIOUS
  <2> QED BY <2>1, <2>2, <2>3, Zenon DEF PackRound
<1>5. /\ NewData(k) = ChunkRounds(k)[r + 1] /\ Len(NewData(k)) \in Nat \ {0}
      /\ (at[k] + RoundSize >= ChunkLen(k)) <=> LastRound(ChunkRounds(k), r + 1)
  BY <1>2, <1>3, <1>4, NewDataIs, Zenon
<1>6. PICK m : m = Matched(left[k] \o NewData(k), at[k] + RoundSize >= ChunkLen(k))
  OBVIOUS
<1>7. /\ k \notin ended
      /\ at' = [at EXCEPT ![k] = at[k] + RoundSize]
      /\ left' = [left EXCEPT ![k] = m.rest]
      /\ outQ' = [outQ EXCEPT ![k] = Append(outQ[k], Message(k, m.packs, Len(NewData(k))))]
      /\ UNCHANGED <<ended, parts, finishedWorkers>>
  BY <1>6, Zenon DEF PackRound
<1>8. r \in Nat /\ r + 1 \in 1..n /\ r + 1 \in 0..n /\ (r + 1) - 1 = r /\ c \in Nat
  BY <1>2, <1>4
<1>9. m = Matched(Chunk(k)[r].rest \o ChunkRounds(k)[r + 1],
                  LastRound(ChunkRounds(k), r + 1))
  BY <1>3, <1>5, <1>6, Zenon DEF Matched
<1>10. Chunk(k)[r + 1].packs = Chunk(k)[r].packs \o m.packs /\ Chunk(k)[r + 1].rest = m.rest
  <2>1. Chunk(k)[r + 1] = OneRound(ChunkRounds(k), Chunk(k)[(r + 1) - 1], r + 1)
    BY <1>2, <1>8, ChunkKeeps, Zenon
  <2>2. Chunk(k)[r + 1] = OneRound(ChunkRounds(k), Chunk(k)[r], r + 1)
    BY <1>8, <2>1, Zenon
  <2>3. /\ OneRound(ChunkRounds(k), Chunk(k)[r], r + 1).packs
               = Chunk(k)[r].packs \o m.packs
        /\ OneRound(ChunkRounds(k), Chunk(k)[r], r + 1).rest = m.rest
    BY <1>9, OneRoundIs, Zenon
  <2> QED BY <2>2, <2>3, Zenon
<1>11. m.packs \in Seq(Seq(Samples)) /\ m.rest \in Seq(Samples)
  <2>1. r + 1 <= Len(ChunkRounds(k))
    BY <1>2, <1>4
  <2>2. m.packs \in Seq(Seq(Samples))
    BY <1>8, <1>9, <2>1, ChunkRoundsAre, RoundPacks, Zenon DEF Chunk
  <2> QED BY <1>2, <1>8, <1>10, <2>2, ChunkKeeps, Zenon
<1>12. PICK x \in Mail : /\ x = Message(k, m.packs, Len(NewData(k)))
                         /\ x.rank = k /\ x.sequences = m.packs /\ x.len # End
  <2>1. Len(NewData(k)) \in Int /\ Len(NewData(k)) # End
    BY <1>5 DEF End
  <2>2. Message(k, m.packs, Len(NewData(k))) \in Mail
    BY <1>11, <2>1, Zenon DEF Message, Mail
  <2> QED BY <2>1, <2>2, Zenon DEF Message
<1>13. /\ at' = [at EXCEPT ![k] = at[k] + RoundSize]
       /\ left' = [left EXCEPT ![k] = m.rest]
       /\ outQ' = [outQ EXCEPT ![k] = Append(outQ[k], x)]
  BY <1>7, <1>12, Zenon
<1>14. PICK q \in Seq(Mail) : q = outQ[k] /\ Append(q, x) \in Seq(Mail)
  <2>1. outQ[k] \in Seq(Mail)
    BY IndexTyped
  <2> HIDE DEF Mail
  <2> QED BY <2>1
<1>15. at[k] + RoundSize = (r + 1) * RoundSize /\ (r + 1) * RoundSize \in 0..N + RoundSize
  <2>1. PICK a \in Nat : a = r * RoundSize /\ (r + 1) * RoundSize = a + RoundSize
    BY <1>8, NumProcIs, TimesNext
  <2>2. a < ChunkLen(k)
    BY <1>2, <1>8, <2>1, ChunkRoundsAre
  <2>3. ChunkLen(k) <= N /\ ChunkLen(k) \in Nat
    BY ChunkIs, NumProcIs
  <2> QED BY <1>3, <2>1, <2>2, <2>3, NumProcIs
<1>16. /\ IndexTypeOK' /\ outQ' \in [Procs -> Seq(Mail)]
       /\ at'[k] = (r + 1) * RoundSize /\ left'[k] = m.rest /\ outQ'[k] = Append(q, x)
       /\ \A j \in Procs : j # k => /\ at'[j] = at[j] /\ left'[j] = left[j]
                                   /\ outQ'[j] = outQ[j]
  <2>1. finishedWorkers' \in 0..NumProc
    BY <1>7 DEF IndexOK, IndexTypeOK
  <2>2. /\ at' \in [Procs -> 0..N + RoundSize] /\ left' \in [Procs -> Seq(Samples)]
        /\ outQ' \in [Procs -> Seq(Mail)]
        /\ parts' \in [Procs -> Seq(Seq(Samples))] /\ ended' \subseteq Procs
    <3>1. at \in [Procs -> 0..N + RoundSize] /\ left \in [Procs -> Seq(Samples)]
          /\ outQ \in [Procs -> Seq(Mail)]
      BY IndexTyped, Zenon
    <3>2. at' \in [Procs -> 0..N + RoundSize]
      BY <1>13, <1>15, <3>1
    <3>3. left' \in [Procs -> Seq(Samples)]
      BY <1>11, <1>13, <3>1
    <3>4. outQ' \in [Procs -> Seq(Mail)]
      <4> HIDE DEF Mail
      <4> QED BY <1>13, <1>14, <3>1
    <3> QED BY <1>7, <3>2, <3>3, <3>4, IndexTyped, Zenon
  <2> QED BY <1>13, <1>14, <1>15, <2>1, <2>2, IndexTyped, Zenon DEF IndexTypeOK
<1>17. Counted' = Counted
  <2>1. \A j \in ended : j \in Procs /\ j # k
    BY <1>7, IndexTyped
  <2>2. \A j \in ended : outQ'[j] = outQ[j]
    BY <1>16, <2>1
  <2> QED BY <1>7, <2>2 DEF Counted
<1>18. Queued(k, r + 1, c)'
  <2>1. Len(q) = r - c /\ k \notin ended
    BY <1>3, <1>7, <1>14 DEF Queued
  <2>2. /\ Len(Append(q, x)) = (r + 1) - c /\ Append(q, x)[(r + 1) - c] = x
        /\ \A j \in 1..(r - c) : Append(q, x)[j] = q[j]
    <3> HIDE DEF Mail
    <3> QED BY <1>3, <1>8, <2>1
  <2>3. \A j \in 1..((r + 1) - c) : j \in 1..(r - c) \/ j = (r + 1) - c
    BY <1>3, <1>8
  <2>4. \A j \in 1..(r - c) :
            /\ q[j].rank = k /\ q[j].len # End
            /\ Chunk(k)[c + j].packs = Chunk(k)[c + j - 1].packs \o q[j].sequences
    BY <1>3, <1>14, Zenon DEF Queued
  <2>5. ASSUME NEW j, j = (r + 1) - c
        PROVE  Chunk(k)[c + j].packs = Chunk(k)[c + j - 1].packs \o x.sequences
    <3>1. c + j = r + 1 /\ c + j - 1 = r
      BY <1>8, <2>5
    <3> QED BY <1>10, <1>12, <3>1, Zenon
  <2>6. ASSUME NEW j \in 1..((r + 1) - c)
        PROVE  /\ outQ'[k][j].rank = k /\ outQ'[k][j].len # End
               /\ Chunk(k)[c + j].packs
                      = Chunk(k)[c + j - 1].packs \o outQ'[k][j].sequences
    <3>1. CASE j \in 1..(r - c)
      <4>1. outQ'[k][j] = q[j]
        BY <1>16, <2>2, <3>1, Zenon
      <4> QED BY <2>4, <3>1, <4>1, Zenon
    <3>2. CASE j = (r + 1) - c
      <4>1. outQ'[k][j] = x
        BY <1>16, <2>2, <3>2, Zenon
      <4>2. Chunk(k)[c + j].packs = Chunk(k)[c + j - 1].packs \o x.sequences
        BY <2>5, <3>2, Zenon
      <4> QED BY <1>12, <4>1, <4>2, Zenon
    <3> QED BY <2>3, <3>1, <3>2, Zenon
  <2> QED BY <1>7, <1>16, <2>1, <2>2, <2>6, Zenon DEF Queued
<1>19. ChunkOK(k)'
  <2>1. c <= r + 1 /\ r + 1 \in 0..Len(ChunkRounds(k)) /\ c \in 0..Len(ChunkRounds(k))
    BY <1>2, <1>3, <1>8
  <2>2. Reached(k, r + 1, c)'
    BY <1>3, <1>7, <1>10, <1>16, <1>18, <2>1, Zenon DEF Reached
  <2> QED BY <2>1, <2>2, Zenon DEF ChunkOK
<1>20. ASSUME NEW j \in Procs, j # k
       PROVE  ChunkOK(j)'
  <2>1. ChunkOK(j)
    BY IndexTyped, Zenon
  <2> QED BY <1>7, <1>16, <1>20, <2>1, OthersSame, Zenon
<1> QED BY <1>7, <1>16, <1>17, <1>19, <1>20, IndexTyped, Zenon DEF IndexOK

LEMMA PackEndIndex ==
    ASSUME IndexOK, NEW k \in Procs, PackEnd(k)
    PROVE  IndexOK'
<1>1. PICK r \in 0..Len(ChunkRounds(k)), c \in 0..Len(ChunkRounds(k)) : Reached(k, r, c)
  BY IndexTyped, Zenon DEF ChunkOK
<1>2. PICK n \in Nat : n = Len(ChunkRounds(k))
  BY ChunkKeeps
<1>3. /\ c <= r /\ at[k] = r * RoundSize /\ left[k] = Chunk(k)[r].rest
      /\ parts[k] = Chunk(k)[c].packs /\ Queued(k, r, c)
  BY <1>1, Zenon DEF Reached
<1>4. /\ k \notin ended /\ left[k] \o NewData(k) = << >>
      /\ ended' = ended \cup {k}
      /\ outQ' = [outQ EXCEPT ![k] = Append(outQ[k], Message(k, << >>, End))]
      /\ UNCHANGED <<at, left, parts, finishedWorkers>>
  BY Zenon DEF PackEnd
<1>5. r = n /\ r \in Nat /\ c \in Nat
  <2>1. ~ (r < n)
    <3> SUFFICES ASSUME r < n PROVE FALSE
      OBVIOUS
    <3>1. NewData(k) \in Seq(Samples) /\ Len(NewData(k)) \in Nat \ {0}
      BY <1>2, <1>3, NewDataIs, Zenon
    <3>2. left[k] \in Seq(Samples)
      BY IndexTyped
    <3>3. Len(NewData(k)) = 0
      BY <1>4, <3>1, <3>2, EmptyConcat, Zenon
    <3> QED BY <3>1, <3>3
  <2> QED BY <1>2, <2>1
<1>6. PICK x \in Mail : x = Message(k, << >>, End) /\ x.len = End
  <2>1. << >> \in Seq(Seq(Samples)) /\ End \in Int
    BY DEF End
  <2>2. Message(k, << >>, End) \in Mail
    BY <2>1, Zenon DEF Message, Mail
  <2> QED BY <2>2, Zenon DEF Message
<1>7. outQ' = [outQ EXCEPT ![k] = Append(outQ[k], x)]
  BY <1>4, <1>6, Zenon
<1>8. PICK q \in Seq(Mail) : q = outQ[k] /\ Append(q, x) \in Seq(Mail)
  <2>1. outQ[k] \in Seq(Mail)
    BY IndexTyped
  <2> HIDE DEF Mail
  <2> QED BY <2>1
<1>9. /\ outQ' \in [Procs -> Seq(Mail)] /\ outQ'[k] = Append(q, x)
      /\ \A j \in Procs : j # k => outQ'[j] = outQ[j]
  <2>1. outQ \in [Procs -> Seq(Mail)]
    BY IndexTyped, Zenon
  <2> HIDE DEF Mail
  <2> QED BY <1>7, <1>8, <2>1
<1>10. IndexTypeOK'
  BY <1>4 DEF IndexOK, IndexTypeOK
<1>11. Append(q, x) # << >>
  OBVIOUS
<1>12. Counted' = Counted
  <2>1. \A j \in ended : outQ'[j] = outQ[j]
    BY <1>4, <1>9, IndexTyped
  <2> QED BY <1>4, <1>9, <1>11, <2>1 DEF Counted
<1>13. Queued(k, r, c)'
  <2>1. Len(q) = r - c
    BY <1>3, <1>4, <1>8 DEF Queued
  <2>2. /\ Len(Append(q, x)) = r - c + 1 /\ Append(q, x)[r - c + 1] = x
        /\ \A j \in 1..(r - c) : Append(q, x)[j] = q[j]
    <3> HIDE DEF Mail
    <3> QED BY <1>3, <1>5, <2>1
  <2>3. \A j \in 1..(r - c) :
            /\ q[j].rank = k /\ q[j].len # End
            /\ Chunk(k)[c + j].packs = Chunk(k)[c + j - 1].packs \o q[j].sequences
    BY <1>3, <1>8, Zenon DEF Queued
  <2>4. k \in ended'
    BY <1>4
  <2> QED BY <1>6, <1>9, <2>2, <2>3, <2>4, Zenon DEF Queued
<1>14. ChunkOK(k)'
  <2>1. Reached(k, r, c)'
    BY <1>2, <1>3, <1>4, <1>5, <1>13, Zenon DEF Reached
  <2> QED BY <2>1, Zenon DEF ChunkOK
<1>15. ASSUME NEW j \in Procs, j # k
       PROVE  ChunkOK(j)'
  <2>1. ChunkOK(j) /\ (j \in ended' <=> j \in ended)
    BY <1>4, <1>15, IndexTyped
  <2> QED BY <1>4, <1>9, <1>15, <2>1, OthersSame, Zenon
<1> QED BY <1>4, <1>9, <1>10, <1>12, <1>14, <1>15, IndexTyped, Zenon DEF IndexOK

(* The master takes the oldest message of a process: its packs go behind    *)
(* those it has of that process.                                            *)
LEMMA CollectIndex ==
    ASSUME IndexOK, NEW k \in Procs, CollectPacks(k)
    PROVE  IndexOK'
<1>1. PICK r \in 0..Len(ChunkRounds(k)), c \in 0..Len(ChunkRounds(k)) : Reached(k, r, c)
  BY IndexTyped, Zenon DEF ChunkOK
<1>2. PICK n \in Nat : n = Len(ChunkRounds(k))
  BY ChunkKeeps
<1>3. /\ c <= r /\ at[k] = r * RoundSize /\ left[k] = Chunk(k)[r].rest
      /\ parts[k] = Chunk(k)[c].packs /\ Queued(k, r, c) /\ (k \in ended => r = n)
  BY <1>1, <1>2, Zenon DEF Reached
<1>4. r \in Nat /\ c \in Nat /\ c <= n /\ r <= n
  BY <1>2
<1>5. PICK q \in Seq(Mail) : q = outQ[k]
  BY IndexTyped
<1>6. PICK x \in Mail, t \in Seq(Mail) :
          /\ x = Head(q) /\ t = Tail(q) /\ x = q[1] /\ Len(q) \in Nat /\ Len(q) >= 1
          /\ Len(t) = Len(q) - 1 /\ \A j \in 1..Len(t) : t[j] = q[j + 1]
  <2>1. q # << >>
    BY <1>5 DEF CollectPacks
  <2> HIDE DEF Mail
  <2>2. /\ Head(q) \in Mail /\ Tail(q) \in Seq(Mail) /\ Head(q) = q[1]
        /\ Len(q) \in Nat /\ Len(q) >= 1 /\ Len(Tail(q)) = Len(q) - 1
    BY <2>1
  <2>3. \A j \in 1..Len(Tail(q)) : Tail(q)[j] = q[j + 1]
    BY <2>1
  <2> QED BY <2>2, <2>3, Zenon
<1>7. /\ outQ' = [outQ EXCEPT ![k] = t]
      /\ UNCHANGED <<at, left, ended>>
      /\ x.len = End => finishedWorkers' = finishedWorkers + 1 /\ parts' = parts
      /\ x.len # End =>
             /\ parts' = [parts EXCEPT ![x.rank] = parts[x.rank] \o x.sequences]
             /\ finishedWorkers' = finishedWorkers
  BY <1>5, <1>6, Zenon DEF CollectPacks
<1>8. /\ outQ' \in [Procs -> Seq(Mail)] /\ outQ'[k] = t
      /\ \A j \in Procs : j # k => outQ'[j] = outQ[j]
  <2>1. outQ \in [Procs -> Seq(Mail)]
    BY IndexTyped, Zenon
  <2> HIDE DEF Mail
  <2> QED BY <1>7, <2>1
<1>9. /\ \/ Len(q) = r - c /\ (k \in ended => r = c)
         \/ k \in ended /\ Len(q) = r - c + 1 /\ q[r - c + 1].len = End
      /\ \A j \in 1..(r - c) :
             /\ q[j].rank = k /\ q[j].len # End
             /\ Chunk(k)[c + j].packs = Chunk(k)[c + j - 1].packs \o q[j].sequences
  BY <1>3, <1>5, Zenon DEF Queued
<1>10. \A j \in ended : j \in Procs
  BY IndexTyped
<1>11. CASE x.len = End
  <2>1. r = c
    <3>1. r # c => 1 \in 1..(r - c)
      BY <1>3, <1>4
    <3> QED BY <1>6, <1>9, <1>11, <3>1
  <2>2. k \in ended /\ Len(q) = 1
    BY <1>4, <1>6, <1>9, <2>1
  <2>3. t = << >> /\ q # << >>
    <3>1. Len(t) = 0 /\ Len(q) # 0
      BY <1>6, <2>2
    <3> HIDE DEF Mail
    <3> QED BY <3>1, EmptySeq
  <2>4. Counted' = Counted \cup {k} /\ k \notin Counted
    BY <1>5, <1>7, <1>8, <1>10, <2>2, <2>3 DEF Counted
  <2>5. finishedWorkers' = Cardinality(Counted')
    <3>1. Counted \subseteq Procs
      BY <1>10 DEF Counted
    <3>2. IsFiniteSet(Counted)
      BY <3>1, ProcsFinite, FS_Subset
    <3>3. Cardinality(Counted \cup {k}) = Cardinality(Counted) + 1
      BY <2>4, <3>2, FS_AddElement
    <3> QED BY <1>7, <1>11, <2>4, <3>3, IndexTyped, Zenon
  <2>6. finishedWorkers' \in 0..NumProc
    BY <1>7, <2>5, IndexTyped, CountedType
  <2>7. IndexTypeOK'
    BY <1>7, <1>11, <2>6, IndexTyped, Zenon DEF IndexTypeOK
  <2>8. Queued(k, r, c)'
    <3>1. Len(t) = r - c /\ \A j \in 1..(r - c) : FALSE
      BY <1>4, <1>6, <2>1, <2>2
    <3> QED BY <1>8, <2>1, <3>1, Zenon DEF Queued
  <2>9. ChunkOK(k)'
    <3>1. Reached(k, r, c)'
      BY <1>2, <1>3, <1>7, <1>11, <2>8, Zenon DEF Reached
    <3> QED BY <3>1, Zenon DEF ChunkOK
  <2>10. ASSUME NEW j \in Procs, j # k
         PROVE  ChunkOK(j)'
    <3>1. ChunkOK(j)
      BY IndexTyped, Zenon
    <3> QED BY <1>7, <1>8, <1>11, <2>10, <3>1, OthersSame, Zenon
  <2> QED BY <1>8, <2>5, <2>7, <2>9, <2>10, Zenon DEF IndexOK
<1>12. CASE x.len # End
  <2>1. r # c
    <3> SUFFICES ASSUME r = c PROVE FALSE
      OBVIOUS
    <3>1. Len(q) = 1 /\ q[1].len = End
      BY <1>4, <1>6, <1>9
    <3> QED BY <1>6, <1>12, <3>1
  <2>2. /\ 1 \in 1..(r - c) /\ c + 1 \in 1..n /\ c + 1 \in 0..n /\ c + 1 <= r
        /\ (c + 1) - 1 = c /\ c + 1 - 1 = c
    BY <1>3, <1>4, <2>1
  <2>3. x.rank = k /\ Chunk(k)[c + 1].packs = Chunk(k)[c].packs \o x.sequences
    BY <1>6, <1>9, <2>2, Zenon
  <2>4. /\ parts' = [parts EXCEPT ![k] = parts[k] \o x.sequences]
        /\ finishedWorkers' = finishedWorkers
    BY <1>7, <1>12, <2>3, Zenon
  <2>5. parts[k] \o x.sequences = Chunk(k)[c + 1].packs
    BY <1>3, <2>3, Zenon
  <2>6. Chunk(k)[c + 1].packs \in Seq(Seq(Samples))
    BY <1>2, <2>2, ChunkKeeps, Zenon
  <2>7. /\ parts' \in [Procs -> Seq(Seq(Samples))] /\ parts'[k] = Chunk(k)[c + 1].packs
        /\ \A j \in Procs : j # k => parts'[j] = parts[j]
    <3>1. parts \in [Procs -> Seq(Seq(Samples))]
      BY IndexTyped, Zenon
    <3>2. parts' = [parts EXCEPT ![k] = Chunk(k)[c + 1].packs]
      BY <2>4, <2>5, Zenon
    <3> QED BY <2>6, <3>1, <3>2
  <2>8. k \in ended => t # << >>
    <3> SUFFICES ASSUME k \in ended PROVE Len(t) # 0
      BY <1>6
    <3> QED BY <1>4, <1>6, <1>9, <2>1
  <2>9. Counted' = Counted
    <3>1. k \notin Counted
      BY <1>5, <1>6 DEF Counted
    <3>2. k \notin Counted'
      BY <1>7, <1>8, <2>8 DEF Counted
    <3>3. \A j \in ended : j # k => outQ'[j] = outQ[j]
      BY <1>8, <1>10
    <3> QED BY <1>7, <3>1, <3>2, <3>3 DEF Counted
  <2>10. IndexTypeOK'
    <3>1. finishedWorkers' \in 0..NumProc
      BY <2>4 DEF IndexOK, IndexTypeOK
    <3> QED BY <1>7, <2>7, <3>1, IndexTyped, Zenon DEF IndexTypeOK
  <2>11. Queued(k, r, c + 1)'
    <3>1. \/ Len(t) = r - (c + 1) /\ (k \in ended => r = c + 1)
          \/ k \in ended /\ Len(t) = r - (c + 1) + 1 /\ t[r - (c + 1) + 1].len = End
      <4>1. CASE Len(q) = r - c /\ (k \in ended => r = c)
        BY <1>4, <1>6, <2>1, <4>1
      <4>2. CASE k \in ended /\ Len(q) = r - c + 1 /\ q[r - c + 1].len = End
        <5>1. /\ Len(t) = r - (c + 1) + 1 /\ r - (c + 1) + 1 \in 1..Len(t)
              /\ (r - (c + 1) + 1) + 1 = r - c + 1
          BY <1>4, <1>6, <2>2, <4>2
        <5>2. t[r - (c + 1) + 1] = q[r - c + 1]
          BY <1>6, <5>1
        <5> QED BY <4>2, <5>1, <5>2, Zenon
      <4> QED BY <1>9, <4>1, <4>2, Zenon
    <3>2. ASSUME NEW j \in 1..(r - (c + 1))
          PROVE  /\ t[j].rank = k /\ t[j].len # End
                 /\ Chunk(k)[(c + 1) + j].packs
                        = Chunk(k)[(c + 1) + j - 1].packs \o t[j].sequences
      <4>1. /\ j + 1 \in 1..(r - c) /\ j \in 1..Len(t) /\ c + (j + 1) = (c + 1) + j
            /\ c + (j + 1) - 1 = (c + 1) + j - 1
        BY <1>4, <1>6, <1>9
      <4>2. t[j] = q[j + 1]
        BY <1>6, <4>1
      <4>3. /\ q[j + 1].rank = k /\ q[j + 1].len # End
            /\ Chunk(k)[c + (j + 1)].packs
                   = Chunk(k)[c + (j + 1) - 1].packs \o q[j + 1].sequences
        BY <1>9, <4>1, Zenon
      <4> QED BY <4>1, <4>2, <4>3, Zenon
    <3> QED BY <1>7, <1>8, <3>1, <3>2, Zenon DEF Queued
  <2>12. ChunkOK(k)'
    <3>1. Reached(k, r, c + 1)'
      BY <1>2, <1>3, <1>7, <2>2, <2>7, <2>11, Zenon DEF Reached
    <3> QED BY <1>2, <2>2, <3>1, Zenon DEF ChunkOK
  <2>13. ASSUME NEW j \in Procs, j # k
         PROVE  ChunkOK(j)'
    <3>1. ChunkOK(j)
      BY IndexTyped, Zenon
    <3> QED BY <1>7, <1>8, <2>7, <2>13, <3>1, OthersSame, Zenon
  <2> QED BY <1>8, <2>4, <2>9, <2>10, <2>12, <2>13, IndexTyped, Zenon DEF IndexOK
<1> QED BY <1>11, <1>12

LEMMA NextIndex ==
    ASSUME IndexOK, Indexing \/ IndexRestart \/ UNCHANGED indexVars
    PROVE  IndexOK'
<1>1. CASE Indexing
  <2>1. PICK k \in Procs : PackRound(k) \/ PackEnd(k) \/ CollectPacks(k)
    BY <1>1, Zenon DEF Indexing
  <2> QED BY <2>1, PackRoundIndex, PackEndIndex, CollectIndex, Zenon
<1>2. CASE IndexRestart
  BY <1>2, FreshIndex, Zenon DEF IndexRestart
<1>3. CASE UNCHANGED indexVars
  <2>1. /\ at' = at /\ left' = left /\ ended' = ended /\ outQ' = outQ
        /\ parts' = parts /\ finishedWorkers' = finishedWorkers
    BY <1>3 DEF indexVars
  <2>2. IndexTypeOK' /\ outQ' \in [Procs -> Seq(Mail)]
    BY <2>1, IndexTyped, Zenon DEF IndexOK, IndexTypeOK
  <2>3. Counted' = Counted
    BY <2>1, Zenon DEF Counted
  <2>4. \A k \in Procs : ChunkOK(k)'
    BY <2>1, IndexTyped, OthersSame, Zenon
  <2> QED BY <2>1, <2>2, <2>3, <2>4, IndexTyped, Zenon DEF IndexOK
<1> QED BY <1>1, <1>2, <1>3

LEMMA InitIndex == IndexInit => IndexOK
<1> SUFFICES ASSUME IndexInit PROVE IndexOK
  OBVIOUS
<1>1. /\ at = [k \in Procs |-> 0] /\ left = [k \in Procs |-> << >>]
      /\ ended = {} /\ outQ = [k \in Procs |-> << >>]
      /\ parts = [k \in Procs |-> << >>] /\ finishedWorkers = 0
  BY Zenon DEF IndexInit
<1>2. Counted = {} /\ Cardinality({}) = 0
  BY <1>1, FS_EmptySet DEF Counted
<1>3. << >> \in Seq(Samples) /\ << >> \in Seq(Seq(Samples)) /\ << >> \in Seq(Mail)
  OBVIOUS
<1>4. 0 \in 0..N + RoundSize /\ 0 \in 0..NumProc
  BY NumProcIs
<1>5. IndexTypeOK /\ outQ \in [Procs -> Seq(Mail)]
  <2> HIDE DEF Mail
  <2> QED BY <1>1, <1>3, <1>4 DEF IndexTypeOK
<1>6. ASSUME NEW k \in Procs
      PROVE  ChunkOK(k)
  <2>1. 0 \in 0..Len(ChunkRounds(k)) /\ 0 * RoundSize = 0 /\ 0 <= 0 /\ k \notin ended
    BY <1>1, ChunkKeeps, NumProcIs
  <2>2. left[k] = Chunk(k)[0].rest /\ parts[k] = Chunk(k)[0].packs /\ at[k] = 0
    BY <1>1, ChunkKeeps, Zenon
  <2>3. Queued(k, 0, 0)
    <3>1. outQ[k] = << >>
      BY <1>1, Zenon
    <3> QED BY <2>1, <3>1 DEF Queued
  <2>4. Reached(k, 0, 0)
    BY <2>1, <2>2, <2>3, Zenon DEF Reached
  <2> QED BY <2>1, <2>4, Zenon DEF ChunkOK
<1> QED BY <1>1, <1>2, <1>5, <1>6, Zenon DEF IndexOK

(* Once the master has counted every process, it has all their packs.       *)
LEMMA IndexIsReady ==
    ASSUME IndexOK, IndexReady
    PROVE  PackedIdx = AllChunks
<1>1. Counted = Procs
  <2>1. Counted \subseteq Procs
    BY IndexTyped DEF Counted
  <2>2. Cardinality(Counted) = Cardinality(Procs)
    BY ProcsFinite, IndexTyped, Zenon DEF IndexReady
  <2> QED BY <2>1, <2>2, ProcsFinite, FS_Subset, Zenon
<1>2. ASSUME NEW k \in Procs
      PROVE  parts[k] = ChunkPacks(k)
  <2>1. k \in ended /\ outQ[k] = << >>
    BY <1>1 DEF Counted
  <2>2. PICK r \in 0..Len(ChunkRounds(k)), c \in 0..Len(ChunkRounds(k)) : Reached(k, r, c)
    BY IndexTyped, Zenon DEF ChunkOK
  <2>3. PICK n \in Nat : n = Len(ChunkRounds(k))
    BY ChunkKeeps
  <2>4. /\ c <= r /\ r = n /\ parts[k] = Chunk(k)[c].packs /\ Queued(k, r, c)
    BY <2>1, <2>2, <2>3, Zenon DEF Reached
  <2>5. Len(outQ[k]) = r - c \/ Len(outQ[k]) = r - c + 1
    BY <2>4, Zenon DEF Queued
  <2>6. Len(outQ[k]) = 0
    BY <2>1
  <2>7. c = n
    BY <2>3, <2>4, <2>5, <2>6
  <2> QED BY <2>3, <2>4, <2>7, ChunkKeeps, Zenon
<1>3. parts \in [Procs -> Seq(Seq(Samples))]
  BY IndexTyped, Zenon
<1>4. parts = [k \in Procs |-> ChunkPacks(k)]
  BY <1>2, <1>3, Zenon
<1> QED BY <1>4, Zenon DEF PackedIdx, AllChunks

-----------------------------------------------------------------------------
(* The training job: how far it is in the packs of a pass, or of the index, *)
(* and which packs each step was made with.                                 *)
IsSeq(s) == \E T : s \in Seq(T)

LEMMA Widened ==
    ASSUME NEW S, NEW T, S \subseteq T, NEW s \in Seq(S)
    PROVE  s \in Seq(T)
<1>1. Len(s) \in Nat /\ s = [i \in 1..Len(s) |-> s[i]] /\ \A i \in 1..Len(s) : s[i] \in T
  OBVIOUS
<1>2. [i \in 1..Len(s) |-> s[i]] \in Seq(T)
  BY <1>1, IsASeq
<1> QED BY <1>1, <1>2, Zenon

LEMMA Appended ==
    ASSUME NEW s, IsSeq(s), NEW x
    PROVE  /\ IsSeq(Append(s, x)) /\ Len(s) \in Nat
           /\ Len(Append(s, x)) = Len(s) + 1
           /\ DOMAIN Append(s, x) = 1..Len(s) + 1 /\ DOMAIN s = 1..Len(s)
           /\ Append(s, x)[Len(s) + 1] = x
           /\ \A i \in 1..Len(s) : Append(s, x)[i] = s[i]
<1>1. PICK S : s \in Seq(S)
  BY DEF IsSeq
<1>2. PICK T : T = S \cup {x}
  OBVIOUS
<1>3. s \in Seq(T) /\ x \in T
  <2>1. S \subseteq T /\ x \in T
    BY <1>2
  <2> QED BY <1>1, <2>1, Widened
<1>4. PICK u \in Seq(T) : u = Append(s, x)
  <2>1. Append(s, x) \in Seq(T)
    BY ONLY <1>3
  <2> QED BY <2>1, Zenon
<1>5. /\ Len(s) \in Nat /\ DOMAIN s = 1..Len(s)
      /\ Len(u) = Len(s) + 1 /\ DOMAIN u = 1..Len(u)
      /\ u[Len(s) + 1] = x /\ \A i \in 1..Len(s) : u[i] = s[i]
  BY <1>3, <1>4
<1> QED BY <1>4, <1>5, Zenon DEF IsSeq

LEMMA CutOff ==
    ASSUME NEW s, IsSeq(s), NEW n \in 0..Len(s)
    PROVE  /\ IsSeq(SubSeq(s, 1, n)) /\ Len(SubSeq(s, 1, n)) = n
           /\ DOMAIN SubSeq(s, 1, n) = 1..n /\ DOMAIN s = 1..Len(s)
           /\ \A i \in 1..n : i \in DOMAIN s /\ SubSeq(s, 1, n)[i] = s[i]
<1>1. PICK T : s \in Seq(T)
  BY DEF IsSeq
<1>2. Len(s) \in Nat /\ DOMAIN s = 1..Len(s) /\ n \in Nat
  BY <1>1
<1>3. \A i \in 1..n : i \in 1..Len(s) /\ s[i] \in T
  BY <1>1, <1>2
<1>4. PICK u : u = SubSeq(s, 1, n)
  OBVIOUS
<1>5. /\ u \in Seq(T) /\ Len(u) = IF 1 <= n THEN n - 1 + 1 ELSE 0
      /\ \A i \in 1..n - 1 + 1 : u[i] = s[1 + i - 1]
  <2>1. 1 \in Int /\ n \in Int /\ \A i \in 1..n : s[i] \in T
    BY <1>2, <1>3
  <2> QED BY <1>1, <1>4, <2>1, SubSeqProperties
<1>6. Len(u) = n /\ DOMAIN u = 1..n /\ \A i \in 1..n : u[i] = s[i]
  <2>1. Len(u) = n
    BY <1>2, <1>5
  <2>2. DOMAIN u = 1..n
    BY <1>5, <2>1, LenProperties
  <2>3. \A i \in 1..n : i \in 1..n - 1 + 1 /\ 1 + i - 1 = i
    BY <1>2
  <2> QED BY <1>5, <2>1, <2>2, <2>3, Zenon
<1> QED BY <1>2, <1>3, <1>4, <1>5, <1>6, Zenon DEF IsSeq

JobTypes ==
    /\ streaming \in BOOLEAN /\ stepped \in BOOLEAN
    /\ tpc \in {"start", "open", "train", "done", "failed"}
    /\ epoch \in 0..Epochs /\ seed \in 0..Epochs
    /\ skip \in Nat /\ nth \in Nat /\ kills \in Nat
    /\ IsSeq(trained) /\ saved \in 0..Len(trained)

(* Before the trainer knows where to go on, it has what was saved.          *)
Control ==
    /\ tpc = "start" => /\ epoch = 0 /\ skip = 0 /\ Len(trained) = saved
                        /\ kills = 0 => saved = 0
    /\ tpc \in {"open", "train"} => epoch < Epochs

(* What rank 0 has drawn, and what it has not, are the last packs yielded.  *)
Taken ==
    /\ drawn \in Seq(Seq(Samples)) /\ Len(drawn) <= WorldSize
    /\ Len(drawn) + Len(ready) <= Len(yielded)
    /\ \A j \in 1..Len(ready) :
           ready[j] = yielded[Len(yielded) - Len(ready) + j]
    /\ \A j \in 1..Len(drawn) :
           drawn[j] = yielded[Len(yielded) - Len(ready) - Len(drawn) + j]

Fresh == yielded = << >> /\ ready = << >> /\ drawn = << >>

(* g groups of this pass were trained or skipped.  A loader that has made   *)
(* no step yet has the steps of the checkpoint, or is at its first pack.    *)
Grouped(g) ==
    /\ Len(yielded) = g * WorldSize + Len(drawn) + Len(ready)
    /\ Len(trained) = epoch * PassSteps + g + skip
    /\ epoch > 0 => skip = 0
    /\ skip > 0 => Len(trained) = saved /\ kills > 0
    /\ (tpc = "open" \/ ~stepped) =>
           IF epoch = 0 THEN Len(trained) = saved /\ (kills = 0 => saved = 0)
           ELSE g = 0

Group(g) == [r \in Ranks |-> PassPacks[g * WorldSize + r]]
GroupTrained(n) == trained[n].packs = Group((n - 1) % PassSteps)

StreamPlace ==
    /\ tpc \in {"start", "open"} => Fresh
    /\ tpc \in {"open", "train"} => \E g \in Nat : Grouped(g)
    /\ tpc = "failed" => kills > 0 /\ saved >= PassSteps
    /\ tpc = "done" => \/ Len(trained) >= Epochs * PassSteps
                       \/ kills > 0 /\ saved >= PassSteps
    /\ \A n \in DOMAIN trained : GroupTrained(n)

(* The steps of an epoch over the index, and the packs of each.             *)
EpochSteps == Len(AllChunks) \div WorldSize
Batch(e, i) ==
    [r \in Ranks |-> AllChunks[Shuffle(e, EpochSteps * WorldSize)[i * WorldSize + r]]]
BatchTrained(n) ==
    trained[n].seed = trained[n].epoch =>
        trained[n].packs = Batch((n - 1) \div EpochSteps, (n - 1) % EpochSteps)

IndexPlace ==
    /\ Fresh /\ tpc # "failed" /\ (tpc # "start" => IndexReady)
    /\ Len(trained) <= Epochs * EpochSteps
    /\ tpc = "open" => /\ Len(trained) = epoch * EpochSteps + skip
                       /\ skip < EpochSteps \/ EpochSteps = 0
    /\ tpc = "train" => /\ Len(trained) = epoch * EpochSteps + nth
                        /\ skip = 0 /\ nth <= EpochSteps
                        /\ stepped \/ nth < EpochSteps \/ EpochSteps = 0
    /\ tpc = "done" => Len(trained) = Epochs * EpochSteps
    /\ \A n \in DOMAIN trained : BatchTrained(n)

JobOK ==
    /\ JobTypes /\ Control /\ Taken
    /\ IF streaming THEN StreamPlace ELSE IndexPlace

LEMMA JobConstants ==
    /\ WorldSize \in Nat \ {0} /\ Epochs \in Nat \ {0}
    /\ PassSteps \in Nat /\ EpochSteps \in Nat
    /\ Len(PassPacks) \in Nat /\ Len(AllChunks) \in Nat
<1>1. WorldSize \in Nat \ {0} /\ Epochs \in Nat \ {0}
  BY TrainAssumption
<1>2. Len(PassPacks) \in Nat /\ Len(AllChunks) \in Nat
  <2>1. PassPacks \in Seq(Seq(Samples)) /\ AllChunks \in Seq(Seq(Samples))
    BY PassIs, AllChunksAre
  <2> QED BY <2>1
<1>3. PassSteps \in Nat /\ EpochSteps \in Nat
  BY <1>1, <1>2, DivIs DEF PassSteps, EpochSteps
<1> QED BY <1>1, <1>2, <1>3

(* What the generator yields begins the packs of the pass.                  *)
LEMMA YieldedOfPass ==
    ASSUME IInv, AsReference
    PROVE  /\ yielded \in Seq(Seq(Samples)) /\ ready \in Seq(Seq(Samples))
           /\ Starts(yielded, PassPacks) /\ Fit(yielded)
           /\ gpc = "end" => yielded = PassPacks
<1>1. yielded \in Seq(Seq(Samples)) /\ ready \in Seq(Seq(Samples))
  BY DEF IInv, StreamTypeOK
<1>2. PICK r \in 0..Len(PassRounds) :
           /\ yielded = Pass[r].packs
           /\ gpc = "end" => r = Len(PassRounds)
  BY Zenon DEF AsReference
<1>3. Starts(yielded, PassPacks) /\ Fit(yielded)
  BY <1>2, PassIs, Zenon
<1>4. gpc = "end" => yielded = PassPacks
  BY <1>2, PassIs, Zenon
<1> QED BY <1>1, <1>3, <1>4

(* The steps of the job, one after the other.                               *)
Fine == IInv /\ AsReference /\ IndexOK /\ JobOK

LEMMA FineTyped ==
    ASSUME Fine
    PROVE  /\ JobTypes /\ Control /\ Taken
           /\ streaming => StreamPlace
           /\ ~streaming => IndexPlace
           /\ yielded \in Seq(Seq(Samples)) /\ ready \in Seq(Seq(Samples))
           /\ drawn \in Seq(Seq(Samples))
           /\ Len(yielded) \in Nat /\ Len(ready) \in Nat /\ Len(drawn) \in Nat
           /\ Len(trained) \in Nat /\ saved \in Nat /\ saved <= Len(trained)
           /\ skip \in Nat /\ nth \in Nat /\ kills \in Nat /\ epoch \in Nat
           /\ epoch <= Epochs
<1>1. JobTypes /\ Control /\ Taken /\ (streaming => StreamPlace)
      /\ (~streaming => IndexPlace)
  BY Zenon DEF Fine, JobOK
<1>2. yielded \in Seq(Seq(Samples)) /\ ready \in Seq(Seq(Samples))
  BY YieldedOfPass, Zenon DEF Fine
<1>3. drawn \in Seq(Seq(Samples))
  BY <1>1, Zenon DEF Taken
<1>4. Len(yielded) \in Nat /\ Len(ready) \in Nat /\ Len(drawn) \in Nat
  BY <1>2, <1>3
<1>5. IsSeq(trained) /\ saved \in 0..Len(trained) /\ epoch \in 0..Epochs
      /\ skip \in Nat /\ nth \in Nat /\ kills \in Nat
  BY <1>1, Zenon DEF JobTypes
<1>6. Len(trained) \in Nat
  BY <1>5, Appended, Zenon
<1>7. saved \in Nat /\ saved <= Len(trained) /\ epoch \in Nat /\ epoch <= Epochs
  BY <1>5, <1>6, JobConstants
<1> QED BY <1>1, <1>2, <1>3, <1>4, <1>5, <1>6, <1>7, Zenon

LEMMA EncodingGrows ==
    ASSUME IInv, Encoding
    PROVE  \E q \in Seq(Seq(Samples)) : yielded' = yielded \o q /\ ready' = ready \o q
<1>1. CASE UNCHANGED <<yielded, ready>>
  <2>1. yielded \o << >> = yielded /\ ready \o << >> = ready
    BY DEF IInv, StreamTypeOK
  <2>2. << >> \in Seq(Seq(Samples)) /\ yielded' = yielded /\ ready' = ready
    BY <1>1
  <2> QED BY <2>1, <2>2, Zenon
<1>2. CASE Pack
  <2>1. /\ Cardinality(got) = sent
        /\ yielded' = yielded \o Matched(data \o Encoded, Over).packs
        /\ ready' = ready \o Matched(data \o Encoded, Over).packs
    BY <1>2, Zenon DEF Pack, Repack
  <2>2. data \o Encoded \in Seq(Samples) /\ Distinct(data \o Encoded)
    BY <2>1, RoundEncoded, Zenon
  <2>3. Over \in BOOLEAN
    BY DEF Over
  <2>4. Matched(data \o Encoded, Over).packs \in Seq(Seq(Samples))
    BY <2>2, <2>3, MatchedKeepsAll
  <2> QED BY <2>1, <2>4, Zenon
<1>3. CASE (\E w \in Workers : Take(w) \/ Encode(w) \/ Die(w)) \/ PutOne \/ PutOver
           \/ FetchOne
  BY <1>1, <1>3 DEF Take, Encode, Die, PutOne, PutOver, FetchOne
<1> QED BY <1>2, <1>3 DEF Encoding

(* Packs yielded go behind those that wait for rank 0.                      *)
LEMMA TakenGrows ==
    ASSUME Fine, NEW q \in Seq(Seq(Samples)),
           yielded' = yielded \o q, ready' = ready \o q, drawn' = drawn
    PROVE  /\ Taken' /\ Len(q) \in Nat
           /\ Len(yielded') = Len(yielded) + Len(q) /\ Len(ready') = Len(ready) + Len(q)
<1>1. PICK T : T = Seq(Samples)
  OBVIOUS
<1>2. PICK y \in Seq(T), s \in Seq(T), d \in Seq(T), v \in Seq(T), t \in Seq(T) :
          y = yielded /\ s = ready /\ d = drawn /\ v = yielded' /\ t = ready'
          /\ v = y \o q /\ t = s \o q
  <2>1. /\ yielded \in Seq(T) /\ ready \in Seq(T) /\ drawn \in Seq(T) /\ q \in Seq(T)
    BY <1>1, FineTyped, Zenon
  <2>2. yielded \o q \in Seq(T) /\ ready \o q \in Seq(T)
    BY <2>1
  <2> QED BY <2>1, <2>2, Zenon
<1>3. /\ Len(y) \in Nat /\ Len(s) \in Nat /\ Len(d) \in Nat /\ Len(q) \in Nat
      /\ Len(v) = Len(y) + Len(q) /\ Len(t) = Len(s) + Len(q)
      /\ \A x \in 1..Len(y) : v[x] = y[x]
      /\ \A j \in 1..Len(q) : v[Len(y) + j] = q[j]
      /\ \A x \in 1..Len(s) : t[x] = s[x]
      /\ \A j \in 1..Len(q) : t[Len(s) + j] = q[j]
  <2>1. q \in Seq(T)
    BY <1>1
  <2>2. Len(y) \in Nat /\ Len(s) \in Nat /\ Len(d) \in Nat /\ Len(q) \in Nat
    BY <2>1
  <2>0. \A u \in Seq(T), w \in Seq(T) :
            /\ Len(u \o w) = Len(u) + Len(w)
            /\ \A x \in 1..Len(u) : (u \o w)[x] = u[x]
            /\ \A j \in 1..Len(w) : (u \o w)[Len(u) + j] = w[j]
    <3> SUFFICES ASSUME NEW u \in Seq(T), NEW w \in Seq(T)
                 PROVE  /\ Len(u \o w) = Len(u) + Len(w)
                        /\ \A x \in 1..Len(u) : (u \o w)[x] = u[x]
                        /\ \A j \in 1..Len(w) : (u \o w)[Len(u) + j] = w[j]
      OBVIOUS
    <3> QED BY ONLY ConcatPlaces, u \in Seq(T), w \in Seq(T)
  <2>3. /\ Len(y \o q) = Len(y) + Len(q)
        /\ \A x \in 1..Len(y) : (y \o q)[x] = y[x]
        /\ \A j \in 1..Len(q) : (y \o q)[Len(y) + j] = q[j]
    BY <2>0, <2>1, Zenon
  <2>4. /\ Len(s \o q) = Len(s) + Len(q)
        /\ \A x \in 1..Len(s) : (s \o q)[x] = s[x]
        /\ \A j \in 1..Len(q) : (s \o q)[Len(s) + j] = q[j]
    BY <2>0, <2>1, Zenon
  <2> QED BY <1>2, <2>2, <2>3, <2>4, Zenon
<1>4. /\ Len(d) <= WorldSize /\ Len(d) + Len(s) <= Len(y)
      /\ \A j \in 1..Len(s) : s[j] = y[Len(y) - Len(s) + j]
      /\ \A j \in 1..Len(d) : d[j] = y[Len(y) - Len(s) - Len(d) + j]
  BY <1>2, FineTyped, Zenon DEF Taken
<1>5. ASSUME NEW j \in 1..Len(t)
      PROVE  t[j] = v[Len(v) - Len(t) + j]
  <2>1. Len(v) - Len(t) = Len(y) - Len(s)
    BY <1>3
  <2>2. CASE j \in 1..Len(s)
    <3>1. Len(y) - Len(s) + j \in 1..Len(y)
      BY <1>3, <1>4, <2>2
    <3> QED BY <1>3, <1>4, <2>1, <2>2, <3>1, Zenon
  <2>3. CASE j \notin 1..Len(s)
    <3>1. PICK i \in 1..Len(q) : j = Len(s) + i
      <4>1. j - Len(s) \in 1..Len(q) /\ j = Len(s) + (j - Len(s))
        BY <1>3, <2>3
      <4> QED BY <4>1
    <3>2. Len(y) - Len(s) + j = Len(y) + i
      BY <1>3, <3>1
    <3> QED BY <1>3, <2>1, <3>1, <3>2, Zenon
  <2> QED BY <2>2, <2>3
<1>6. ASSUME NEW j \in 1..Len(d)
      PROVE  d[j] = v[Len(v) - Len(t) - Len(d) + j]
  <2>1. /\ Len(v) - Len(t) - Len(d) + j = Len(y) - Len(s) - Len(d) + j
        /\ Len(y) - Len(s) - Len(d) + j \in 1..Len(y)
    BY <1>3, <1>4
  <2> QED BY <1>3, <1>4, <2>1, Zenon
<1>7. Len(d) + Len(t) <= Len(v)
  BY <1>3, <1>4
<1>8. drawn' \in Seq(Seq(Samples))
  BY FineTyped, Zenon
<1>9. d = drawn' /\ v = yielded' /\ t = ready'
  BY <1>2, Zenon
<1>10. Len(drawn') <= WorldSize /\ Len(drawn') + Len(ready') <= Len(yielded')
  BY <1>4, <1>7, <1>9, Zenon
<1>11. \A j \in 1..Len(ready') : ready'[j] = yielded'[Len(yielded') - Len(ready') + j]
  BY <1>5, <1>9, Zenon
<1>12. \A j \in 1..Len(drawn') :
           drawn'[j] = yielded'[Len(yielded') - Len(ready') - Len(drawn') + j]
  BY <1>6, <1>9, Zenon
<1>13. Taken'
  BY <1>8, <1>10, <1>11, <1>12, Zenon DEF Taken
<1> QED BY <1>2, <1>3, <1>13, Zenon

LEMMA PrepareJob == ASSUME Fine, Prepare PROVE JobOK'
<1>1. UNCHANGED trainVars
  BY Zenon DEF Prepare
<1>2. /\ streaming' = streaming /\ tpc' = tpc /\ epoch' = epoch /\ skip' = skip
      /\ seed' = seed /\ nth' = nth /\ stepped' = stepped /\ drawn' = drawn
      /\ trained' = trained /\ saved' = saved /\ kills' = kills
  BY <1>1 DEF trainVars
<1>3. JobTypes' /\ Control'
  BY <1>2, FineTyped, Zenon DEF JobTypes, Control
<1>4. CASE streaming /\ tpc = "train" /\ Encoding
  <2>1. PICK q \in Seq(Seq(Samples)) : yielded' = yielded \o q /\ ready' = ready \o q
    BY <1>4, EncodingGrows, Zenon DEF Fine
  <2>2. /\ Taken' /\ Len(q) \in Nat
        /\ Len(yielded') = Len(yielded) + Len(q) /\ Len(ready') = Len(ready) + Len(q)
    BY <1>2, <2>1, TakenGrows, Zenon
  <2>3. PICK g \in Nat : Grouped(g)
    BY <1>4, FineTyped DEF StreamPlace
  <2>4. Len(yielded') = g * WorldSize + Len(drawn') + Len(ready')
    <3>1. PICK w \in Nat : w = g * WorldSize
      BY <2>3, JobConstants
    <3>2. Len(yielded) = w + Len(drawn) + Len(ready)
      BY <2>3, <3>1, Zenon DEF Grouped
    <3>3. Len(yielded) \in Nat /\ Len(drawn) \in Nat /\ Len(ready) \in Nat
      BY FineTyped, Zenon
    <3>4. w + Len(drawn) + Len(ready) + Len(q) = w + Len(drawn) + (Len(ready) + Len(q))
      BY ONLY <2>2, <3>3, w \in Nat
    <3>5. Len(yielded') = w + Len(drawn) + Len(ready')
      BY <2>2, <3>2, <3>4, Zenon
    <3> QED BY <1>2, <3>1, <3>5, Zenon
  <2>5. Grouped(g)'
    BY <1>2, <2>3, <2>4, Zenon DEF Grouped
  <2>6. \A n \in DOMAIN trained' : GroupTrained(n)'
    BY <1>2, <1>4, FineTyped, Zenon DEF StreamPlace, GroupTrained
  <2>7. StreamPlace'
    BY <1>2, <1>4, <2>5, <2>6 DEF StreamPlace
  <2> QED BY <1>2, <1>3, <1>4, <2>2, <2>7, Zenon DEF JobOK
<1>5. CASE ~streaming /\ tpc = "start" /\ UNCHANGED streamVars
  <2>1. yielded' = yielded /\ ready' = ready
    BY <1>5 DEF streamVars
  <2>2. Taken' /\ Fresh'
    BY <1>2, <1>5, <2>1, FineTyped, Zenon DEF Taken, Fresh, IndexPlace
  <2>3. \A n \in DOMAIN trained' : BatchTrained(n)'
    BY <1>2, <1>5, FineTyped, Zenon DEF IndexPlace, BatchTrained
  <2>4. Len(trained') <= Epochs * EpochSteps
    BY <1>2, <1>5, FineTyped, Zenon DEF IndexPlace
  <2>5. IndexPlace'
    BY <1>2, <1>5, <2>2, <2>3, <2>4 DEF IndexPlace
  <2> QED BY <1>2, <1>3, <1>5, <2>2, <2>5, Zenon DEF JobOK
<1> QED BY <1>4, <1>5, Zenon DEF Prepare

(* Steps that move no pack, and make no step of the training.               *)
LEMMA Standing ==
    ASSUME Fine, UNCHANGED streamVars, drawn' = drawn, trained' = trained,
           streaming' = streaming
    PROVE  /\ Taken' /\ yielded' = yielded /\ ready' = ready
           /\ Fresh => Fresh'
           /\ streaming => \A n \in DOMAIN trained' : GroupTrained(n)'
           /\ ~streaming => \A n \in DOMAIN trained' : BatchTrained(n)'
<1>1. yielded' = yielded /\ ready' = ready
  BY DEF streamVars
<1>2. Taken' /\ (Fresh => Fresh')
  BY <1>1, FineTyped, Zenon DEF Taken, Fresh
<1>3. streaming => \A n \in DOMAIN trained' : GroupTrained(n)'
  BY FineTyped, Zenon DEF StreamPlace, GroupTrained
<1>4. ~streaming => \A n \in DOMAIN trained' : BatchTrained(n)'
  BY FineTyped, Zenon DEF IndexPlace, BatchTrained
<1> QED BY <1>1, <1>2, <1>3, <1>4, Zenon

LEMMA SameIndex ==
    ASSUME UNCHANGED indexVars
    PROVE  IndexReady' <=> IndexReady
BY DEF indexVars, IndexReady

LEMMA BatchesIs ==
    ASSUME Fine, IndexReady
    PROVE  Batches = EpochSteps /\ PackedIdx = AllChunks
<1>1. PackedIdx = AllChunks
  BY IndexIsReady, Zenon DEF Fine
<1> QED BY <1>1, Zenon DEF Batches, EpochSteps

LEMMA ResumeJob == ASSUME Fine, Resume PROVE JobOK'
<1>1. /\ tpc = "start" /\ UNCHANGED streamVars /\ UNCHANGED indexVars
      /\ streaming' = streaming /\ seed' = seed /\ nth' = nth /\ stepped' = stepped
      /\ drawn' = drawn /\ trained' = trained /\ saved' = saved /\ kills' = kills
      /\ tpc' = IF ~streaming /\ epoch' = Epochs THEN "done" ELSE "open"
  BY DEF Resume
<1>2. /\ epoch = 0 /\ skip = 0 /\ Len(trained) = saved
      /\ kills = 0 => saved = 0
  BY <1>1, FineTyped, Zenon DEF Control
<1>3. /\ Taken' /\ yielded' = yielded /\ ready' = ready
      /\ Fresh => Fresh'
      /\ streaming => \A n \in DOMAIN trained' : GroupTrained(n)'
      /\ ~streaming => \A n \in DOMAIN trained' : BatchTrained(n)'
  BY <1>1, Standing, Zenon
<1>4. CASE streaming
  <2>1. epoch' = 0 /\ skip' = saved /\ tpc' = "open"
    BY <1>1, <1>4, Zenon DEF Resume
  <2>2. JobTypes'
    <3>1. epoch' \in 0..Epochs /\ skip' \in Nat
      BY <2>1, FineTyped, JobConstants
    <3> QED BY <1>1, <2>1, <3>1, FineTyped, Zenon DEF JobTypes
  <2>3. Control'
    BY <2>1, JobConstants DEF Control
  <2>4. Fresh
    BY <1>1, <1>4, FineTyped, Zenon DEF StreamPlace
  <2>5. Grouped(0)'
    <3>1. Len(yielded') = 0 /\ Len(drawn') = 0 /\ Len(ready') = 0
      BY <1>1, <1>3, <2>4 DEF Fresh
    <3>2. 0 * WorldSize = 0 /\ 0 * PassSteps = 0
      BY JobConstants
    <3>3. saved > 0 => kills > 0
      BY <1>2, FineTyped
    <3> QED BY <1>1, <1>2, <2>1, <3>1, <3>2, <3>3, FineTyped DEF Grouped
  <2>6. StreamPlace'
    BY <1>3, <1>4, <2>1, <2>4, <2>5 DEF StreamPlace
  <2> QED BY <1>1, <1>3, <1>4, <2>2, <2>3, <2>6, Zenon DEF JobOK
<1>5. CASE ~streaming
  <2>1. IndexReady
    BY <1>5 DEF Resume
  <2>2. PICK b \in Nat, u \in Nat \ {0} :
            /\ b = EpochSteps /\ u = UpdateSteps /\ u = IF b >= 1 THEN b ELSE 1
    <3>1. PICK b \in Nat : b = EpochSteps
      BY JobConstants
    <3>2. Max({b, 1}) = IF b >= 1 THEN b ELSE 1
      BY MaxIs
    <3>3. UpdateSteps = Max({b, 1})
      BY <2>1, <3>1, BatchesIs, Zenon DEF UpdateSteps
    <3>4. (IF b >= 1 THEN b ELSE 1) \in Nat \ {0}
      OBVIOUS
    <3> QED BY <3>1, <3>2, <3>3, <3>4, Zenon
  <2>3. Len(trained) <= Epochs * b
    BY <1>5, <2>2, FineTyped, Zenon DEF IndexPlace
  <2>4. epoch' = saved \div u /\ skip' = saved % u
    BY <1>5, <2>2, Zenon DEF Resume
  <2>5. PICK e \in Nat, s \in Nat : /\ e = epoch' /\ s = skip' /\ s < u
                                    /\ saved = e * u + s
    <3>1. saved \in Nat
      BY FineTyped
    <3>2. /\ saved \div u \in Nat /\ saved % u \in Nat /\ saved % u < u
          /\ saved = (saved \div u) * u + (saved % u)
      BY <3>1, DivIs
    <3> QED BY <2>4, <3>2, Zenon
  <2>6. PICK m \in Nat : m = Epochs
    BY JobConstants
  <2>7. /\ e <= m /\ saved = e * b + s /\ (s < b \/ b = 0)
        /\ e = m => saved = m * b
    <3>1. CASE b = 0
      <4>1. saved = 0 /\ u = 1
        BY <1>2, <2>2, <2>3, <2>6, <3>1, FineTyped
      <4>2. e = 0 /\ s = 0
        <5>1. 0 = e * 1 + s
          BY <2>5, <4>1, Zenon
        <5> QED BY <5>1
      <4> QED BY <2>6, <3>1, <4>1, <4>2
    <3>2. CASE b # 0
      <4>1. u = b
        BY <2>2, <3>2
      <4>2. saved = e * b + s /\ s < b /\ saved <= m * b
        BY <1>2, <2>3, <2>5, <2>6, <4>1
      <4>3. ~ (m + 1 <= e)
        <5> SUFFICES ASSUME m + 1 <= e PROVE FALSE
          OBVIOUS
        <5>1. (m + 1) * b <= e * b /\ (m + 1) * b = m * b + b
          BY TimesMonotone, TimesNext
        <5>2. e * b \in Nat /\ m * b \in Nat
          BY TimesNext
        <5> QED BY <3>2, <4>2, <5>1, <5>2
      <4>4. e = m => saved = m * b
        <5>1. m * b \in Nat
          BY TimesNext
        <5>2. e = m => e * b = m * b
          OBVIOUS
        <5> QED BY <4>2, <5>1, <5>2
      <4> QED BY <4>2, <4>3, <4>4
    <3> QED BY <3>1, <3>2
  <2>8. JobTypes'
    <3>1. epoch' \in 0..Epochs /\ skip' \in Nat
      BY <2>5, <2>6, <2>7
    <3>2. tpc' \in {"open", "done"}
      BY <1>1
    <3> QED BY <1>1, <3>1, <3>2, FineTyped, Zenon DEF JobTypes
  <2>9. Control'
    <3>1. tpc' = "open" => epoch' # Epochs
      BY <1>1, <1>5
    <3>2. tpc' = "open" \/ tpc' = "done"
      BY <1>1
    <3> QED BY <2>5, <2>6, <2>7, <3>1, <3>2 DEF Control
  <2>10. IndexPlace'
    <3>1. Fresh' /\ IndexReady'
      BY <1>1, <1>3, <1>5, <2>1, FineTyped, SameIndex, Zenon DEF IndexPlace
    <3>2. tpc' = "open" \/ (tpc' = "done" /\ epoch' = Epochs)
      BY <1>1, <1>5
    <3>3. /\ Len(trained') = epoch' * EpochSteps + skip'
          /\ skip' < EpochSteps \/ EpochSteps = 0
      BY <1>1, <1>2, <2>2, <2>5, <2>7, Zenon
    <3>4. tpc' = "done" => Len(trained') = Epochs * EpochSteps
      BY <1>1, <1>2, <2>2, <2>5, <2>6, <2>7, <3>2
    <3>5. Len(trained') <= Epochs * EpochSteps
      BY <1>1, <2>2, <2>3, Zenon
    <3> QED BY <1>3, <1>5, <3>1, <3>2, <3>3, <3>4, <3>5 DEF IndexPlace
  <2> QED BY <1>1, <1>3, <1>5, <2>8, <2>9, <2>10, Zenon DEF JobOK
<1> QED BY <1>4, <1>5

LEMMA OpenEpochJob == ASSUME Fine, OpenEpoch PROVE JobOK'
<1>1. /\ tpc = "open" /\ tpc' = "train" /\ stepped' = FALSE
      /\ seed' = IF skip > 0 THEN 0 ELSE epoch
      /\ UNCHANGED streamVars /\ UNCHANGED indexVars
      /\ streaming' = streaming /\ epoch' = epoch
      /\ drawn' = drawn /\ trained' = trained /\ saved' = saved /\ kills' = kills
  BY DEF OpenEpoch
<1>2. /\ Taken' /\ yielded' = yielded /\ ready' = ready
      /\ Fresh => Fresh'
      /\ streaming => \A n \in DOMAIN trained' : GroupTrained(n)'
      /\ ~streaming => \A n \in DOMAIN trained' : BatchTrained(n)'
  BY <1>1, Standing, Zenon
<1>3. skip' \in Nat /\ nth' \in Nat
  BY FineTyped DEF OpenEpoch
<1>4. JobTypes' /\ Control'
  <2>1. seed' \in 0..Epochs /\ epoch' < Epochs
    BY <1>1, FineTyped, JobConstants DEF Control
  <2>2. JobTypes'
    BY <1>1, <1>3, <2>1, FineTyped, Zenon DEF JobTypes
  <2> QED BY <1>1, <2>1, <2>2 DEF Control
<1>5. CASE streaming
  <2>1. skip' = skip
    BY <1>5 DEF OpenEpoch
  <2>2. PICK g \in Nat : Grouped(g)
    BY <1>1, <1>5, FineTyped DEF StreamPlace
  <2>3. Grouped(g)'
    BY <1>1, <1>2, <2>1, <2>2, Zenon DEF Grouped
  <2>4. StreamPlace'
    BY <1>1, <1>2, <1>5, <2>3 DEF StreamPlace
  <2> QED BY <1>1, <1>2, <1>4, <1>5, <2>4, Zenon DEF JobOK
<1>6. CASE ~streaming
  <2>1. nth' = skip /\ skip' = 0
    BY <1>6 DEF OpenEpoch
  <2>2. /\ Fresh /\ IndexReady /\ Len(trained) <= Epochs * EpochSteps
        /\ Len(trained) = epoch * EpochSteps + skip
        /\ skip < EpochSteps \/ EpochSteps = 0
    BY <1>1, <1>6, FineTyped DEF IndexPlace
  <2>3. nth' <= EpochSteps /\ (stepped' \/ nth' < EpochSteps \/ EpochSteps = 0)
    <3>1. PICK b \in Nat, t \in Nat : /\ b = EpochSteps /\ t = epoch * EpochSteps
                                      /\ EpochSteps = 0 => Epochs * EpochSteps = 0
      <4>1. EpochSteps \in Nat /\ epoch * EpochSteps \in Nat /\ Epochs * 0 = 0
        BY FineTyped, JobConstants, TimesNext
      <4> QED BY <4>1, Zenon
    <3> QED BY <2>1, <2>2, <3>1, FineTyped
  <2>4. IndexReady'
    BY <1>1, <2>2, SameIndex, Zenon
  <2>5. /\ Len(trained') = epoch' * EpochSteps + nth'
        /\ Len(trained') <= Epochs * EpochSteps
    BY <1>1, <2>1, <2>2, Zenon
  <2>6. IndexPlace'
    BY <1>1, <1>2, <1>6, <2>1, <2>2, <2>3, <2>4, <2>5 DEF IndexPlace
  <2> QED BY <1>1, <1>2, <1>4, <1>6, <2>6, Zenon DEF JobOK
<1> QED BY <1>5, <1>6

(* Rank 0 takes the oldest pack that waits.                                 *)
LEMMA DrawTaken ==
    ASSUME Fine, Len(drawn) < WorldSize, ready # << >>, ready' = Tail(ready),
           yielded' = yielded, drawn' = Append(drawn, Head(ready))
    PROVE  /\ Taken' /\ Len(drawn') = Len(drawn) + 1 /\ Len(ready') = Len(ready) - 1
<1>1. PICK T : T = Seq(Samples)
  OBVIOUS
<1>2. PICK y \in Seq(T), s \in Seq(T), d \in Seq(T), x \in T :
          y = yielded /\ s = ready /\ d = drawn /\ x = Head(ready)
  <2>1. yielded \in Seq(T) /\ ready \in Seq(T) /\ drawn \in Seq(T)
    BY <1>1, FineTyped, Zenon
  <2>2. Head(ready) \in T
    BY <2>1
  <2> QED BY <2>1, <2>2, Zenon
<1>3. PICK t \in Seq(T), e \in Seq(T) : t = Tail(s) /\ e = Append(d, x)
  <2>1. Tail(s) \in Seq(T) /\ Append(d, x) \in Seq(T)
    BY <1>2
  <2> QED BY <2>1, Zenon
<1>4. /\ Len(y) \in Nat /\ Len(s) \in Nat /\ Len(d) \in Nat /\ Len(s) >= 1
      /\ Len(t) = Len(s) - 1 /\ Len(e) = Len(d) + 1 /\ x = s[1]
      /\ \A j \in 1..Len(t) : t[j] = s[j + 1]
      /\ e[Len(d) + 1] = x /\ \A j \in 1..Len(d) : e[j] = d[j]
  <2>1. s # << >> /\ x = Head(s)
    BY <1>2, Zenon
  <2> QED BY ONLY y \in Seq(T), s \in Seq(T), d \in Seq(T), x \in T, <1>3, <2>1
<1>5. /\ Len(d) < WorldSize /\ Len(d) + Len(s) <= Len(y) /\ WorldSize \in Nat
      /\ \A j \in 1..Len(s) : s[j] = y[Len(y) - Len(s) + j]
      /\ \A j \in 1..Len(d) : d[j] = y[Len(y) - Len(s) - Len(d) + j]
  BY <1>2, FineTyped, JobConstants, Zenon DEF Taken
<1>6. ASSUME NEW j \in 1..Len(t)
      PROVE  t[j] = y[Len(y) - Len(t) + j]
  <2>1. j + 1 \in 1..Len(s) /\ Len(y) - Len(s) + (j + 1) = Len(y) - Len(t) + j
    BY <1>4
  <2> QED BY <1>4, <1>5, <2>1, Zenon
<1>7. ASSUME NEW j \in 1..Len(e)
      PROVE  e[j] = y[Len(y) - Len(t) - Len(e) + j]
  <2>1. CASE j \in 1..Len(d)
    <3>1. Len(y) - Len(s) - Len(d) + j = Len(y) - Len(t) - Len(e) + j
      BY <1>4, <2>1
    <3> QED BY <1>4, <1>5, <2>1, <3>1, Zenon
  <2>2. CASE j \notin 1..Len(d)
    <3>1. /\ j = Len(d) + 1 /\ 1 \in 1..Len(s)
          /\ Len(y) - Len(s) + 1 = Len(y) - Len(t) - Len(e) + j
      <4>1. j = Len(d) + 1
        BY <1>4, <2>2
      <4>2. Len(t) + 1 = Len(s) /\ 1 \in 1..Len(s)
        BY <1>4
      <4> QED BY ONLY Len(y) \in Nat, <1>4, <4>1, <4>2
    <3> QED BY <1>4, <1>5, <3>1, Zenon
  <2> QED BY <2>1, <2>2
<1>8. Len(e) <= WorldSize /\ Len(e) + Len(t) <= Len(y)
  BY <1>4, <1>5
<1>9. e \in Seq(Seq(Samples)) /\ yielded' = y /\ ready' = t /\ drawn' = e
  BY <1>1, <1>2, <1>3, Zenon
<1> QED BY <1>2, <1>4, <1>6, <1>7, <1>8, <1>9, Zenon DEF Taken

LEMMA DrawJob == ASSUME Fine, Draw PROVE JobOK'
<1>1. /\ streaming /\ tpc = "train" /\ Len(drawn) < WorldSize
      /\ ready # << >> /\ ready' = Tail(ready) /\ yielded' = yielded
      /\ drawn' = Append(drawn, Head(ready))
      /\ streaming' = streaming /\ tpc' = tpc /\ epoch' = epoch /\ skip' = skip
      /\ seed' = seed /\ nth' = nth /\ stepped' = stepped
      /\ trained' = trained /\ saved' = saved /\ kills' = kills
  BY DEF Draw, DrawPack
<1>2. /\ Taken' /\ Len(drawn') = Len(drawn) + 1 /\ Len(ready') = Len(ready) - 1
  BY <1>1, DrawTaken, Zenon
<1>3. JobTypes' /\ Control'
  BY <1>1, FineTyped, Zenon DEF JobTypes, Control
<1>4. PICK g \in Nat : Grouped(g)
  BY <1>1, FineTyped DEF StreamPlace
<1>5. Grouped(g)'
  <2>1. Len(yielded') = g * WorldSize + Len(drawn') + Len(ready')
    <3>1. PICK w \in Nat : w = g * WorldSize
      BY <1>4, JobConstants
    <3>2. Len(yielded) = w + Len(drawn) + Len(ready)
      BY <1>4, <3>1, Zenon DEF Grouped
    <3>3. Len(yielded) = w + Len(drawn') + Len(ready')
      BY <1>2, <3>1, <3>2, FineTyped
    <3> QED BY <1>1, <3>1, <3>3, Zenon
  <2> QED BY <1>1, <1>4, <2>1, Zenon DEF Grouped
<1>6. \A n \in DOMAIN trained' : GroupTrained(n)'
  BY <1>1, FineTyped, Zenon DEF StreamPlace, GroupTrained
<1>7. StreamPlace'
  BY <1>1, <1>5, <1>6 DEF StreamPlace
<1> QED BY <1>1, <1>2, <1>3, <1>7, Zenon DEF JobOK

(* A full group is the next of the pass; a pass is over after all of them.  *)
LEMMA FullGroup ==
    ASSUME Fine, NEW g \in Nat, Grouped(g), Len(drawn) = WorldSize
    PROVE  g < PassSteps /\ drawn = Group(g)
<1>1. PICK w \in Nat \ {0}, l \in Nat, q \in Nat, m \in Nat :
          /\ w = WorldSize /\ l = Len(PassPacks) /\ q = PassSteps
          /\ m < w /\ l = q * w + m
  <2>1. WorldSize \in Nat \ {0} /\ Len(PassPacks) \in Nat
    BY JobConstants
  <2>2. /\ Len(PassPacks) \div WorldSize \in Nat /\ Len(PassPacks) % WorldSize \in Nat
        /\ Len(PassPacks) % WorldSize < WorldSize
        /\ Len(PassPacks) = (Len(PassPacks) \div WorldSize) * WorldSize
                                + (Len(PassPacks) % WorldSize)
    BY <2>1, DivIs
  <2> QED BY <2>1, <2>2, Zenon DEF PassSteps
<1>2. PICK p \in Nat : p = g * w /\ (g + 1) * w = p + w
  BY TimesNext
<1>3. Len(yielded) = p + w + Len(ready)
  BY <1>1, <1>2, Zenon DEF Grouped
<1>4. /\ Len(yielded) <= l /\ \A i \in 1..Len(yielded) : yielded[i] = PassPacks[i]
  BY <1>1, YieldedOfPass, Zenon DEF Starts, Fine
<1>5. g < q
  <2> SUFFICES ASSUME q <= g PROVE FALSE
    OBVIOUS
  <2>1. PICK h \in Nat : h = q * w /\ h <= p
    BY <1>2, TimesMonotone
  <2>2. l = h + m
    BY <1>1, <2>1, Zenon
  <2>3. Len(ready) \in Nat
    BY FineTyped
  <2> QED BY ONLY <1>1, <1>3, <1>4, <2>1, <2>2, <2>3, m \in Nat, w \in Nat, p \in Nat
<1>6. \A j \in 1..Len(drawn) :
          drawn[j] = yielded[Len(yielded) - Len(ready) - Len(drawn) + j]
  BY FineTyped, Zenon DEF Taken
<1>7. \A j \in 1..w : drawn[j] = PassPacks[g * WorldSize + j]
  <2> SUFFICES ASSUME NEW j \in 1..w PROVE drawn[j] = PassPacks[g * WorldSize + j]
    OBVIOUS
  <2>1. /\ Len(yielded) - Len(ready) - Len(drawn) + j = p + j
        /\ p + j \in 1..Len(yielded)
    BY <1>1, <1>3, FineTyped
  <2>2. drawn[j] = PassPacks[p + j]
    BY <1>1, <1>4, <1>6, <2>1, Zenon
  <2> QED BY <1>1, <1>2, <2>2, Zenon
<1>8. drawn = [j \in 1..w |-> drawn[j]]
  BY <1>1, FineTyped
<1>9. drawn = Group(g)
  BY <1>1, <1>7, <1>8, Zenon DEF Group, Ranks
<1> QED BY <1>1, <1>5, <1>9, Zenon

LEMMA WholePass ==
    ASSUME Fine, NEW g \in Nat, Grouped(g), SourceEnded
    PROVE  g = PassSteps
<1>1. yielded = PassPacks
  BY YieldedOfPass, Zenon DEF Fine, SourceEnded
<1>2. Len(ready) = 0 /\ Len(drawn) < WorldSize
  BY DEF SourceEnded
<1>3. PICK w \in Nat \ {0}, d \in Nat : w = WorldSize /\ d = Len(drawn) /\ d < w
  BY <1>2, JobConstants, FineTyped
<1>4. Len(PassPacks) = g * w + d
  <2>1. PICK p \in Nat : p = g * w
    BY TimesNext
  <2>2. Len(yielded) = p + d + 0
    BY <1>2, <1>3, <2>1, Zenon DEF Grouped
  <2> QED BY <1>1, <2>1, <2>2
<1>5. (g * w + d) \div w = g
  BY <1>3, DivUnique
<1> QED BY <1>3, <1>4, <1>5, Zenon DEF PassSteps

(* A group that is trained or skipped leaves no pack drawn.                 *)
LEMMA NoneDrawn ==
    ASSUME Fine, yielded' = yielded, ready' = ready, drawn' = << >>
    PROVE  Taken' /\ Len(drawn') = 0
<1>1. /\ Len(ready) \in Nat /\ Len(yielded) \in Nat /\ Len(drawn) \in Nat
      /\ Len(drawn) + Len(ready) <= Len(yielded)
      /\ \A j \in 1..Len(ready) : ready[j] = yielded[Len(yielded) - Len(ready) + j]
  BY FineTyped, Zenon DEF Taken
<1>2. /\ << >> \in Seq(Seq(Samples)) /\ Len(<< >>) = 0 /\ 0 <= WorldSize
      /\ 0 + Len(ready) <= Len(yielded)
  BY <1>1, JobConstants
<1>3. \A j \in 1..0 : FALSE
  OBVIOUS
<1> QED BY <1>1, <1>2, <1>3, Zenon DEF Taken

LEMMA SkipGroupJob == ASSUME Fine, SkipGroup PROVE JobOK'
<1>1. /\ streaming /\ tpc = "train" /\ skip > 0 /\ Len(drawn) = WorldSize
      /\ skip' = skip - 1 /\ drawn' = << >>
      /\ yielded' = yielded /\ ready' = ready
      /\ streaming' = streaming /\ tpc' = tpc /\ epoch' = epoch
      /\ seed' = seed /\ nth' = nth /\ stepped' = stepped
      /\ trained' = trained /\ saved' = saved /\ kills' = kills
  BY DEF SkipGroup, streamVars
<1>2. Taken' /\ Len(drawn') = 0
  BY <1>1, NoneDrawn, Zenon
<1>3. JobTypes' /\ Control'
  <2>1. skip' \in Nat
    BY <1>1, FineTyped
  <2> QED BY <1>1, <2>1, FineTyped, Zenon DEF JobTypes, Control
<1>4. PICK g \in Nat : Grouped(g)
  BY <1>1, FineTyped DEF StreamPlace
<1>5. epoch = 0 /\ Len(trained) = saved /\ kills > 0
  BY <1>1, <1>4, FineTyped DEF Grouped
<1>6. Grouped(g + 1)'
  <2>1. Len(yielded') = (g + 1) * WorldSize + Len(drawn') + Len(ready')
    <3>1. PICK w \in Nat : w = g * WorldSize /\ (g + 1) * WorldSize = w + WorldSize
      BY <1>4, JobConstants, TimesNext
    <3>2. Len(yielded) = w + WorldSize + Len(ready)
      BY <1>1, <1>4, <3>1, Zenon DEF Grouped
    <3>3. Len(yielded) = (w + WorldSize) + 0 + Len(ready)
      BY <3>1, <3>2, FineTyped, JobConstants
    <3> QED BY <1>1, <1>2, <3>1, <3>3, Zenon
  <2>2. Len(trained') = epoch' * PassSteps + (g + 1) + skip'
    <3>1. PICK p \in Nat : p = epoch * PassSteps
      BY FineTyped, JobConstants, TimesNext
    <3>2. Len(trained) = p + g + skip
      BY <1>4, <3>1, Zenon DEF Grouped
    <3>3. Len(trained) = p + (g + 1) + (skip - 1)
      BY <1>1, <3>2, FineTyped
    <3> QED BY <1>1, <3>1, <3>3, Zenon
  <2>3. kills # 0
    BY <1>5, FineTyped
  <2> QED BY <1>1, <1>5, <2>1, <2>2, <2>3 DEF Grouped
<1>7. \A n \in DOMAIN trained' : GroupTrained(n)'
  BY <1>1, FineTyped, Zenon DEF StreamPlace, GroupTrained
<1>8. StreamPlace'
  BY <1>1, <1>4, <1>6, <1>7 DEF StreamPlace
<1> QED BY <1>1, <1>2, <1>3, <1>8, Zenon DEF JobOK

LEMMA SkipFailsJob == ASSUME Fine, SkipFails PROVE JobOK'
<1>1. /\ streaming /\ tpc = "train" /\ skip > 0 /\ SourceEnded /\ tpc' = "failed"
      /\ UNCHANGED streamVars /\ skip' = skip
      /\ streaming' = streaming /\ epoch' = epoch /\ drawn' = drawn
      /\ seed' = seed /\ nth' = nth /\ stepped' = stepped
      /\ trained' = trained /\ saved' = saved /\ kills' = kills
  BY DEF SkipFails
<1>2. Taken' /\ \A n \in DOMAIN trained' : GroupTrained(n)'
  BY <1>1, Standing, Zenon
<1>3. JobTypes' /\ Control'
  <2>1. JobTypes'
    BY <1>1, FineTyped, Zenon DEF JobTypes
  <2> QED BY <1>1, <2>1 DEF Control
<1>4. PICK g \in Nat : Grouped(g)
  BY <1>1, FineTyped DEF StreamPlace
<1>5. kills > 0 /\ saved >= PassSteps
  <2>1. epoch = 0 /\ Len(trained) = saved /\ kills > 0
    BY <1>1, <1>4, FineTyped DEF Grouped
  <2>2. g = PassSteps
    BY <1>1, <1>4, WholePass
  <2>3. Len(trained) = 0 * PassSteps + g + skip
    BY <1>4, <2>1, Zenon DEF Grouped
  <2> QED BY <1>1, <2>1, <2>2, <2>3, FineTyped, JobConstants
<1>6. StreamPlace'
  BY <1>1, <1>2, <1>5 DEF StreamPlace
<1> QED BY <1>1, <1>2, <1>3, <1>6, Zenon DEF JobOK

(* Every rank makes a step with its pack of the group.                      *)
LEMMA ScatterJob == ASSUME Fine, Scatter PROVE JobOK'
<1>1. /\ streaming /\ tpc = "train" /\ skip = 0 /\ Len(drawn) = WorldSize
      /\ trained' = Append(trained, [epoch |-> epoch, seed |-> seed, packs |-> drawn])
      /\ nth' = nth + 1 /\ stepped' = TRUE /\ drawn' = << >>
      /\ yielded' = yielded /\ ready' = ready /\ skip' = skip
      /\ streaming' = streaming /\ tpc' = tpc /\ epoch' = epoch
      /\ seed' = seed /\ saved' = saved /\ kills' = kills
  BY DEF Scatter, Trained, streamVars
<1>2. Taken' /\ Len(drawn') = 0
  BY <1>1, NoneDrawn, Zenon
<1>3. PICK n, x :
          /\ n \in Nat /\ n = Len(trained) /\ x.packs = drawn /\ IsSeq(trained')
          /\ Len(trained') = n + 1 /\ DOMAIN trained' = 1..n + 1
          /\ DOMAIN trained = 1..n /\ trained'[n + 1] = x
          /\ \A i \in 1..n : trained'[i] = trained[i]
  <2>1. PICK x : x = [epoch |-> epoch, seed |-> seed, packs |-> drawn]
    OBVIOUS
  <2>2. x.packs = drawn
    BY <2>1
  <2>3. IsSeq(trained)
    BY FineTyped, Zenon DEF JobTypes
  <2>4. trained' = Append(trained, x)
    BY <1>1, <2>1, Zenon
  <2>5. /\ IsSeq(Append(trained, x)) /\ Len(trained) \in Nat
        /\ Len(Append(trained, x)) = Len(trained) + 1
        /\ DOMAIN Append(trained, x) = 1..Len(trained) + 1
        /\ DOMAIN trained = 1..Len(trained)
        /\ Append(trained, x)[Len(trained) + 1] = x
        /\ \A i \in 1..Len(trained) : Append(trained, x)[i] = trained[i]
    BY <2>3, Appended
  <2> QED BY <2>2, <2>4, <2>5, Zenon
<1>4. JobTypes' /\ Control'
  <2>1. nth' \in Nat /\ saved' \in 0..Len(trained')
    BY <1>1, <1>3, FineTyped
  <2>2. JobTypes'
    BY <1>1, <1>3, <2>1, FineTyped, Zenon DEF JobTypes
  <2> QED BY <1>1, <2>2, FineTyped DEF Control
<1>5. PICK g \in Nat : Grouped(g)
  BY <1>1, FineTyped DEF StreamPlace
<1>6. g < PassSteps /\ drawn = Group(g)
  BY <1>1, <1>5, FullGroup, Zenon
<1>7. n = epoch * PassSteps + g
  <2>1. PICK p \in Nat : p = epoch * PassSteps
    BY FineTyped, JobConstants, TimesNext
  <2>2. n = p + g + 0
    BY <1>1, <1>3, <1>5, <2>1, Zenon DEF Grouped
  <2> QED BY <2>1, <2>2
<1>8. Grouped(g + 1)'
  <2>1. Len(yielded') = (g + 1) * WorldSize + Len(drawn') + Len(ready')
    <3>1. PICK w \in Nat : w = g * WorldSize /\ (g + 1) * WorldSize = w + WorldSize
      BY <1>5, JobConstants, TimesNext
    <3>2. Len(yielded) = w + WorldSize + Len(ready)
      BY <1>1, <1>5, <3>1, Zenon DEF Grouped
    <3>3. Len(yielded) = (w + WorldSize) + 0 + Len(ready)
      BY <3>1, <3>2, FineTyped, JobConstants
    <3> QED BY <1>1, <1>2, <3>1, <3>3, Zenon
  <2>2. Len(trained') = epoch' * PassSteps + (g + 1) + skip'
    <3>1. PICK p \in Nat : p = epoch * PassSteps
      BY FineTyped, JobConstants, TimesNext
    <3>2. n = p + g
      BY <1>7, <3>1, Zenon
    <3>3. n + 1 = p + (g + 1) + 0
      BY <3>1, <3>2
    <3> QED BY <1>1, <1>3, <3>1, <3>3, Zenon
  <2> QED BY <1>1, <2>1, <2>2 DEF Grouped
<1>9. ASSUME NEW i \in DOMAIN trained'
      PROVE  GroupTrained(i)'
  <2>1. CASE i \in 1..n
    BY <1>1, <1>3, <2>1, FineTyped, Zenon DEF StreamPlace, GroupTrained
  <2>2. CASE i = n + 1
    <3>1. (epoch * PassSteps + g) % PassSteps = g
      <4>1. PassSteps \in Nat \ {0} /\ epoch \in Nat
        BY <1>6, JobConstants, FineTyped
      <4> QED BY <1>6, <4>1, DivUnique
    <3>2. i - 1 = n
      BY <1>3, <2>2
    <3>3. (i - 1) % PassSteps = g
      BY <1>7, <3>1, <3>2, Zenon
    <3>4. trained'[i].packs = Group(g)
      BY <1>3, <1>6, <2>2, Zenon
    <3> QED BY <3>3, <3>4, Zenon DEF GroupTrained
  <2> QED BY <1>3, <2>1, <2>2
<1>10. StreamPlace'
  BY <1>1, <1>5, <1>8, <1>9 DEF StreamPlace
<1> QED BY <1>1, <1>2, <1>4, <1>10, Zenon DEF JobOK

LEMMA ScatterNoneJob == ASSUME Fine, ScatterNone PROVE JobOK'
<1>1. /\ streaming /\ tpc = "train" /\ skip = 0 /\ SourceEnded
      /\ drawn' = << >> /\ ready = << >> /\ ready' = << >> /\ yielded' = << >>
      /\ epoch' = epoch + 1
      /\ tpc' = IF ~stepped \/ epoch' = Epochs THEN "done" ELSE "open"
      /\ streaming' = streaming /\ skip' = skip /\ seed' = seed /\ nth' = nth
      /\ stepped' = stepped /\ trained' = trained /\ saved' = saved /\ kills' = kills
  BY DEF ScatterNone, PassAgain, EpochOver
<1>2. Taken' /\ Fresh'
  <2>1. /\ << >> \in Seq(Seq(Samples)) /\ Len(<< >>) = 0 /\ 0 <= WorldSize
        /\ 0 + 0 <= 0 /\ \A j \in 1..0 : FALSE
    BY JobConstants
  <2> QED BY <1>1, <2>1, Zenon DEF Taken, Fresh
<1>3. epoch < Epochs /\ epoch \in Nat /\ Epochs \in Nat
  BY <1>1, FineTyped, JobConstants DEF Control
<1>4. JobTypes' /\ Control'
  <2>1. epoch' \in 0..Epochs /\ tpc' \in {"open", "done"}
    BY <1>1, <1>3
  <2>2. JobTypes'
    BY <1>1, <2>1, FineTyped, Zenon DEF JobTypes
  <2> QED BY <1>1, <1>3, <2>1, <2>2 DEF Control
<1>5. PICK g \in Nat : Grouped(g)
  BY <1>1, FineTyped DEF StreamPlace
<1>6. g = PassSteps
  BY <1>1, <1>5, WholePass
<1>7. PICK p \in Nat : /\ p = epoch * PassSteps
                       /\ epoch' * PassSteps = p + PassSteps
                       /\ Len(trained) = p + PassSteps
  <2>1. PICK p \in Nat : /\ p = epoch * PassSteps
                         /\ (epoch + 1) * PassSteps = p + PassSteps
    BY FineTyped, JobConstants, TimesNext
  <2>2. Len(trained) = p + g + 0
    BY <1>1, <1>5, <2>1, Zenon DEF Grouped
  <2>3. p + g + 0 = p + PassSteps
    BY <1>6, <2>1, JobConstants
  <2> QED BY <1>1, <2>1, <2>2, <2>3, Zenon
<1>8. \A n \in DOMAIN trained' : GroupTrained(n)'
  BY <1>1, FineTyped, Zenon DEF StreamPlace, GroupTrained
<1>9. CASE tpc' = "open"
  <2>1. epoch' > 0 /\ epoch' # 0
    BY <1>1, <1>3
  <2>2. Grouped(0)'
    <3>1. Len(yielded') = 0 /\ Len(drawn') = 0 /\ Len(ready') = 0
      BY <1>1
    <3>2. 0 = 0 * WorldSize + 0 + 0
      BY JobConstants
    <3>3. Len(trained') = epoch' * PassSteps + 0 + skip'
      BY <1>1, <1>7, JobConstants
    <3> QED BY <1>1, <2>1, <3>1, <3>2, <3>3 DEF Grouped
  <2>3. StreamPlace'
    BY <1>2, <1>8, <1>9, <2>2 DEF StreamPlace
  <2> QED BY <1>1, <1>2, <1>4, <2>3, Zenon DEF JobOK
<1>10. CASE tpc' = "done"
  <2>1. \/ Len(trained) >= Epochs * PassSteps
        \/ kills > 0 /\ saved >= PassSteps
    <3>1. CASE epoch' = Epochs
      BY <1>7, <3>1, JobConstants, FineTyped
    <3>2. CASE ~stepped /\ epoch = 0
      <4>1. Len(trained) = saved /\ (kills = 0 => saved = 0)
        BY <1>5, <3>2, Zenon DEF Grouped
      <4>2. saved >= PassSteps
        BY <1>7, <4>1, JobConstants
      <4>3. kills = 0 => Epochs * PassSteps = 0
        <5>1. kills = 0 => PassSteps = 0
          BY <4>1, <4>2, JobConstants
        <5>2. Epochs * 0 = 0
          BY JobConstants
        <5> QED BY <5>1, <5>2, Zenon
      <4> QED BY <4>2, <4>3, FineTyped
    <3>3. CASE ~stepped /\ epoch # 0
      <4>1. PassSteps = 0
        BY <1>5, <1>6, <3>3, Zenon DEF Grouped
      <4>2. Epochs * PassSteps = 0
        BY <4>1, JobConstants
      <4> QED BY <4>2, FineTyped
    <3> QED BY <1>1, <1>10, <3>1, <3>2, <3>3
  <2>2. StreamPlace'
    BY <1>1, <1>8, <1>10, <2>1 DEF StreamPlace
  <2> QED BY <1>1, <1>2, <1>4, <2>2, Zenon DEF JobOK
<1> QED BY <1>1, <1>9, <1>10

LEMMA TrainShardJob == ASSUME Fine, TrainShard PROVE JobOK'
<1>1. /\ ~streaming /\ tpc = "train" /\ nth < Batches
      /\ trained' = Append(trained, [epoch |-> epoch, seed |-> seed,
                                     packs |-> Shard(seed, nth)])
      /\ nth' = nth + 1 /\ stepped' = TRUE
      /\ UNCHANGED streamVars /\ UNCHANGED indexVars
      /\ streaming' = streaming /\ tpc' = tpc /\ epoch' = epoch /\ skip' = skip
      /\ seed' = seed /\ drawn' = drawn /\ saved' = saved /\ kills' = kills
  BY DEF TrainShard, Trained
<1>2. /\ Fresh /\ IndexReady /\ Len(trained) = epoch * EpochSteps + nth
      /\ skip = 0 /\ \A n \in DOMAIN trained : BatchTrained(n)
  BY <1>1, FineTyped DEF IndexPlace
<1>3. Batches = EpochSteps /\ PackedIdx = AllChunks /\ nth < EpochSteps
  BY <1>1, <1>2, BatchesIs, Zenon
<1>4. Taken' /\ Fresh'
  <2>1. yielded' = yielded /\ ready' = ready
    BY <1>1 DEF streamVars
  <2> QED BY <1>1, <1>2, <2>1, FineTyped, Zenon DEF Taken, Fresh
<1>5. Shard(seed, nth) = Batch(seed, nth)
  BY <1>3, Zenon DEF Shard, Batch
<1>6. PICK n, x :
          /\ n \in Nat /\ n = Len(trained) /\ x.packs = Batch(seed, nth)
          /\ x.seed = seed /\ x.epoch = epoch /\ IsSeq(trained')
          /\ Len(trained') = n + 1 /\ DOMAIN trained' = 1..n + 1
          /\ DOMAIN trained = 1..n /\ trained'[n + 1] = x
          /\ \A i \in 1..n : trained'[i] = trained[i]
  <2>1. PICK x : x = [epoch |-> epoch, seed |-> seed, packs |-> Shard(seed, nth)]
    OBVIOUS
  <2>2. x.packs = Batch(seed, nth) /\ x.seed = seed /\ x.epoch = epoch
    BY <1>5, <2>1, Zenon
  <2>3. IsSeq(trained)
    BY FineTyped, Zenon DEF JobTypes
  <2>4. trained' = Append(trained, x)
    BY <1>1, <2>1, Zenon
  <2>5. /\ IsSeq(Append(trained, x)) /\ Len(trained) \in Nat
        /\ Len(Append(trained, x)) = Len(trained) + 1
        /\ DOMAIN Append(trained, x) = 1..Len(trained) + 1
        /\ DOMAIN trained = 1..Len(trained)
        /\ Append(trained, x)[Len(trained) + 1] = x
        /\ \A i \in 1..Len(trained) : Append(trained, x)[i] = trained[i]
    BY <2>3, Appended
  <2> QED BY <2>2, <2>4, <2>5, Zenon
<1>7. JobTypes' /\ Control'
  <2>1. nth' \in Nat /\ saved' \in 0..Len(trained')
    BY <1>1, <1>6, FineTyped
  <2>2. JobTypes'
    BY <1>1, <1>6, <2>1, FineTyped, Zenon DEF JobTypes
  <2> QED BY <1>1, <2>2, FineTyped DEF Control
<1>8. /\ Len(trained') = epoch' * EpochSteps + nth' /\ nth' <= EpochSteps
      /\ Len(trained') <= Epochs * EpochSteps
  <2>1. PICK p \in Nat : /\ p = epoch * EpochSteps
                         /\ (epoch + 1) * EpochSteps = p + EpochSteps
                         /\ p + EpochSteps <= Epochs * EpochSteps
    <3>1. epoch + 1 <= Epochs /\ epoch + 1 \in Nat /\ Epochs \in Nat
      BY <1>1, FineTyped, JobConstants DEF Control
    <3>2. (epoch + 1) * EpochSteps <= Epochs * EpochSteps
      BY <3>1, JobConstants, TimesMonotone
    <3>3. /\ epoch * EpochSteps \in Nat
          /\ (epoch + 1) * EpochSteps = epoch * EpochSteps + EpochSteps
      BY FineTyped, JobConstants, TimesNext
    <3> QED BY <3>2, <3>3, Zenon
  <2>2. Len(trained') = p + (nth + 1)
    BY <1>2, <1>6, <2>1, FineTyped
  <2>3. nth + 1 <= EpochSteps
    BY <1>3, FineTyped, JobConstants
  <2>4. p + (nth + 1) <= Epochs * EpochSteps
    <3>1. PICK m \in Nat : m = Epochs * EpochSteps
      BY JobConstants, TimesNext
    <3>2. p + EpochSteps <= m
      BY <2>1, <3>1, Zenon
    <3>3. nth \in Nat /\ EpochSteps \in Nat
      BY FineTyped, JobConstants, Zenon
    <3>4. p + (nth + 1) <= m
      BY ONLY <2>3, <3>2, <3>3, p \in Nat, m \in Nat
    <3> QED BY <3>1, <3>4, Zenon
  <2> QED BY <1>1, <2>1, <2>2, <2>3, <2>4, Zenon
<1>9. ASSUME NEW i \in DOMAIN trained'
      PROVE  BatchTrained(i)'
  <2>1. CASE i \in 1..n
    BY <1>1, <1>2, <1>6, <2>1, Zenon DEF BatchTrained
  <2>2. CASE i = n + 1
    <3>1. n = epoch * EpochSteps + nth
      BY <1>2, <1>6, Zenon
    <3>2. /\ (epoch * EpochSteps + nth) \div EpochSteps = epoch
          /\ (epoch * EpochSteps + nth) % EpochSteps = nth
      <4>1. EpochSteps \in Nat \ {0} /\ epoch \in Nat /\ nth \in Nat
        BY <1>3, JobConstants, FineTyped
      <4> QED BY <1>3, <4>1, DivUnique
    <3>3. i - 1 = n
      BY <1>6, <2>2
    <3>4. (i - 1) \div EpochSteps = epoch /\ (i - 1) % EpochSteps = nth
      BY <3>1, <3>2, <3>3, Zenon
    <3>5. trained'[i] = x
      BY <1>6, <2>2, Zenon
    <3> QED BY <1>6, <3>4, <3>5, Zenon DEF BatchTrained
  <2> QED BY <1>6, <2>1, <2>2
<1>10. IndexPlace'
  <2>1. IndexReady'
    BY <1>1, <1>2, SameIndex, Zenon
  <2> QED BY <1>1, <1>2, <1>4, <1>8, <1>9, <2>1 DEF IndexPlace
<1> QED BY <1>1, <1>4, <1>7, <1>10, Zenon DEF JobOK

LEMMA ShardOverJob == ASSUME Fine, ShardOver PROVE JobOK'
<1>1. /\ ~streaming /\ tpc = "train" /\ nth = Batches
      /\ epoch' = epoch + 1
      /\ tpc' = IF ~stepped \/ epoch' = Epochs THEN "done" ELSE "open"
      /\ UNCHANGED streamVars /\ UNCHANGED indexVars
      /\ streaming' = streaming /\ skip' = skip /\ seed' = seed /\ nth' = nth
      /\ stepped' = stepped /\ drawn' = drawn
      /\ trained' = trained /\ saved' = saved /\ kills' = kills
  BY DEF ShardOver, EpochOver
<1>2. /\ Fresh /\ IndexReady /\ Len(trained) = epoch * EpochSteps + nth
      /\ Len(trained) <= Epochs * EpochSteps
      /\ skip = 0 /\ (stepped \/ nth < EpochSteps \/ EpochSteps = 0)
  BY <1>1, FineTyped DEF IndexPlace
<1>3. /\ Taken' /\ (Fresh => Fresh') /\ \A n \in DOMAIN trained' : BatchTrained(n)'
  BY <1>1, Standing, Zenon
<1>4. nth = EpochSteps
  BY <1>1, <1>2, BatchesIs, Zenon
<1>5. epoch < Epochs /\ epoch \in Nat /\ Epochs \in Nat
  BY <1>1, FineTyped, JobConstants DEF Control
<1>6. JobTypes' /\ Control'
  <2>1. epoch' \in 0..Epochs /\ tpc' \in {"open", "done"}
    BY <1>1, <1>5
  <2>2. JobTypes'
    BY <1>1, <2>1, FineTyped, Zenon DEF JobTypes
  <2> QED BY <1>1, <1>5, <2>1, <2>2 DEF Control
<1>7. Len(trained') = epoch' * EpochSteps
  <2>1. (epoch + 1) * EpochSteps = epoch * EpochSteps + EpochSteps
    BY FineTyped, JobConstants, TimesNext
  <2> QED BY <1>1, <1>2, <1>4, <2>1, Zenon
<1>8. Len(trained') <= Epochs * EpochSteps
  BY <1>1, <1>2, Zenon
<1>9. CASE tpc' = "open"
  <2>1. /\ Len(trained') = epoch' * EpochSteps + skip'
        /\ skip' < EpochSteps \/ EpochSteps = 0
    <3>1. PICK p \in Nat : p = epoch' * EpochSteps
      <4>1. epoch' \in Nat
        BY <1>1, <1>5
      <4> QED BY <4>1, JobConstants, TimesNext
    <3>2. p = p + 0 /\ (0 < EpochSteps \/ EpochSteps = 0)
      BY <3>1, JobConstants
    <3> QED BY <1>1, <1>2, <1>7, <3>1, <3>2, Zenon
  <2>2. IndexPlace'
    BY <1>1, <1>2, <1>3, <1>8, <1>9, <2>1, SameIndex DEF IndexPlace
  <2> QED BY <1>1, <1>3, <1>6, <2>2, Zenon DEF JobOK
<1>10. CASE tpc' = "done"
  <2>1. Len(trained') = Epochs * EpochSteps
    <3>1. CASE epoch' = Epochs
      BY <1>7, <3>1, Zenon
    <3>2. CASE ~stepped
      <4>1. EpochSteps = 0
        BY <1>2, <1>4, <3>2, JobConstants
      <4>2. epoch' * 0 = 0 /\ Epochs * 0 = 0
        BY <1>1, <1>5
      <4> QED BY <1>7, <4>1, <4>2, Zenon
    <3> QED BY <1>1, <1>10, <3>1, <3>2
  <2>2. IndexPlace'
    BY <1>1, <1>2, <1>3, <1>8, <1>10, <2>1, SameIndex DEF IndexPlace
  <2> QED BY <1>1, <1>3, <1>6, <2>2, Zenon DEF JobOK
<1> QED BY <1>1, <1>9, <1>10

LEMMA SaveJob == ASSUME Fine, Save PROVE JobOK'
<1>1. /\ tpc = "train" /\ stepped /\ saved' = Len(trained)
      /\ UNCHANGED streamVars /\ UNCHANGED indexVars
      /\ streaming' = streaming /\ tpc' = tpc /\ epoch' = epoch /\ skip' = skip
      /\ seed' = seed /\ nth' = nth /\ stepped' = stepped /\ drawn' = drawn
      /\ trained' = trained /\ kills' = kills
  BY DEF Save
<1>2. /\ Taken' /\ yielded' = yielded /\ ready' = ready
      /\ Fresh => Fresh'
      /\ streaming => \A n \in DOMAIN trained' : GroupTrained(n)'
      /\ ~streaming => \A n \in DOMAIN trained' : BatchTrained(n)'
  BY <1>1, Standing, Zenon
<1>3. JobTypes' /\ Control'
  <2>1. saved' \in 0..Len(trained')
    BY <1>1, FineTyped
  <2>2. JobTypes'
    BY <1>1, <2>1, FineTyped, Zenon DEF JobTypes
  <2> QED BY <1>1, <2>2, FineTyped DEF Control
<1>4. CASE streaming
  <2>1. PICK g \in Nat : Grouped(g)
    BY <1>1, <1>4, FineTyped DEF StreamPlace
  <2>2. skip > 0 => Len(trained') = saved' /\ kills > 0
    BY <1>1, <2>1, Zenon DEF Grouped
  <2>3. stepped' /\ tpc' # "open"
    BY <1>1
  <2>4. Grouped(g)'
    BY <1>1, <1>2, <2>1, <2>2, <2>3, Zenon DEF Grouped
  <2>5. StreamPlace'
    BY <1>1, <1>2, <1>4, <2>4 DEF StreamPlace
  <2> QED BY <1>1, <1>2, <1>3, <1>4, <2>5, Zenon DEF JobOK
<1>5. CASE ~streaming
  <2>1. IndexPlace'
    <3>1. IndexReady' <=> IndexReady
      BY <1>1, SameIndex, Zenon
    <3> QED BY <1>1, <1>2, <1>5, <3>1, FineTyped DEF IndexPlace
  <2> QED BY <1>1, <1>2, <1>3, <1>5, <2>1, Zenon DEF JobOK
<1> QED BY <1>4, <1>5

LEMMA KillJob == ASSUME Fine, Kill PROVE JobOK'
<1>1. /\ kills' = kills + 1 /\ tpc' = "start" /\ epoch' = 0 /\ skip' = 0
      /\ seed' = 0 /\ nth' = 0 /\ stepped' = FALSE /\ drawn' = << >>
      /\ trained' = SubSeq(trained, 1, saved)
      /\ yielded' = << >> /\ ready' = << >>
      /\ streaming' = streaming /\ saved' = saved
  BY DEF Kill, StreamRestart
<1>2. /\ IsSeq(trained') /\ Len(trained') = saved /\ DOMAIN trained' = 1..saved
      /\ \A i \in 1..saved : i \in DOMAIN trained /\ trained'[i] = trained[i]
  <2>1. IsSeq(trained) /\ saved \in 0..Len(trained)
    BY FineTyped, Zenon DEF JobTypes
  <2>2. /\ IsSeq(SubSeq(trained, 1, saved)) /\ Len(SubSeq(trained, 1, saved)) = saved
        /\ DOMAIN SubSeq(trained, 1, saved) = 1..saved
        /\ \A i \in 1..saved :
               i \in DOMAIN trained /\ SubSeq(trained, 1, saved)[i] = trained[i]
    BY <2>1, CutOff
  <2> QED BY <1>1, <2>2, Zenon
<1>3. JobTypes' /\ Control'
  <2>1. /\ 0 \in 0..Epochs /\ 0 \in Nat /\ kills' \in Nat /\ kills' # 0
        /\ saved' \in 0..Len(trained')
    <3>1. Epochs \in Nat /\ kills \in Nat
      BY FineTyped, JobConstants, Zenon
    <3>2. saved \in Nat
      BY FineTyped DEF JobTypes
    <3>3. saved \in 0..saved
      BY ONLY <3>2
    <3>4. saved' \in 0..Len(trained')
      BY <1>1, <1>2, <3>3, Zenon
    <3>5. kills + 1 \in Nat /\ kills + 1 # 0 /\ 0 \in 0..Epochs /\ 0 \in Nat
      BY ONLY <3>1
    <3> QED BY <1>1, <3>4, <3>5, Zenon
  <2>2. JobTypes'
    BY <1>1, <1>2, <2>1, FineTyped, Zenon DEF JobTypes
  <2> QED BY <1>1, <1>2, <2>1, <2>2 DEF Control
<1>4. Taken' /\ Fresh'
  <2>1. /\ << >> \in Seq(Seq(Samples)) /\ Len(<< >>) = 0 /\ 0 <= WorldSize
        /\ 0 + 0 <= 0 /\ \A j \in 1..0 : FALSE
    BY JobConstants
  <2> QED BY <1>1, <2>1, Zenon DEF Taken, Fresh
<1>5. CASE streaming
  <2>1. \A n \in DOMAIN trained' : GroupTrained(n)'
    BY <1>1, <1>2, <1>5, FineTyped, Zenon DEF StreamPlace, GroupTrained
  <2>2. StreamPlace'
    BY <1>1, <1>4, <2>1 DEF StreamPlace
  <2> QED BY <1>1, <1>3, <1>4, <1>5, <2>2, Zenon DEF JobOK
<1>6. CASE ~streaming
  <2>1. \A n \in DOMAIN trained' : BatchTrained(n)'
    BY <1>1, <1>2, <1>6, FineTyped, Zenon DEF IndexPlace, BatchTrained
  <2>2. Len(trained') <= Epochs * EpochSteps
    <3>1. Len(trained) <= Epochs * EpochSteps /\ Epochs * EpochSteps \in Nat
      BY <1>6, FineTyped, JobConstants, TimesNext DEF IndexPlace
    <3>2. PICK m \in Nat : m = Epochs * EpochSteps
      BY <3>1
    <3> QED BY <1>2, <3>1, <3>2, FineTyped
  <2>3. IndexPlace'
    BY <1>1, <1>4, <2>1, <2>2 DEF IndexPlace
  <2> QED BY <1>1, <1>3, <1>4, <1>6, <2>3, Zenon DEF JobOK
<1> QED BY <1>5, <1>6

LEMMA NextJob == ASSUME Fine, [Next]_vars PROVE JobOK'
<1>1. CASE UNCHANGED vars
  <2>1. /\ streaming' = streaming /\ tpc' = tpc /\ epoch' = epoch /\ skip' = skip
        /\ seed' = seed /\ nth' = nth /\ stepped' = stepped /\ drawn' = drawn
        /\ trained' = trained /\ saved' = saved /\ kills' = kills
        /\ UNCHANGED streamVars /\ UNCHANGED indexVars
        /\ yielded' = yielded /\ ready' = ready
    BY <1>1 DEF vars, trainVars, streamVars
  <2>2. JobTypes' /\ Control' /\ Taken'
    BY <2>1, FineTyped, Zenon DEF JobTypes, Control, Taken
  <2>3. IndexReady' <=> IndexReady
    BY <2>1, SameIndex, Zenon
  <2>4. streaming => StreamPlace'
    BY <2>1, FineTyped, Zenon DEF StreamPlace, Fresh, Grouped, GroupTrained
  <2>5. ~streaming => IndexPlace'
    BY <2>1, <2>3, FineTyped, Zenon DEF IndexPlace, Fresh, BatchTrained
  <2> QED BY <2>1, <2>2, <2>4, <2>5, Zenon DEF JobOK
<1> QED
  BY <1>1, PrepareJob, ResumeJob, OpenEpochJob, DrawJob, SkipGroupJob, SkipFailsJob,
     ScatterJob, ScatterNoneJob, TrainShardJob, ShardOverJob, SaveJob, KillJob, Zenon
  DEF Next

LEMMA InitJob == Init => JobOK
<1> SUFFICES ASSUME Init PROVE JobOK
  OBVIOUS
<1>1. /\ yielded = << >> /\ ready = << >> /\ drawn = << >> /\ streaming \in BOOLEAN
      /\ tpc = "start" /\ epoch = 0 /\ skip = 0 /\ seed = 0 /\ nth = 0
      /\ stepped = FALSE /\ trained = << >> /\ saved = 0 /\ kills = 0
  BY DEF Init, StreamInit
<1>2. /\ << >> \in Seq(Seq(Samples)) /\ Len(<< >>) = 0 /\ DOMAIN << >> = {}
      /\ 0 <= WorldSize /\ 0 + 0 <= 0 /\ 0 \in 0..0 /\ 0 \in 0..Epochs /\ 0 \in Nat
      /\ \A j \in 1..0 : FALSE
  BY JobConstants
<1>3. JobTypes
  <2>1. IsSeq(<< >>)
    BY <1>2, Zenon DEF IsSeq
  <2> QED BY <1>1, <1>2, <2>1 DEF JobTypes
<1>4. Control
  BY <1>1, <1>2 DEF Control
<1>5. Taken
  BY <1>1, <1>2, Zenon DEF Taken
<1>6. Fresh
  BY <1>1, Zenon DEF Fresh
<1>7. StreamPlace
  BY <1>1, <1>2, <1>6 DEF StreamPlace
<1>8. IndexPlace
  <2>1. 0 <= Epochs * EpochSteps
    <3>1. PICK m \in Nat : m = Epochs * EpochSteps
      BY JobConstants, TimesNext
    <3> QED BY <3>1
  <2>2. Len(trained) <= Epochs * EpochSteps
    BY <1>1, <1>2, <2>1, Zenon
  <2> QED BY <1>1, <1>2, <1>6, <2>2 DEF IndexPlace
<1> QED BY <1>3, <1>4, <1>5, <1>7, <1>8, Zenon DEF JobOK

LEMMA StepOfIndex ==
    [Next]_vars => Indexing \/ IndexRestart \/ UNCHANGED indexVars
<1> SUFFICES ASSUME [Next]_vars
             PROVE  Indexing \/ IndexRestart \/ UNCHANGED indexVars
  OBVIOUS
<1>1. CASE UNCHANGED vars
  BY <1>1 DEF vars
<1>2. CASE Prepare
  BY <1>2 DEF Prepare
<1>3. CASE Resume \/ OpenEpoch \/ Draw \/ SkipGroup \/ SkipFails \/ Scatter
  BY <1>3 DEF Resume, OpenEpoch, Draw, SkipGroup, SkipFails, Scatter
<1>4. CASE ScatterNone \/ TrainShard \/ ShardOver \/ Save \/ Kill
  BY <1>4 DEF ScatterNone, TrainShard, ShardOver, Save, Kill
<1> QED BY <1>1, <1>2, <1>3, <1>4 DEF Next

(* The inductive invariant of the job.                                      *)
LEMMA JobInductive == Spec => []Fine
<1>1. Init => Fine
  <2> SUFFICES ASSUME Init PROVE Fine
    OBVIOUS
  <2>1. StreamInit /\ IndexInit
    BY DEF Init
  <2>2. IInv /\ AsReference
    BY <2>1, InitInv, InitReference
  <2>3. IndexOK
    BY <2>1, InitIndex
  <2>4. JobOK
    BY InitJob
  <2> QED BY <2>2, <2>3, <2>4, Zenon DEF Fine
<1>2. Fine /\ [Next]_vars => Fine'
  <2> SUFFICES ASSUME Fine, [Next]_vars PROVE Fine'
    OBVIOUS
  <2>1. IInv /\ AsReference /\ IndexOK
    BY Zenon DEF Fine
  <2>2. [StreamNext]_streamVars
    BY StepOfStream
  <2>3. IInv' /\ AsReference'
    BY <2>1, <2>2, NextInv, NextReference
  <2>4. IndexOK'
    BY <2>1, StepOfIndex, NextIndex
  <2>5. JobOK'
    BY NextJob
  <2> QED BY <2>3, <2>4, <2>5, Zenon DEF Fine
<1> QED BY <1>1, <1>2, PTL DEF Spec

-----------------------------------------------------------------------------
(* PackingDataset: whatever order the processes of the chunks run in, and   *)
(* however often the job is killed meanwhile, packed_idx is what each chunk *)
(* gives packed on its own, has every sample in one pack, and no pack of    *)
(* either data set has more than packing_length tokens.                     *)
THEOREM JobIndexWhole == Spec => []PackedIdxWhole
<1>1. Fine => PackedIdxWhole
  <2> SUFFICES ASSUME Fine PROVE PackedIdxWhole
    OBVIOUS
  <2>1. StreamTypeOK /\ IndexTypeOK
    BY Zenon DEF Fine, IInv, IndexOK
  <2>2. /\ tpc \in {"start", "open", "train", "done", "failed"}
        /\ epoch \in 0..Epochs /\ seed \in 0..Epochs /\ saved <= Len(trained)
        /\ Len(drawn) <= WorldSize
    BY FineTyped, Zenon DEF JobTypes, Taken
  <2>3. Packed(drawn) \subseteq Packed(yielded)
    <3> SUFFICES ASSUME NEW s \in Packed(drawn) PROVE s \in Packed(yielded)
      OBVIOUS
    <3>1. PICK j \in DOMAIN drawn : s \in Held(drawn[j])
      BY DEF Packed
    <3>2. DOMAIN drawn = 1..Len(drawn) /\ DOMAIN yielded = 1..Len(yielded)
      BY FineTyped, LenProperties
    <3>3. /\ Len(drawn) + Len(ready) <= Len(yielded)
          /\ drawn[j] = yielded[Len(yielded) - Len(ready) - Len(drawn) + j]
      BY <3>2, FineTyped, Zenon DEF Taken
    <3>4. Len(yielded) - Len(ready) - Len(drawn) + j \in DOMAIN yielded
      <4>1. /\ Len(yielded) \in Nat /\ Len(ready) \in Nat /\ Len(drawn) \in Nat
        BY FineTyped, LenProperties
      <4>2. j \in 1..Len(drawn) /\ Len(drawn) + Len(ready) <= Len(yielded)
        BY <3>1, <3>2, <3>3, Zenon
      <4>3. Len(yielded) - Len(ready) - Len(drawn) + j \in 1..Len(yielded)
        BY ONLY <4>1, <4>2
      <4> QED BY <3>2, <4>3, Zenon
    <3> QED BY <3>1, <3>3, <3>4, Zenon DEF Packed
  <2>4. TypeOK
    BY <2>1, <2>2, <2>3, Zenon DEF TypeOK
  <2>5. Fit(yielded)
    BY YieldedOfPass, Zenon DEF Fine
  <2>6. IndexReady => /\ PackedIdx = AllChunks /\ Fit(PackedIdx)
                      /\ Once(PackedIdx) /\ Packed(PackedIdx) = Samples
    BY AllChunksAre, IndexIsReady, Zenon DEF Fine
  <2> QED BY <2>4, <2>5, <2>6, Zenon DEF PackedIdxWhole
<1> QED BY <1>1, JobInductive, PTL

(* The training loop and skip_first_batches: over epochs, checkpoints,      *)
(* kills and resumptions, every step the weights stand for is made with the *)
(* packs, on the ranks, that the same step of a job never killed is made    *)
(* with, unless its loader was seeded for another epoch; and a job ends     *)
(* short only where it was resumed past the first pass of a stream.         *)
THEOREM JobAsUninterrupted == Spec => []SameAsUninterrupted
<1>1. Fine => SameAsUninterrupted
  <2> SUFFICES ASSUME Fine PROVE SameAsUninterrupted
    OBVIOUS
  <2>1. DOMAIN trained = 1..Len(trained)
    <3>1. IsSeq(trained)
      BY FineTyped, Zenon DEF JobTypes
    <3> QED BY <3>1, Appended, Zenon
  <2>2. ASSUME NEW n \in DOMAIN trained, streaming
        PROVE  trained[n].packs = Uninterrupted(n - 1)
    BY <2>2, FineTyped, Zenon DEF StreamPlace, GroupTrained, Group, Uninterrupted
  <2>3. ASSUME NEW n \in DOMAIN trained, ~streaming, IndexReady,
               trained[n].seed = trained[n].epoch
        PROVE  trained[n].packs = Uninterrupted(n - 1)
    <3>1. Batches = EpochSteps /\ PackedIdx = AllChunks
      BY <2>3, BatchesIs, Zenon
    <3>2. trained[n].packs = Batch((n - 1) \div EpochSteps, (n - 1) % EpochSteps)
      BY <2>3, FineTyped, Zenon DEF IndexPlace, BatchTrained
    <3>3. Uninterrupted(n - 1) = Shard((n - 1) \div Batches, (n - 1) % Batches)
      BY <2>3, Zenon DEF Uninterrupted
    <3> QED BY <3>1, <3>2, <3>3, Zenon DEF Shard, Batch
  <2>4. CASE streaming
    <3>1. EndedShort => kills > 0 /\ saved >= PassSteps
      <4>1. PICK m \in Nat : m = Epochs * PassSteps
        BY JobConstants, TimesNext
      <4>2. CASE tpc = "failed"
        BY <2>4, <4>2, FineTyped DEF StreamPlace
      <4>3. CASE tpc = "done" /\ Len(trained) < Epochs * PassSteps
        <5>1. \/ Len(trained) >= Epochs * PassSteps
              \/ kills > 0 /\ saved >= PassSteps
          BY <2>4, <4>3, FineTyped, Zenon DEF StreamPlace
        <5> QED BY <4>1, <4>3, <5>1, FineTyped
      <4> QED BY <2>4, <4>2, <4>3, Zenon DEF EndedShort
    <3> QED BY <2>2, <2>4, <3>1, Zenon DEF SameAsUninterrupted
  <2>5. CASE ~streaming
    <3>1. ~EndedShort
      <4>1. tpc # "failed"
        BY <2>5, FineTyped, Zenon DEF IndexPlace
      <4>2. ASSUME tpc = "done", Len(trained) < Epochs * Batches
            PROVE  FALSE
        <5>1. IndexReady /\ Len(trained) = Epochs * EpochSteps
          BY <2>5, <4>2, FineTyped DEF IndexPlace
        <5>2. Batches = EpochSteps
          BY <5>1, BatchesIs, Zenon
        <5>3. Len(trained) < Len(trained)
          BY <4>2, <5>1, <5>2, Zenon
        <5> QED BY <5>3, FineTyped
      <4> QED BY <2>5, <4>1, <4>2, Zenon DEF EndedShort
    <3> QED BY <2>3, <2>5, <3>1, Zenon DEF SameAsUninterrupted
  <2> QED BY <2>4, <2>5, Zenon
<1> QED BY <1>1, JobInductive, PTL
==============================================================================

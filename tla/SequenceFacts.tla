---------------------------- MODULE SequenceFacts ----------------------------
(* Facts about sequences that several proofs need: induction over a set of  *)
(* numbers, what FlattenSeq makes of a sequence of sequences.               *)
EXTENDS Integers, SequencesExt, Sublists, SequenceTheorems,
        WellFoundedInduction, TLAPS

(* A set of naturals has a least element, *)
LEMMA LeastElement ==
  ASSUME NEW S, S \subseteq Nat, S # {}
  PROVE  \E n \in S : \A m \in S : n <= m
  <1> DEFINE R == {ss \in Nat \X Nat : ss[1] < ss[2]}
  <1>1. IsWellFoundedOn(R, Nat)
    BY NatLessThanWellFounded DEF OpToRel
  <1>2. PICK n \in S : \A m \in S : <<m, n>> \notin R
    <2> HIDE DEF R
    <2> QED BY <1>1, WFMin
  <1>3. ASSUME NEW m \in S
        PROVE  n <= m
    <2>1. ~ (m < n)
      BY <1>2
    <2> QED BY <2>1
  <1> QED BY <1>3

(* so one that has 0 and the successors of its elements has them all.       *)
LEMMA SetInduction ==
  ASSUME NEW S, 0 \in S, \A n \in Nat : n \in S => n + 1 \in S
  PROVE  \A n \in Nat : n \in S
  <1>1. ASSUME Nat \ S # {}
        PROVE  FALSE
    <2>1. PICK n \in Nat \ S : \A m \in Nat \ S : n <= m
      BY <1>1, LeastElement
    <2>2. n - 1 \in Nat /\ ~ (n <= n - 1)
      BY <2>1
    <2>3. n - 1 \in S
      BY <2>1, <2>2
    <2> QED BY <2>1, <2>2, <2>3
  <1> QED BY <1>1

(* A recursion over the numbers up to n, each of whose steps is a function  *)
(* on a set of values, has a solution.                                      *)
Iterates(base, h, n, f) == f[0] = base /\ \A i \in 1..n : f[i] = h[i][f[i - 1]]

LEMMA IterateExists ==
  ASSUME NEW V, NEW base \in V, NEW n \in Nat, NEW h \in [1..n -> [V -> V]]
  PROVE  \E f \in [0..n -> V] : Iterates(base, h, n, f)
  <1> DEFINE Some(k) == \E f \in [0..k -> V] : Iterates(base, h, k, f)
             S == {k \in Nat : k <= n => Some(k)}
  <1>1. Some(0)
    <2> DEFINE f == [i \in 0..0 |-> base]
    <2>1. f \in [0..0 -> V] /\ Iterates(base, h, 0, f)
      BY DEF Iterates
    <2> QED BY <2>1
  <1>2. ASSUME NEW k \in Nat, k + 1 <= n, Some(k)
        PROVE  Some(k + 1)
    <2>1. PICK f \in [0..k -> V] : Iterates(base, h, k, f)
      BY <1>2
    <2>2. k + 1 \in 1..n /\ k \in 0..k /\ f[k] \in V
      BY <1>2, <2>1
    <2>3. PICK last \in V : last = h[k + 1][f[k]]
      BY <2>2
    <2> DEFINE g == [i \in 0..(k + 1) |-> IF i = k + 1 THEN last ELSE f[i]]
    <2>4. \A i \in 0..(k + 1) : i = k + 1 \/ (i # k + 1 /\ i \in 0..k)
      OBVIOUS
    <2>5. /\ g \in [0..(k + 1) -> V] /\ g[k + 1] = last
          /\ \A i \in 0..k : g[i] = f[i]
      BY <2>1, <2>4
    <2> HIDE DEF g
    <2>6. g[0] = base
      BY <2>1, <2>5 DEF Iterates
    <2>7. ASSUME NEW i \in 1..(k + 1)
          PROVE  g[i] = h[i][g[i - 1]]
      <3>1. i - 1 \in 0..k /\ g[i - 1] = f[i - 1]
        BY <2>5
      <3>2. CASE i = k + 1
        <4>1. i - 1 = k
          BY <3>2
        <4> QED BY <2>3, <2>5, <3>1, <3>2, <4>1
      <3>3. CASE i # k + 1
        <4>1. i \in 1..k /\ i \in 0..k
          BY <3>3
        <4>2. f[i] = h[i][f[i - 1]]
          BY <2>1, <4>1 DEF Iterates
        <4>3. g[i] = f[i]
          BY <2>5, <4>1
        <4> QED BY <3>1, <4>2, <4>3
      <3> QED BY <3>2, <3>3
    <2>8. Iterates(base, h, k + 1, g)
      BY <2>6, <2>7 DEF Iterates
    <2> QED BY <2>5, <2>8
  <1>3. n \in S
    <2>1. 0 \in S /\ \A k \in Nat : k \in S => k + 1 \in S
      <3> HIDE DEF Some
      <3> QED BY <1>1, <1>2
    <2> HIDE DEF S
    <2> QED BY <2>1, SetInduction
  <1> QED BY <1>3

(* The recursion of FlattenSeq has a solution.                              *)
Flattens(ss, n, f) ==
    /\ DOMAIN f = 1..n
    /\ \A i \in 1..n : f[i] = IF i = 1 THEN ss[i] ELSE f[i - 1] \o ss[i]

LEMMA FlattenExists ==
  ASSUME NEW ss, NEW n \in Nat
  PROVE  \E f : f = [i \in 1..n |-> f[i]] /\ Flattens(ss, n, f)
  <1> DEFINE Some(k) == \E f : f = [i \in 1..k |-> f[i]] /\ Flattens(ss, k, f)
             S == {k \in Nat : Some(k)}
  <1>1. Some(0)
    <2> DEFINE f == [i \in 1..0 |-> 0]
    <2>1. f = [i \in 1..0 |-> f[i]] /\ Flattens(ss, 0, f)
      BY DEF Flattens
    <2> QED BY <2>1
  <1>2. ASSUME NEW k \in Nat, Some(k)
        PROVE  Some(k + 1)
    <2>1. PICK f : Flattens(ss, k, f)
      BY <1>2
    <2> DEFINE last == IF k = 0 THEN ss[1] ELSE f[k] \o ss[k + 1]
               g == [i \in 1..(k + 1) |-> IF i = k + 1 THEN last ELSE f[i]]
    <2>2. /\ g[k + 1] = last
          /\ \A i \in 1..k : g[i] = f[i]
          /\ DOMAIN g = 1..(k + 1) /\ g = [i \in 1..(k + 1) |-> g[i]]
      <3> HIDE DEF last
      <3>1. k + 1 \in 1..(k + 1) /\ \A i \in 1..k : i \in 1..(k + 1) /\ i # k + 1
        OBVIOUS
      <3>2. g[k + 1] = last
        BY <3>1
      <3>3. \A i \in 1..k : g[i] = f[i]
        BY <3>1
      <3>4. DOMAIN g = 1..(k + 1) /\ g = [i \in 1..(k + 1) |-> g[i]]
        BY Zenon
      <3> QED BY <3>2, <3>3, <3>4
    <2> HIDE DEF g
    <2>3. ASSUME NEW i \in 1..(k + 1)
          PROVE  g[i] = IF i = 1 THEN ss[i] ELSE g[i - 1] \o ss[i]
      <3>1. CASE i = k + 1 /\ k = 0
        BY <2>2, <3>1
      <3>2. CASE i = k + 1 /\ k # 0
        <4>1. k \in 1..k /\ i - 1 = k /\ i # 1
          BY <3>2
        <4>2. g[i - 1] = f[k]
          BY <2>2, <4>1
        <4> QED BY <2>2, <3>2, <4>1, <4>2
      <3>3. CASE i # k + 1 /\ i = 1
        <4>1. i \in 1..k
          BY <3>3
        <4> QED BY <2>1, <2>2, <3>3, <4>1 DEF Flattens
      <3>4. CASE i # k + 1 /\ i # 1
        <4>1. i \in 1..k /\ i - 1 \in 1..k
          BY <3>4
        <4>2. g[i] = f[i] /\ g[i - 1] = f[i - 1]
          BY <2>2, <4>1
        <4>3. f[i] = f[i - 1] \o ss[i]
          BY <2>1, <3>4, <4>1 DEF Flattens
        <4> QED BY <3>4, <4>2, <4>3
      <3> QED BY <3>1, <3>2, <3>3, <3>4
    <2>4. Flattens(ss, k + 1, g)
      BY <2>2, <2>3 DEF Flattens
    <2> QED BY <2>2, <2>4
  <1>3. n \in S
    <2>1. 0 \in S /\ \A k \in Nat : k \in S => k + 1 \in S
      <3> HIDE DEF Some
      <3> QED BY <1>1, <1>2
    <2> HIDE DEF S
    <2> QED BY <2>1, SetInduction
  <1> QED BY <1>3

LEMMA FlattenDef ==
  ASSUME NEW ss, NEW n \in Nat \ {0}, Len(ss) = n
  PROVE  \E f : Flattens(ss, n, f) /\ FlattenSeq(ss) = f[n]
  <1> DEFINE Equation(f) == f = [i \in 1..n |->
                                  IF i = 1 THEN ss[i] ELSE f[i - 1] \o ss[i]]
             g == CHOOSE f : Equation(f)
  <1>1. FlattenSeq(ss) = g[n]
    BY DEF FlattenSeq
  <1>2. \A f : f = [i \in 1..n |-> f[i]] /\ Flattens(ss, n, f) => Equation(f)
    BY Zenon DEF Flattens
  <1>3. \E f : Equation(f)
    <2> HIDE DEF Equation
    <2> QED BY <1>2, FlattenExists
  <1>4. Equation(g)
    <2> HIDE DEF Equation
    <2> QED BY <1>3
  <1>5. \A f : Equation(f) => Flattens(ss, n, f)
    <2>1. ASSUME NEW f, Equation(f)
          PROVE  /\ DOMAIN f = 1..n
                 /\ \A i \in 1..n : f[i] = IF i = 1 THEN ss[i]
                                           ELSE f[i - 1] \o ss[i]
      BY <2>1, Zenon
    <2> QED BY <2>1 DEF Flattens
  <1>6. Flattens(ss, n, g)
    <2> HIDE DEF Equation, g
    <2> QED BY <1>4, <1>5
  <1> QED BY <1>1, <1>6

(* The places of two sequences in the one they make.                        *)
LEMMA ConcatPlaces ==
  ASSUME NEW T, NEW u \in Seq(T), NEW v \in Seq(T)
  PROVE  /\ u \o v \in Seq(T) /\ Len(u \o v) = Len(u) + Len(v)
         /\ \A x \in 1..Len(u) : (u \o v)[x] = u[x]
         /\ \A j \in 1..Len(v) : (u \o v)[Len(u) + j] = v[j]
  <1>1. Len(u) \in Nat /\ Len(v) \in Nat
    OBVIOUS
  <1>2. u \o v \in Seq(T) /\ Len(u \o v) = Len(u) + Len(v)
    OBVIOUS
  <1>3. ASSUME NEW x \in 1..(Len(u) + Len(v))
        PROVE  (u \o v)[x] = IF x <= Len(u) THEN u[x] ELSE v[x - Len(u)]
    BY ConcatProperties
  <1>4. \A x \in 1..Len(u) : (u \o v)[x] = u[x]
    BY <1>1, <1>3
  <1>5. ASSUME NEW j \in 1..Len(v)
        PROVE  (u \o v)[Len(u) + j] = v[j]
    <2> DEFINE x == Len(u) + j
    <2>1. x \in 1..(Len(u) + Len(v)) /\ ~ (x <= Len(u)) /\ x - Len(u) = j
      BY <1>1
    <2> HIDE DEF x
    <2>2. (u \o v)[x] = v[j]
      BY <1>3, <2>1
    <2> QED BY <2>2 DEF x
  <1> QED BY <1>2, <1>4, <1>5

(* Sums of the lengths of the first sequences: where each one ends.         *)
Ends(ss, n, b) ==
    /\ b \in [0..n -> Nat] /\ b[0] = 0
    /\ \A i \in 1..n : b[i] = b[i - 1] + Len(ss[i])

LEMMA WithinNext ==
  ASSUME NEW x \in Nat, NEW y \in Nat, NEW n \in Nat, y = x + n,
         NEW j \in 1..n
  PROVE  x + j \in 1..y
  OBVIOUS

(* FlattenSeq puts the sequences one after the other.                       *)
LEMMA FlattenPlaces ==
  ASSUME NEW n \in Nat \ {0}, NEW T, NEW ss \in Seq(Seq(T)), Len(ss) = n,
         NEW b, Ends(ss, n, b)
  PROVE  /\ FlattenSeq(ss) \in Seq(T) /\ Len(FlattenSeq(ss)) = b[n]
         /\ \A i \in 1..n, j \in Nat \ {0} :
                j <= Len(ss[i]) => /\ b[i - 1] + j \in 1..b[n]
                                   /\ FlattenSeq(ss)[b[i - 1] + j] = ss[i][j]
         /\ \A x \in 1..b[n] : \E i \in 1..n, j \in Nat \ {0} :
                j <= Len(ss[i]) /\ x = b[i - 1] + j
  <1> DEFINE Placed(k, s) ==
        /\ s \in Seq(T) /\ Len(s) = b[k]
        /\ \A i \in 1..k, j \in Nat \ {0} :
               j <= Len(ss[i]) => /\ b[i - 1] + j \in 1..b[k]
                                  /\ s[b[i - 1] + j] = ss[i][j]
        /\ \A x \in 1..b[k] : \E i \in 1..k, j \in Nat \ {0} :
               j <= Len(ss[i]) /\ x = b[i - 1] + j
  <1>1. PICK f : Flattens(ss, n, f) /\ FlattenSeq(ss) = f[n]
    BY FlattenDef
  <1> DEFINE S == {k \in Nat : k + 1 \in 1..n => Placed(k + 1, f[k + 1])}
  <1>2. \A i \in 1..n : /\ ss[i] \in Seq(T) /\ Len(ss[i]) \in Nat
                        /\ b[i] \in Nat /\ b[i - 1] \in Nat
                        /\ b[i] = b[i - 1] + Len(ss[i])
    BY DEF Ends
  <1>3. Placed(1, f[1])
    <2>1. f[1] = ss[1] /\ b[0] = 0 /\ 1 \in 1..n
      BY <1>1 DEF Flattens, Ends
    <2>2. b[1] = Len(ss[1]) /\ ss[1] \in Seq(T) /\ Len(ss[1]) \in Nat
      BY <1>2, <2>1
    <2>3. ASSUME NEW i \in 1..1, NEW j \in Nat \ {0}, j <= Len(ss[i])
          PROVE  b[i - 1] + j \in 1..b[1] /\ ss[1][b[i - 1] + j] = ss[i][j]
      <3>1. i = 1 /\ i - 1 = 0 /\ b[i - 1] + j = j
        BY <2>1
      <3> QED BY <2>2, <2>3, <3>1
    <2>4. ASSUME NEW x \in 1..b[1]
          PROVE  \E i \in 1..1, j \in Nat \ {0} :
                     j <= Len(ss[i]) /\ x = b[i - 1] + j
      <3>1. 1 \in 1..1 /\ 1 - 1 = 0 /\ x \in Nat \ {0} /\ x <= Len(ss[1])
            /\ x = b[1 - 1] + x
        BY <2>1, <2>2
      <3> QED BY <3>1
    <2> QED BY <2>1, <2>2, <2>3, <2>4
  <1>4. ASSUME NEW k \in Nat \ {0}, k + 1 \in 1..n, Placed(k, f[k])
        PROVE  Placed(k + 1, f[k + 1])
    <2> DEFINE m == k + 1
               t == f[m]
    <2>1. /\ m \in 1..n /\ m - 1 = k /\ k \in 1..n /\ m # 1
      BY <1>4
    <2>2. t = f[k] \o ss[m]
      BY <1>1, <2>1 DEF Flattens
    <2>3. /\ f[k] \in Seq(T) /\ Len(f[k]) = b[k] /\ b[k] \in Nat
          /\ ss[m] \in Seq(T) /\ Len(ss[m]) \in Nat
          /\ b[m] = b[k] + Len(ss[m]) /\ b[m] \in Nat
      BY <1>2, <1>4, <2>1
    <2> HIDE DEF m, t
    <2>4. /\ t \in Seq(T) /\ Len(t) = b[m]
          /\ \A x \in 1..b[k] : t[x] = f[k][x]
          /\ \A j \in 1..Len(ss[m]) : t[b[k] + j] = ss[m][j]
      <3>1. PICK u \in Seq(T), v \in Seq(T) : u = f[k] /\ v = ss[m]
        BY <2>3
      <3>2. /\ t \in Seq(T) /\ Len(t) = Len(u) + Len(v)
            /\ \A x \in 1..Len(u) : t[x] = u[x]
            /\ \A j \in 1..Len(v) : t[Len(u) + j] = v[j]
        <4>1. t = u \o v
          BY <2>2, <3>1
        <4> QED BY <4>1, ConcatPlaces
      <3> QED BY <2>3, <3>1, <3>2
    <2>5. ASSUME NEW i \in 1..m, NEW j \in Nat \ {0}, j <= Len(ss[i])
          PROVE  b[i - 1] + j \in 1..b[m] /\ t[b[i - 1] + j] = ss[i][j]
      <3>1. CASE i = m
        <4>1. j \in 1..Len(ss[m]) /\ i - 1 = k
          BY <2>1, <2>3, <2>5, <3>1
        <4>2. b[i - 1] + j = b[k] + j
          BY <4>1
        <4>3. b[k] + j \in 1..b[m]
          BY <2>3, <4>1, WithinNext
        <4>4. t[b[k] + j] = ss[m][j]
          BY <2>4, <4>1
        <4> QED BY <3>1, <4>2, <4>3, <4>4, Zenon
      <3>2. CASE i # m
        <4>1. i \in 1..k
          BY <2>1, <3>2
        <4>2. b[i - 1] + j \in 1..b[k] /\ f[k][b[i - 1] + j] = ss[i][j]
          BY <1>4, <2>5, <4>1
        <4>3. b[i - 1] + j \in Int /\ b[k] <= b[m]
          BY <2>3, <4>2
        <4>4. b[i - 1] + j \in 1..b[m]
          BY <2>3, <4>2, <4>3
        <4>5. t[b[i - 1] + j] = f[k][b[i - 1] + j]
          <5> DEFINE x == b[i - 1] + j
          <5>1. x \in 1..b[k]
            BY <4>2
          <5> HIDE DEF x
          <5>2. t[x] = f[k][x]
            BY <2>4, <5>1, Zenon
          <5> QED BY <5>2 DEF x
        <4> QED BY <4>2, <4>4, <4>5, Zenon
      <3> QED BY <3>1, <3>2
    <2>6. ASSUME NEW x \in 1..b[m]
          PROVE  \E i \in 1..m, j \in Nat \ {0} :
                     j <= Len(ss[i]) /\ x = b[i - 1] + j
      <3>1. CASE x <= b[k]
        <4>1. x \in 1..b[k]
          BY <2>3, <3>1
        <4>2. PICK i \in 1..k, j \in Nat \ {0} :
                  j <= Len(ss[i]) /\ x = b[i - 1] + j
          BY <1>4, <4>1
        <4>3. i \in 1..m
          BY <2>1
        <4> QED BY <4>2, <4>3
      <3>2. CASE ~ (x <= b[k])
        <4> DEFINE y == x - b[k]
        <4>1. y \in Nat \ {0} /\ y <= Len(ss[m]) /\ x = b[k] + y
          <5>1. x \in Nat /\ b[m] \in Nat /\ x <= b[m] /\ b[k] \in Nat
                /\ b[m] = b[k] + Len(ss[m]) /\ Len(ss[m]) \in Nat
            BY <2>3
          <5> QED BY <3>2, <5>1
        <4> HIDE DEF y
        <4>2. x = b[m - 1] + y /\ m \in 1..m
          BY <2>1, <4>1
        <4> QED BY <4>1, <4>2
      <3> QED BY <3>1, <3>2
    <2>7. Placed(m, t)
      BY <2>4, <2>5, <2>6
    <2> QED BY <2>7 DEF m, t
  <1>5. Placed(n, f[n])
    <2> HIDE DEF Placed
    <2>1. 0 \in S
      BY <1>3
    <2>2. ASSUME NEW k \in Nat, k \in S
          PROVE  k + 1 \in S
      <3>1. k + 1 \in Nat \ {0}
        OBVIOUS
      <3>2. CASE k + 2 \in 1..n
        <4>1. k + 1 \in 1..n /\ (k + 1) + 1 \in 1..n
          BY <3>2
        <4>2. Placed(k + 1, f[k + 1])
          BY <2>2, <4>1
        <4>3. Placed((k + 1) + 1, f[(k + 1) + 1])
          BY <1>4, <3>1, <4>1, <4>2
        <4> QED BY <4>3
      <3>3. CASE ~ (k + 2 \in 1..n)
        BY <3>3
      <3> QED BY <3>2, <3>3
    <2>3. n - 1 \in S
      <3> HIDE DEF S
      <3>1. \A k \in Nat : k \in S
        BY <2>1, <2>2, SetInduction
      <3>2. n - 1 \in Nat
        OBVIOUS
      <3> QED BY <3>1, <3>2
    <2>4. (n - 1) + 1 = n /\ n \in 1..n
      OBVIOUS
    <2> QED BY <2>3, <2>4
  <1> QED BY <1>1, <1>5

(* The slice of FlattenSeq that one of the sequences takes is that one.     *)
LEMMA SliceOfFlat ==
  ASSUME NEW n \in Nat \ {0}, NEW T, NEW ss \in Seq(Seq(T)), Len(ss) = n,
         NEW b, Ends(ss, n, b), NEW r \in 1..n
  PROVE  SubSeq(FlattenSeq(ss), b[r - 1] + 1, b[r - 1] + Len(ss[r])) = ss[r]
  <1> DEFINE all == FlattenSeq(ss)
             a == b[r - 1]
             own == ss[r]
             slice == SubSeq(all, a + 1, a + Len(own))
  <1>1. /\ all \in Seq(T) /\ Len(all) = b[n]
        /\ \A i \in 1..n, j \in Nat \ {0} :
               j <= Len(ss[i]) => /\ b[i - 1] + j \in 1..b[n]
                                  /\ all[b[i - 1] + j] = ss[i][j]
    BY FlattenPlaces
  <1>2. a \in Nat /\ own \in Seq(T) /\ Len(own) \in Nat
    BY DEF Ends
  <1>3. ASSUME NEW j \in 1..Len(own)
        PROVE  a + j \in 1..Len(all) /\ all[a + j] = own[j]
    <2>1. j \in Nat \ {0} /\ j <= Len(ss[r])
      BY <1>2
    <2> QED BY <1>1, <2>1, Zenon
  <1> HIDE DEF all, a, own
  <1>4. ASSUME NEW x \in (a + 1)..(a + Len(own))
        PROVE  all[x] \in T
    <2>1. x - a \in 1..Len(own) /\ a + (x - a) = x
      BY <1>2
    <2>2. x \in 1..Len(all)
      BY <1>3, <2>1
    <2> QED BY <1>1, <2>2
  <1>5. /\ slice \in Seq(T) /\ Len(slice) = Len(own)
        /\ \A j \in 1..Len(own) : slice[j] = all[a + j]
    <2>1. PICK x \in Int, y \in Int : x = a + 1 /\ y = a + Len(own)
      BY <1>2
    <2>2. \A i \in x..y : all[i] \in T
      BY <1>4, <2>1
    <2>3. /\ SubSeq(all, x, y) \in Seq(T)
          /\ Len(SubSeq(all, x, y)) = IF x <= y THEN y - x + 1 ELSE 0
          /\ \A i \in 1..(y - x + 1) : SubSeq(all, x, y)[i] = all[x + i - 1]
      BY <2>2, SubSeqProperties
    <2>4. y - x + 1 = Len(own) /\ (x <= y <=> Len(own) > 0)
      BY <1>2, <2>1
    <2>5. \A j \in 1..Len(own) : x + j - 1 = a + j
      BY <1>2, <2>1
    <2> QED BY <1>2, <2>1, <2>3, <2>4, <2>5
  <1> HIDE DEF slice
  <1>6. \A j \in 1..Len(own) : slice[j] = own[j]
    BY <1>3, <1>5
  <1>7. slice = own
    BY <1>2, <1>5, <1>6, SeqEqual
  <1> QED BY <1>7 DEF slice, all, a, own

(* The recursion of Those, and that it is one.                              *)
Sifts(s, S, n, f) ==
    /\ f[0] = << >>
    /\ \A i \in 1..n : f[i] = IF s[i] \in S THEN Append(f[i - 1], s[i])
                              ELSE f[i - 1]

LEMMA ThoseDef ==
  ASSUME NEW T, NEW s \in Seq(T), NEW S
  PROVE  \E f \in [0..Len(s) -> Seq(T)] :
             Sifts(s, S, Len(s), f) /\ Those(s, S) = f[Len(s)]
  <1> DEFINE n == Len(s)
             Step(u, i) == IF s[i] \in S THEN Append(u, s[i]) ELSE u
             Equation(f) == f = [i \in 0..n |-> IF i = 0 THEN << >>
                                    ELSE IF s[i] \in S
                                    THEN Append(f[i - 1], s[i]) ELSE f[i - 1]]
             those == CHOOSE f : Equation(f)
             V == Seq(T)
             h == [i \in 1..n |-> [u \in V |-> Step(u, i)]]
  <1>1. Those(s, S) = those[n]
    BY DEF Those
  <1>2. n \in Nat /\ << >> \in V /\ 0 \in 0..n /\ n \in 0..n
    OBVIOUS
  <1>3. \A i \in 1..n, u \in V : Step(u, i) \in V
    OBVIOUS
  <1>4. \A i \in 1..n, u \in V : h[i][u] = Step(u, i)
    BY Zenon
  <1>5. h \in [1..n -> [V -> V]]
    <2> HIDE DEF Step, V
    <2> QED BY <1>3
  <1>6. PICK f \in [0..n -> V] : Iterates(<< >>, h, n, f)
    <2> HIDE DEF h, V
    <2> QED BY <1>2, <1>5, IterateExists
  <1>7. \A i \in 1..n : i \in 0..n /\ i # 0 /\ i - 1 \in 0..n
    OBVIOUS
  <1>8. Equation(f)
    <2>1. f[0] = << >>
      BY <1>6 DEF Iterates
    <2>2. ASSUME NEW i \in 1..n
          PROVE  f[i] = Step(f[i - 1], i)
      <3>1. f[i] = h[i][f[i - 1]]
        BY <1>6 DEF Iterates
      <3>2. f[i - 1] \in V
        BY <1>6, <1>7
      <3> QED BY <1>4, <3>1, <3>2, Zenon
    <2>3. \A i \in 0..n : f[i] = IF i = 0 THEN << >> ELSE Step(f[i - 1], i)
      <3> HIDE DEF Step
      <3>1. \A i \in 0..n : i = 0 \/ (i # 0 /\ i \in 1..n)
        BY <1>2
      <3> QED BY <2>1, <2>2, <3>1, Zenon
    <2>4. f = [i \in 0..n |-> f[i]]
      BY <1>6
    <2>5. f = [i \in 0..n |-> IF i = 0 THEN << >> ELSE Step(f[i - 1], i)]
      <3> HIDE DEF Step
      <3> QED BY <2>3, <2>4, Zenon
    <2> QED BY <2>5
  <1>9. Equation(those)
    <2> HIDE DEF Equation
    <2> QED BY <1>8
  <1>10. /\ those[0] = << >>
         /\ \A i \in 1..n : those[i] = Step(those[i - 1], i)
    <2>1. \A i \in 0..n : those[i] = IF i = 0 THEN << >>
                                     ELSE Step(those[i - 1], i)
      <3> HIDE DEF those
      <3> QED BY <1>9, Zenon
    <2> HIDE DEF those, Step
    <2> QED BY <1>2, <1>7, <2>1
  <1>11. those = [i \in 0..n |-> those[i]]
    <2> HIDE DEF those
    <2> QED BY <1>9, Zenon
  <1> HIDE DEF those, V
  <1> DEFINE K == {k \in Nat : k <= n => those[k] \in V}
  <1>12. 0 \in K
    BY <1>2, <1>10
  <1>13. ASSUME NEW k \in Nat, k \in K
         PROVE  k + 1 \in K
    <2> HIDE DEF Step
    <2>1. CASE k + 1 <= n
      <3>1. k + 1 \in 1..n /\ (k + 1) - 1 = k /\ those[k] \in V
        BY <1>2, <1>13, <2>1
      <3>2. those[k + 1] = Step(those[(k + 1) - 1], k + 1)
        BY <1>10, <3>1
      <3>3. Step(those[k], k + 1) \in V
        BY <1>3, <3>1
      <3>4. those[k + 1] \in V
        BY <3>1, <3>2, <3>3, Zenon
      <3> QED BY <3>4
    <2> QED BY <2>1
  <1>14. \A k \in 0..n : those[k] \in V
    <2> HIDE DEF K
    <2>1. \A k \in Nat : k \in K
      BY <1>12, <1>13, SetInduction
    <2> QED BY <2>1 DEF K
  <1>15. those \in [0..n -> V]
    BY <1>11, <1>14
  <1> QED BY <1>1, <1>10, <1>15 DEF Sifts, V

LEMMA SiftsSame ==
  ASSUME NEW s, NEW t, NEW S, NEW n \in Nat, NEW f, NEW g,
         Sifts(s, S, n, f), Sifts(t, S, n, g), \A i \in 1..n : s[i] = t[i]
  PROVE  f[n] = g[n]
  <1> DEFINE K == {k \in Nat : k <= n => f[k] = g[k]}
  <1>1. 0 \in K
    BY DEF Sifts
  <1>2. ASSUME NEW k \in Nat, k \in K
        PROVE  k + 1 \in K
    <2>1. CASE k + 1 <= n
      <3>1. k + 1 \in 1..n /\ (k + 1) - 1 = k /\ f[k] = g[k]
        BY <1>2, <2>1
      <3>2. /\ f[k + 1] = IF s[k + 1] \in S THEN Append(f[k], s[k + 1]) ELSE f[k]
            /\ g[k + 1] = IF t[k + 1] \in S THEN Append(g[k], t[k + 1]) ELSE g[k]
            /\ s[k + 1] = t[k + 1]
        BY <3>1 DEF Sifts
      <3>3. f[k + 1] = g[k + 1]
        <4>1. CASE s[k + 1] \in S
          BY <3>1, <3>2, <4>1
        <4>2. CASE s[k + 1] \notin S
          BY <3>1, <3>2, <4>2
        <4> QED BY <4>1, <4>2
      <3> QED BY <3>3
    <2> QED BY <2>1
  <1>3. n \in K
    <2> HIDE DEF K
    <2> QED BY <1>1, <1>2, SetInduction
  <1> QED BY <1>3

(* Those of nothing, of one more element, and of two sequences.             *)
LEMMA ThoseEmpty == ASSUME NEW S PROVE Those(<< >>, S) = << >>
  <1>1. PICK T : T = {0}
    OBVIOUS
  <1>2. PICK s \in Seq(T) : s = << >>
    <2>1. << >> \in Seq(T)
      OBVIOUS
    <2> QED BY <2>1, Zenon
  <1>3. PICK f \in [0..Len(s) -> Seq(T)] :
            Sifts(s, S, Len(s), f) /\ Those(s, S) = f[Len(s)]
    BY ThoseDef
  <1>4. Len(s) = 0
    BY <1>2
  <1>5. f[0] = << >>
    BY <1>3, <1>4 DEF Sifts
  <1> QED BY <1>2, <1>3, <1>4, <1>5, Zenon

LEMMA ThoseAppend ==
  ASSUME NEW T, NEW s \in Seq(T), NEW x \in T, NEW S
  PROVE  Those(Append(s, x), S) = IF x \in S THEN Append(Those(s, S), x)
                                  ELSE Those(s, S)
  <1>1. PICK t \in Seq(T) : t = Append(s, x)
    <2>1. Append(s, x) \in Seq(T)
      OBVIOUS
    <2> QED BY <2>1, Zenon
  <1>2. PICK n \in Nat : n = Len(s) /\ Len(t) = n + 1
    BY <1>1
  <1>3. PICK f : Sifts(s, S, n, f) /\ Those(s, S) = f[n]
    BY <1>2, ThoseDef
  <1>4. PICK g : Sifts(t, S, n + 1, g) /\ Those(t, S) = g[n + 1]
    BY <1>2, ThoseDef
  <1>5. t[n + 1] = x /\ \A i \in 1..n : s[i] = t[i]
    BY <1>1, <1>2
  <1>6. Sifts(t, S, n, g)
    BY <1>4 DEF Sifts
  <1>7. f[n] = g[n]
    BY <1>3, <1>5, <1>6, SiftsSame
  <1>8. g[n + 1] = IF t[n + 1] \in S THEN Append(g[(n + 1) - 1], t[n + 1])
                   ELSE g[(n + 1) - 1]
    BY <1>4 DEF Sifts
  <1>9. (n + 1) - 1 = n
    OBVIOUS
  <1> QED BY <1>1, <1>3, <1>4, <1>5, <1>7, <1>8, <1>9, Zenon

LEMMA ThoseType ==
  ASSUME NEW T, NEW s \in Seq(T), NEW S
  PROVE  Those(s, S) \in Seq(T)
  <1>1. PICK f \in [0..Len(s) -> Seq(T)] : Those(s, S) = f[Len(s)]
    BY ThoseDef
  <1> QED BY <1>1

(* Sequences are made of the empty one by appending.                        *)
LEMMA SeqInduction ==
  ASSUME NEW T, NEW P, << >> \in P,
         \A s \in Seq(T), x \in T : s \in P => Append(s, x) \in P
  PROVE  \A s \in Seq(T) : s \in P
  <1> DEFINE K == {k \in Nat : \A s \in Seq(T) : Len(s) = k => s \in P}
  <1>1. 0 \in K
    <2>1. \A s \in Seq(T) : Len(s) = 0 => s = << >>
      OBVIOUS
    <2> QED BY <2>1
  <1>2. ASSUME NEW k \in Nat, k \in K
        PROVE  k + 1 \in K
    <2>1. ASSUME NEW s \in Seq(T), Len(s) = k + 1
          PROVE  s \in P
      <3>1. PICK u \in Seq(T), x \in T : s = Append(u, x) /\ Len(u) = k
        <4> DEFINE u == [i \in 1..k |-> s[i]]
        <4>1. u \in Seq(T) /\ Len(u) = k
          BY <2>1
        <4>2. k + 1 \in 1..Len(s) /\ s[k + 1] \in T
          BY <2>1
        <4>3. Append(u, s[k + 1]) \in Seq(T) /\ Len(Append(u, s[k + 1])) = k + 1
          BY <4>1, <4>2
        <4>4. \A i \in 1..(k + 1) : Append(u, s[k + 1])[i] = s[i]
          BY <4>1, <4>2
        <4>5. s = Append(u, s[k + 1])
          BY <2>1, <4>3, <4>4, SeqEqual
        <4> QED BY <4>1, <4>2, <4>5
      <3>2. u \in P
        BY <1>2, <3>1
      <3> QED BY <3>1, <3>2
    <2> QED BY <2>1
  <1>3. \A k \in Nat : k \in K
    <2> HIDE DEF K
    <2> QED BY <1>1, <1>2, SetInduction
  <1>4. \A s \in Seq(T) : Len(s) \in Nat
    OBVIOUS
  <1> QED BY <1>3, <1>4

LEMMA ThoseConcat ==
  ASSUME NEW T, NEW S
  PROVE  \A s \in Seq(T), t \in Seq(T) :
             Those(s \o t, S) = Those(s, S) \o Those(t, S)
  <1> SUFFICES ASSUME NEW s \in Seq(T)
               PROVE  \A t \in Seq(T) :
                          Those(s \o t, S) = Those(s, S) \o Those(t, S)
    OBVIOUS
  <1> DEFINE P == {t \in Seq(T) : Those(s \o t, S) = Those(s, S) \o Those(t, S)}
  <1>1. << >> \in P
    <2>1. Those(s, S) \in Seq(T)
      BY ThoseType
    <2>2. s \o << >> = s /\ Those(s, S) \o << >> = Those(s, S) /\ << >> \in Seq(T)
      BY <2>1
    <2> QED BY <2>2, ThoseEmpty
  <1>2. ASSUME NEW t \in Seq(T), NEW x \in T, t \in P
        PROVE  Append(t, x) \in P
    <2>1. PICK u \in Seq(T) : u = s \o t
      <3>1. s \o t \in Seq(T)
        OBVIOUS
      <3> QED BY <3>1, Zenon
    <2>2. s \o Append(t, x) = Append(u, x) /\ Append(t, x) \in Seq(T)
      BY <2>1
    <2>3. PICK a \in Seq(T), b \in Seq(T) : a = Those(s, S) /\ b = Those(t, S)
      BY ThoseType
    <2>4. Those(u, S) = a \o b
      BY <1>2, <2>1, <2>3
    <2>5. a \o Append(b, x) = Append(a \o b, x)
      OBVIOUS
    <2>6. /\ Those(Append(u, x), S) = IF x \in S THEN Append(Those(u, S), x)
                                      ELSE Those(u, S)
          /\ Those(Append(t, x), S) = IF x \in S THEN Append(Those(t, S), x)
                                      ELSE Those(t, S)
      BY ThoseAppend
    <2>7. Those(s \o Append(t, x), S) = Those(s, S) \o Those(Append(t, x), S)
      BY <2>2, <2>3, <2>4, <2>5, <2>6, Zenon
    <2> QED BY <2>2, <2>7
  <1>3. \A t \in Seq(T) : t \in P
    <2> HIDE DEF P
    <2> QED BY <1>1, <1>2, SeqInduction
  <1> QED BY <1>3

(* If all are in the set they are kept, if none is they are not.            *)
LEMMA ThoseAll ==
  ASSUME NEW T, NEW S, T \subseteq S
  PROVE  \A s \in Seq(T) : Those(s, S) = s
  <1> DEFINE P == {s \in Seq(T) : Those(s, S) = s}
  <1>1. << >> \in P
    BY ThoseEmpty
  <1>2. ASSUME NEW s \in Seq(T), NEW x \in T, s \in P
        PROVE  Append(s, x) \in P
    <2>1. Those(Append(s, x), S) = IF x \in S THEN Append(Those(s, S), x)
                                   ELSE Those(s, S)
      BY ThoseAppend
    <2> QED BY <1>2, <2>1
  <1>3. \A s \in Seq(T) : s \in P
    <2> HIDE DEF P
    <2> QED BY <1>1, <1>2, SeqInduction
  <1> QED BY <1>3

LEMMA ThoseNone ==
  ASSUME NEW T, NEW S, T \cap S = {}
  PROVE  \A s \in Seq(T) : Those(s, S) = << >>
  <1> DEFINE P == {s \in Seq(T) : Those(s, S) = << >>}
  <1>1. << >> \in P
    BY ThoseEmpty
  <1>2. ASSUME NEW s \in Seq(T), NEW x \in T, s \in P
        PROVE  Append(s, x) \in P
    <2>1. Those(Append(s, x), S) = IF x \in S THEN Append(Those(s, S), x)
                                   ELSE Those(s, S)
      BY ThoseAppend
    <2> QED BY <1>2, <2>1
  <1>3. \A s \in Seq(T) : s \in P
    <2> HIDE DEF P
    <2> QED BY <1>1, <1>2, SeqInduction
  <1> QED BY <1>3

(* What FlattenSeq makes of nothing, of one more sequence, and of a last    *)
(* one that is longer.                                                      *)
LEMMA FlattenEmpty == FlattenSeq(<< >>) = << >>
  <1>1. Len(<< >>) = 0
    OBVIOUS
  <1> QED BY <1>1 DEF FlattenSeq

LEMMA FlattensSame ==
  ASSUME NEW ss, NEW tt, NEW n \in Nat \ {0}, NEW f, NEW g,
         Flattens(ss, n, f), Flattens(tt, n, g), \A i \in 1..n : ss[i] = tt[i]
  PROVE  f[n] = g[n]
  <1> DEFINE K == {k \in Nat : k + 1 <= n => f[k + 1] = g[k + 1]}
  <1>1. 0 \in K
    <2>1. 1 \in 1..n
      OBVIOUS
    <2>2. f[1] = ss[1] /\ g[1] = tt[1] /\ ss[1] = tt[1]
      BY <2>1 DEF Flattens
    <2> QED BY <2>2
  <1>2. ASSUME NEW k \in Nat, k \in K
        PROVE  k + 1 \in K
    <2>1. CASE (k + 1) + 1 <= n
      <3>1. PICK m \in 1..n : m = (k + 1) + 1 /\ m - 1 = k + 1 /\ m # 1
        BY <2>1
      <3>2. f[m - 1] = g[m - 1]
        BY <1>2, <2>1, <3>1
      <3>3. f[m] = f[m - 1] \o ss[m] /\ g[m] = g[m - 1] \o tt[m]
        BY <3>1 DEF Flattens
      <3>4. ss[m] = tt[m]
        OBVIOUS
      <3>5. f[m] = g[m]
        BY <3>2, <3>3, <3>4, Zenon
      <3> QED BY <3>1, <3>5
    <2> QED BY <2>1
  <1>3. n - 1 \in K
    <2>1. \A k \in Nat : k \in K
      <3> HIDE DEF K
      <3> QED BY <1>1, <1>2, SetInduction
    <2> HIDE DEF K
    <2> QED BY <2>1
  <1> QED BY <1>3

LEMMA FlattenOne == ASSUME NEW s PROVE FlattenSeq(<<s>>) = s
  <1>1. PICK ss : ss = <<s>>
    OBVIOUS
  <1>2. Len(ss) = 1 /\ ss[1] = s /\ 1 \in 1..1 /\ 1 \in Nat \ {0}
    BY <1>1
  <1> HIDE <1>1
  <1>3. PICK f : Flattens(ss, 1, f) /\ FlattenSeq(ss) = f[1]
    BY <1>2, FlattenDef
  <1>4. f[1] = ss[1]
    BY <1>2, <1>3 DEF Flattens
  <1> QED BY <1>1, <1>2, <1>3, <1>4, Zenon

LEMMA FlattenType ==
  ASSUME NEW T, NEW ss \in Seq(Seq(T))
  PROVE  FlattenSeq(ss) \in Seq(T)
  <1>1. CASE ss = << >>
    <2>1. FlattenSeq(ss) = << >>
      BY <1>1, FlattenEmpty, Zenon
    <2>2. << >> \in Seq(T)
      OBVIOUS
    <2> QED BY <2>1, <2>2, Zenon
  <1>2. CASE ss # << >>
    <2>1. PICK n \in Nat \ {0} : n = Len(ss)
      BY <1>2
    <2>2. PICK f : Flattens(ss, n, f) /\ FlattenSeq(ss) = f[n]
      BY <2>1, FlattenDef
    <2> DEFINE K == {k \in Nat : k + 1 <= n => f[k + 1] \in Seq(T)}
    <2>3. 0 \in K
      <3>1. 1 \in 1..n /\ ss[1] \in Seq(T)
        BY <2>1
      <3>2. f[1] = ss[1]
        BY <2>2, <3>1 DEF Flattens
      <3> QED BY <3>1, <3>2
    <2>4. ASSUME NEW k \in Nat, k \in K
          PROVE  k + 1 \in K
      <3>1. CASE (k + 1) + 1 <= n
        <4>1. PICK m \in 1..n : m = (k + 1) + 1 /\ m - 1 = k + 1 /\ m # 1
          BY <3>1
        <4>2. f[m - 1] \in Seq(T) /\ ss[m] \in Seq(T)
          BY <2>1, <2>4, <3>1, <4>1
        <4>3. f[m] = f[m - 1] \o ss[m]
          BY <2>2, <4>1 DEF Flattens
        <4>4. f[m] \in Seq(T)
          BY <4>2, <4>3
        <4> QED BY <4>1, <4>4
      <3> QED BY <3>1
    <2>5. n - 1 \in K
      <3>1. \A k \in Nat : k \in K
        <4> HIDE DEF K
        <4> QED BY <2>3, <2>4, SetInduction
      <3> HIDE DEF K
      <3> QED BY <3>1
    <2> QED BY <2>2, <2>5
  <1> QED BY <1>1, <1>2

LEMMA FlattenAppend ==
  ASSUME NEW T, NEW ss \in Seq(Seq(T)), NEW s \in Seq(T)
  PROVE  FlattenSeq(Append(ss, s)) = FlattenSeq(ss) \o s
  <1>1. CASE ss = << >>
    <2>1. Append(ss, s) = <<s>> /\ << >> \o s = s
      BY <1>1
    <2> QED BY <1>1, <2>1, FlattenEmpty, FlattenOne, Zenon
  <1>2. CASE ss # << >>
    <2>1. PICK k \in Nat \ {0} : k = Len(ss)
      BY <1>2
    <2>2. PICK n \in Nat \ {0} : n = k + 1 /\ n - 1 = k /\ n # 1
      <3>1. k + 1 \in Nat \ {0} /\ (k + 1) - 1 = k /\ k + 1 # 1
        OBVIOUS
      <3> QED BY <3>1
    <2>3. PICK tt \in Seq(Seq(T)) : tt = Append(ss, s)
      <3>1. Append(ss, s) \in Seq(Seq(T))
        OBVIOUS
      <3> QED BY <3>1, Zenon
    <2>4. Len(tt) = n /\ tt[n] = s /\ \A i \in 1..k : tt[i] = ss[i]
      BY <2>1, <2>2, <2>3
    <2>5. PICK f : Flattens(ss, k, f) /\ FlattenSeq(ss) = f[k]
      BY <2>1, FlattenDef
    <2>6. PICK g : Flattens(tt, n, g) /\ FlattenSeq(tt) = g[n]
      BY <2>4, FlattenDef
    <2>7. n \in 1..n /\ 1..k \subseteq 1..n /\ k \in 1..k
      BY <2>2
    <2>8. g[n] = g[k] \o tt[n]
      BY <2>2, <2>6, <2>7 DEF Flattens
    <2> DEFINE h == [i \in 1..k |-> g[i]]
    <2>9. DOMAIN h = 1..k /\ \A i \in 1..k : h[i] = g[i]
      OBVIOUS
    <2> HIDE DEF h
    <2>10. Flattens(tt, k, h)
      <3>1. ASSUME NEW i \in 1..k
            PROVE  h[i] = IF i = 1 THEN tt[i] ELSE h[i - 1] \o tt[i]
        <4>1. g[i] = IF i = 1 THEN tt[i] ELSE g[i - 1] \o tt[i]
          BY <2>6, <2>7 DEF Flattens
        <4>2. CASE i = 1
          BY <2>9, <4>1, <4>2
        <4>3. CASE i # 1
          <5>1. i - 1 \in 1..k /\ h[i - 1] = g[i - 1]
            BY <2>9, <4>3
          <5> QED BY <2>9, <4>1, <4>3, <5>1
        <4> QED BY <4>2, <4>3
      <3> QED BY <2>9, <3>1 DEF Flattens
    <2>11. h[k] = f[k]
      BY <2>4, <2>5, <2>10, FlattensSame
    <2>12. h[k] = g[k]
      BY <2>7, <2>9
    <2> QED BY <2>3, <2>4, <2>5, <2>6, <2>8, <2>11, <2>12, Zenon
  <1> QED BY <1>1, <1>2

(* Sequences can be put together from either end.                           *)
LEMMA Regrouped ==
  ASSUME NEW T, NEW s \in Seq(T), NEW t \in Seq(T), NEW u \in Seq(T),
         NEW v \in Seq(T), v = s \o t, NEW w \in Seq(T), w = t \o u
  PROVE  v \o u = s \o w
  <1>1. PICK x \in Seq(T) : x = v \o u
    <2>1. v \o u \in Seq(T)
      OBVIOUS
    <2> QED BY <2>1, Zenon
  <1>2. PICK y \in Seq(T) : y = s \o w
    <2>1. s \o w \in Seq(T)
      OBVIOUS
    <2> QED BY <2>1, Zenon
  <1>3. /\ Len(v) = Len(s) + Len(t) /\ Len(w) = Len(t) + Len(u)
        /\ Len(x) = Len(v) + Len(u) /\ Len(y) = Len(s) + Len(w)
    BY <1>1, <1>2
  <1>4. PICK a \in Nat, b \in Nat, c \in Nat :
            a = Len(s) /\ b = Len(t) /\ c = Len(u)
    OBVIOUS
  <1>5. ASSUME NEW i \in 1..(a + b + c)
        PROVE  x[i] = y[i]
    <2>1. CASE i <= a
      <3>1. x[i] = v[i] /\ v[i] = s[i] /\ y[i] = s[i]
        BY <1>1, <1>2, <1>3, <1>4, <2>1
      <3> QED BY <3>1, Zenon
    <2>2. CASE a < i /\ i <= a + b
      <3>1. x[i] = v[i] /\ v[i] = t[i - a]
        BY <1>1, <1>3, <1>4, <2>2
      <3>2. y[i] = w[i - a] /\ w[i - a] = t[i - a]
        BY <1>2, <1>3, <1>4, <2>2
      <3> QED BY <3>1, <3>2, Zenon
    <2>3. CASE a + b < i
      <3>1. x[i] = u[i - (a + b)]
        BY <1>1, <1>3, <1>4, <2>3
      <3>2. y[i] = w[i - a] /\ w[i - a] = u[(i - a) - b]
        BY <1>2, <1>3, <1>4, <2>3
      <3>3. (i - a) - b = i - (a + b)
        OBVIOUS
      <3> QED BY <3>1, <3>2, <3>3, Zenon
    <2> QED BY <2>1, <2>2, <2>3
  <1>6. Len(x) = a + b + c /\ Len(y) = a + b + c
    BY <1>3, <1>4
  <1>7. x = y
    BY <1>5, <1>6, SeqEqual
  <1> QED BY <1>1, <1>2, <1>7, Zenon

LEMMA FlattenExtend ==
  ASSUME NEW T, NEW ss \in Seq(Seq(T)), ss # << >>, NEW new \in Seq(T)
  PROVE  FlattenSeq([ss EXCEPT ![Len(ss)] = @ \o new])
             = FlattenSeq(ss) \o new
  <1>1. PICK n \in Nat : n + 1 = Len(ss) /\ n + 1 \in 1..Len(ss)
    <2>1. Len(ss) - 1 \in Nat /\ (Len(ss) - 1) + 1 = Len(ss)
          /\ (Len(ss) - 1) + 1 \in 1..Len(ss)
      OBVIOUS
    <2> QED BY <2>1, Zenon
  <1> DEFINE front == [i \in 1..n |-> ss[i]]
  <1>2. front \in Seq(Seq(T)) /\ Len(front) = n /\ \A i \in 1..n : front[i] = ss[i]
    BY <1>1
  <1> HIDE DEF front
  <1>3. PICK last \in Seq(T) : last = ss[n + 1]
    BY <1>1
  <1>4. PICK longer \in Seq(T) : longer = last \o new
    <2>1. last \o new \in Seq(T)
      OBVIOUS
    <2> QED BY <2>1, Zenon
  <1>5. ss = Append(front, last)
    <2>1. PICK tt \in Seq(Seq(T)) : tt = Append(front, last)
      <3>1. Append(front, last) \in Seq(Seq(T))
        BY <1>2
      <3> QED BY <3>1, Zenon
    <2>2. Len(tt) = n + 1 /\ tt[n + 1] = last /\ \A i \in 1..n : tt[i] = front[i]
      BY <1>2, <2>1
    <2>3. \A i \in 1..Len(ss) : i = n + 1 \/ i \in 1..n
      BY <1>1
    <2>4. Len(tt) = Len(ss) /\ \A i \in 1..Len(ss) : tt[i] = ss[i]
      BY <1>1, <1>2, <1>3, <2>2, <2>3
    <2> QED BY <2>1, <2>4, SeqEqual
  <1>6. [ss EXCEPT ![Len(ss)] = @ \o new] = Append(front, longer)
    <2>1. [ss EXCEPT ![Len(ss)] = @ \o new] = [ss EXCEPT ![Len(ss)] = longer]
      BY <1>1, <1>3, <1>4, Zenon
    <2>2. PICK tt \in Seq(Seq(T)) : tt = Append(front, longer)
      <3>1. Append(front, longer) \in Seq(Seq(T))
        BY <1>2
      <3> QED BY <3>1, Zenon
    <2>3. PICK uu \in Seq(Seq(T)) : uu = [ss EXCEPT ![Len(ss)] = longer]
      BY <1>1, ExceptSeq
    <2>4. Len(tt) = Len(uu) /\ \A i \in 1..Len(uu) : tt[i] = uu[i]
      BY <1>1, <1>2, <2>2, <2>3
    <2> QED BY <2>1, <2>2, <2>3, <2>4, SeqEqual
  <1>7. FlattenSeq(Append(front, longer)) = FlattenSeq(front) \o longer
    BY <1>2, FlattenAppend
  <1>8. FlattenSeq(ss) = FlattenSeq(front) \o last
    BY <1>2, <1>5, FlattenAppend
  <1>9. PICK u \in Seq(T) : u = FlattenSeq(front)
    BY <1>2, FlattenType
  <1>10. FlattenSeq(ss) \o new = u \o longer
    <2>1. PICK v \in Seq(T) : v = FlattenSeq(ss)
      BY FlattenType
    <2>2. v = u \o last
      BY <1>8, <1>9, <2>1, Zenon
    <2>3. v \o new = u \o longer
      <3>1. /\ u \in Seq(T) /\ last \in Seq(T) /\ new \in Seq(T)
            /\ v \in Seq(T) /\ longer \in Seq(T)
            /\ v = u \o last /\ longer = last \o new
        BY <1>4, <2>2
      <3> QED BY ONLY <3>1, Regrouped
    <2> QED BY <2>1, <2>3, Zenon
  <1> QED BY <1>6, <1>7, <1>9, <1>10, Zenon

(* They are in the set.                                                     *)
LEMMA ThoseIn ==
  ASSUME NEW T, NEW S
  PROVE  \A s \in Seq(T) : Those(s, S) \in Seq(T \cap S)
  <1> DEFINE P == {s \in Seq(T) : Those(s, S) \in Seq(T \cap S)}
  <1>1. << >> \in P
    <2>1. \A R : << >> \in Seq(R)
      OBVIOUS
    <2>2. << >> \in Seq(T) /\ << >> \in Seq(T \cap S)
      BY <2>1, Zenon
    <2> QED BY <2>2, ThoseEmpty
  <1>2. ASSUME NEW s \in Seq(T), NEW x \in T, s \in P
        PROVE  Append(s, x) \in P
    <2>1. Those(Append(s, x), S) = IF x \in S THEN Append(Those(s, S), x)
                                   ELSE Those(s, S)
      BY ThoseAppend
    <2>2. PICK R, u : R = T \cap S /\ u = Those(s, S) /\ u \in Seq(R)
      BY <1>2
    <2>3. x \in S => Append(u, x) \in Seq(R)
      BY <2>2
    <2>4. Those(Append(s, x), S) \in Seq(R)
      BY <2>1, <2>2, <2>3, Zenon
    <2> QED BY <2>2, <2>4
  <1>3. \A s \in Seq(T) : s \in P
    <2> HIDE DEF P
    <2> QED BY <1>1, <1>2, SeqInduction
  <1> QED BY <1>3
==============================================================================

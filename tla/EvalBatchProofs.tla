--------------------------- MODULE EvalBatchProofs ---------------------------
(***************************************************************************)
(* Proofs about the batching of the evaluation model: for any number of    *)
(* threads, any batch size and any race on batch_thread, a request that is *)
(* waited for is in exactly one place, and nobody gets another's result.   *)
(***************************************************************************)
EXTENDS EvalBatch, FiniteSetTheorems, TLAPS

In(q, s) == \E i \in 1..Len(s) : s[i] = q
Distinct(s) == \A i, j \in 1..Len(s) : s[i] = s[j] => i = j

(* The calls that have put their request, and some that failed to.         *)
Issued(q) ==
    \/ q[2] < nth[q[1]]
    \/ q[2] = nth[q[1]] /\ pc[q[1]] \in {"wait", "done"}

(* What a background thread holds where it is.                             *)
Shape ==
    \A t \in Callers :
        /\ wpc[t] \in {"none", "new"} => inputs[t] = << >>
        /\ wpc[t] = "collect" => Len(inputs[t]) < BatchSize
        /\ wpc[t] \in {"run", "deliver"} => inputs[t] # << >>
        /\ wpc[t] = "deliver" =>
               /\ at[t] <= Len(inputs[t])
               /\ \A i \in 1..(at[t] - 1) : future[inputs[t][i]] # Pending

(* A caller that is about to create a background thread has created none. *)
Fresh ==
    /\ \A c \in Callers : pc[c] = "create" => wpc[c] = "none"
    /\ thread = NoThread => \A t \in Callers : wpc[t] = "none"

(* A request is in the queue once, or with one thread, after it was put.   *)
OnePlace ==
    /\ Distinct(queue)
    /\ \A q \in Request :
           /\ In(q, queue) => Issued(q) /\ \A t \in Callers : ~In(q, inputs[t])
           /\ \A t \in Callers : In(q, inputs[t]) =>
                  Issued(q) /\ \A u \in Callers : In(q, inputs[u]) => u = t

Waited ==
    \A c \in Callers : Waiting(c) =>
        In(Now(c), queue) \/ \E t \in Callers : In(Now(c), inputs[t])

CallsOK == /\ \A c \in Callers : nth[c] <= Calls(c)
           /\ at \in [Callers -> 1..BatchSize]

Own == \A q \in Request : /\ future[q] # Pending => future[q].of = q
                          /\ returned[q] # Pending => returned[q].of = q

IInv == TypeOK /\ CallsOK /\ Shape /\ Fresh /\ OnePlace /\ Waited /\ Own

-----------------------------------------------------------------------------
(* Sequences.                                                              *)

LEMMA InToSet ==
    ASSUME NEW S, NEW s \in Seq(S), NEW q
    PROVE  q \in ToSet(s) <=> In(q, s)
  BY DEF ToSet, In

LEMMA InAppend ==
    ASSUME NEW S, NEW s \in Seq(S), NEW e \in S
    PROVE  /\ \A q : In(q, Append(s, e)) <=> In(q, s) \/ q = e
           /\ Distinct(s) /\ ~In(e, s) => Distinct(Append(s, e))
<1>1. /\ Len(Append(s, e)) = Len(s) + 1 /\ Append(s, e)[Len(s) + 1] = e
      /\ \A i \in 1..Len(s) : Append(s, e)[i] = s[i]
      /\ Len(s) \in Nat
  OBVIOUS
<1>2. \A i : i \in 1..(Len(s) + 1) <=> i \in 1..Len(s) \/ i = Len(s) + 1
  BY <1>1
<1>3. ASSUME NEW q PROVE In(q, Append(s, e)) <=> In(q, s) \/ q = e
  BY <1>1, <1>2 DEF In
<1>4. Distinct(s) /\ ~In(e, s) => Distinct(Append(s, e))
  BY <1>1, <1>2 DEF In, Distinct
<1> QED BY <1>3, <1>4

LEMMA InTail ==
    ASSUME NEW S, NEW s \in Seq(S), s # << >>
    PROVE  /\ Head(s) \in S /\ Tail(s) \in Seq(S)
           /\ \A q : In(q, s) <=> q = Head(s) \/ In(q, Tail(s))
           /\ Distinct(s) => Distinct(Tail(s)) /\ ~In(Head(s), Tail(s))
<1>1. /\ Len(s) \in Nat /\ Len(s) >= 1 /\ Len(Tail(s)) = Len(s) - 1
      /\ Head(s) = s[1] /\ \A i \in 1..Len(Tail(s)) : Tail(s)[i] = s[i + 1]
      /\ Head(s) \in S /\ Tail(s) \in Seq(S)
  OBVIOUS
<1>2. \A i \in 1..Len(s) : i = 1 \/ (i - 1 \in 1..Len(Tail(s)) /\ s[i] = Tail(s)[i - 1])
  BY <1>1
<1>3. \A i \in 1..Len(Tail(s)) : i + 1 \in 1..Len(s) /\ i + 1 # 1
  BY <1>1
<1>4. ASSUME NEW q PROVE In(q, s) <=> q = Head(s) \/ In(q, Tail(s))
  <2>1. In(q, s) => q = Head(s) \/ In(q, Tail(s))
    BY <1>1, <1>2 DEF In
  <2>2. q = Head(s) => In(q, s)
    BY <1>1 DEF In
  <2>3. In(q, Tail(s)) => In(q, s)
    BY <1>1, <1>3 DEF In
  <2> QED BY <2>1, <2>2, <2>3
<1>5. Distinct(s) => Distinct(Tail(s)) /\ ~In(Head(s), Tail(s))
  BY <1>1, <1>3 DEF In, Distinct
<1> QED BY <1>1, <1>4, <1>5

LEMMA NothingIn == \A q : ~In(q, << >>)
  BY DEF In

LEMMA InitIInv == Init => IInv
<1> SUFFICES ASSUME Init PROVE IInv
  OBVIOUS
<1>1. TypeOK
  BY CountAssumption DEF Init, TypeOK, Future
<1>2. CallsOK /\ Shape /\ Fresh /\ Waited /\ Own
  BY CountAssumption DEF Init, CallsOK, Shape, Fresh, Waited, Waiting, Own, Calls
<1>3. OnePlace
  BY NothingIn DEF Init, OnePlace, Distinct
<1> QED BY <1>1, <1>2, <1>3 DEF IInv

LEMMA NowRequest ==
    ASSUME IInv, NEW c \in Callers
    PROVE  Now(c) \in Request /\ Now(c) = <<c, nth[c]>>
  BY DEF IInv, TypeOK, CallsOK, Now, Request

(* The rest of the state when a caller moves on.                           *)
LEMMA LeaveType ==
    ASSUME IInv, NEW c \in Callers, NEW o \in Future, Leave(c, o), o.of = Now(c)
    PROVE  /\ pc' \in [Callers -> {"check", "create", "start", "put", "wait", "done"}]
           /\ nth' \in [Callers -> {1, 2}]
           /\ returned' \in [Request -> Future]
           /\ \A d \in Callers : nth'[d] <= Calls(d)
           /\ \A d \in Callers : d # c => pc'[d] = pc[d] /\ nth'[d] = nth[d]
           /\ pc'[c] \in {"check", "done"} /\ nth'[c] >= nth[c]
           /\ pc'[c] = "check" => nth'[c] = nth[c] + 1
           /\ \A q \in Request : returned'[q] # Pending => returned'[q].of = q
<1>1. Now(c) \in Request
  BY NowRequest
<1>2. nth[c] \in {1, 2} /\ Calls(c) \in {1, 2} /\ nth[c] <= Calls(c)
  BY DEF IInv, TypeOK, CallsOK, Calls
<1>3. /\ returned' \in [Request -> Future]
      /\ \A q \in Request : returned'[q] # Pending => returned'[q].of = q
  BY <1>1 DEF Leave, IInv, TypeOK, Own
<1>4. CASE nth[c] = Calls(c)
  <2>1. pc' = [pc EXCEPT ![c] = "done"] /\ nth' = nth
    BY <1>4 DEF Leave
  <2> QED BY <1>2, <1>3, <2>1 DEF IInv, TypeOK, CallsOK, Calls
<1>5. CASE nth[c] # Calls(c)
  <2>1. pc' = [pc EXCEPT ![c] = "check"] /\ nth' = [nth EXCEPT ![c] = @ + 1]
    BY <1>5 DEF Leave
  <2>2. nth[c] + 1 \in {1, 2} /\ nth[c] + 1 <= Calls(c)
    BY <1>2, <1>5
  <2>3. \A d \in Callers : nth'[d] <= Calls(d)
    BY <2>1, <2>2 DEF IInv, TypeOK, CallsOK, Calls
  <2> QED BY <1>2, <1>3, <2>1, <2>2, <2>3 DEF IInv, TypeOK
<1> QED BY <1>4, <1>5

(* A call once issued stays issued when callers only move on.              *)
LEMMA IssuedStays ==
    ASSUME IInv, nth' \in [Callers -> {1, 2}],
           \A d \in Callers : \/ pc'[d] = pc[d] /\ nth'[d] = nth[d]
                              \/ nth'[d] = nth[d] /\ pc[d] \notin {"wait", "done"}
                              \/ nth'[d] = nth[d] /\ pc'[d] \in {"wait", "done"}
                              \/ nth'[d] = nth[d] + 1
    PROVE  \A q \in Request : Issued(q) => Issued(q)'
<1> SUFFICES ASSUME NEW q \in Request, Issued(q) PROVE Issued(q)'
  OBVIOUS
<1>1. q[1] \in Callers /\ q[2] \in {1, 2} /\ nth[q[1]] \in {1, 2}
  BY DEF Request, IInv, TypeOK
<1> QED BY <1>1 DEF Issued

(* Steps of a caller that leave the queue and the threads' batches alone.  *)
LEMMA QuietCaller ==
    ASSUME IInv, NEW c \in Callers, UNCHANGED <<future, queue, inputs, at>>,
           pc' \in [Callers -> {"check", "create", "start", "put", "wait", "done"}],
           nth' \in [Callers -> {1, 2}],
           \A d \in Callers : d # c => pc'[d] = pc[d] /\ nth'[d] = nth[d],
           pc'[c] # "wait",
           \/ nth'[c] = nth[c] /\ pc[c] \notin {"wait", "done"}
           \/ nth'[c] = nth[c] /\ pc'[c] = "done"
           \/ nth'[c] = nth[c] + 1
    PROVE  OnePlace' /\ Waited'
<1>1. \A q \in Request : Issued(q) => Issued(q)'
  BY IssuedStays
<1>2. OnePlace'
  BY <1>1 DEF IInv, OnePlace
<1>3. Waited'
  BY DEF IInv, Waited, Waiting, Now
<1> QED BY <1>2, <1>3

LEMMA CheckStep ==
    ASSUME IInv, NEW c \in Callers, Check(c)
    PROVE  IInv'
<1> USE DEF Check
<1>1. TypeOK' /\ CallsOK' /\ Shape' /\ Own'
  BY DEF IInv, TypeOK, CallsOK, Shape, Own
<1>2. Fresh'
  BY DEF IInv, TypeOK, Fresh
<1>3. OnePlace' /\ Waited'
  BY <1>1, QuietCaller DEF IInv, TypeOK
<1> QED BY <1>1, <1>2, <1>3 DEF IInv

LEMMA CreateStep ==
    ASSUME IInv, NEW c \in Callers, Create(c)
    PROVE  IInv'
<1> USE DEF Create
<1>1. TypeOK' /\ CallsOK' /\ Own'
  BY DEF IInv, TypeOK, CallsOK, Own
<1>2. Shape'
  BY DEF IInv, TypeOK, Shape, Fresh
<1>3. Fresh'
  BY ThreadAssumption DEF IInv, TypeOK, Fresh
<1>4. OnePlace' /\ Waited'
  BY <1>1, QuietCaller DEF IInv, TypeOK
<1> QED BY <1>1, <1>2, <1>3, <1>4 DEF IInv

LEMMA StartStep ==
    ASSUME IInv, NEW c \in Callers, Start(c)
    PROVE  IInv'
<1>1. CASE wpc[thread] = "new"
  <2> USE <1>1 DEF Start
  <2>1. TypeOK' /\ CallsOK' /\ Own'
    BY DEF IInv, TypeOK, CallsOK, Own
  <2>2. Shape'
    BY CountAssumption DEF IInv, TypeOK, Shape
  <2>3. Fresh'
    BY DEF IInv, TypeOK, Fresh
  <2>4. OnePlace' /\ Waited'
    BY <2>1, QuietCaller DEF IInv, TypeOK
  <2> QED BY <2>1, <2>2, <2>3, <2>4 DEF IInv
<1>2. CASE wpc[thread] # "new"
  <2>1. /\ pc[c] = "start" /\ Leave(c, Failure(Now(c)))
        /\ UNCHANGED <<wpc, future, thread, queue, inputs, at>>
    BY <1>2 DEF Start
  <2>2. Failure(Now(c)) \in Future /\ Failure(Now(c)).of = Now(c)
    BY NowRequest DEF Failure, Future
  <2>3. /\ pc' \in [Callers -> {"check", "create", "start", "put", "wait", "done"}]
        /\ nth' \in [Callers -> {1, 2}]
        /\ returned' \in [Request -> Future]
        /\ \A d \in Callers : nth'[d] <= Calls(d)
        /\ \A d \in Callers : d # c => pc'[d] = pc[d] /\ nth'[d] = nth[d]
        /\ pc'[c] \in {"check", "done"} /\ nth'[c] >= nth[c]
        /\ pc'[c] = "check" => nth'[c] = nth[c] + 1
        /\ \A q \in Request : returned'[q] # Pending => returned'[q].of = q
    BY <2>1, <2>2, LeaveType
  <2>4. TypeOK' /\ CallsOK' /\ Shape' /\ Fresh' /\ Own'
    BY <2>1, <2>3 DEF IInv, TypeOK, CallsOK, Shape, Fresh, Own
  <2>5. nth'[c] = nth[c] \/ nth'[c] = nth[c] + 1
    BY <2>1 DEF Leave, IInv, TypeOK
  <2>6. OnePlace' /\ Waited'
    BY <2>1, <2>3, <2>5, QuietCaller
  <2> QED BY <2>3, <2>4, <2>6 DEF IInv
<1> QED BY <1>1, <1>2

LEMMA WakeStep ==
    ASSUME IInv, NEW c \in Callers, Wake(c)
    PROVE  IInv'
<1>1. /\ pc[c] = "wait" /\ Leave(c, future[Now(c)])
      /\ UNCHANGED <<wpc, future, thread, queue, inputs, at>>
  BY DEF Wake
<1>2. future[Now(c)] \in Future /\ future[Now(c)].of = Now(c)
  BY NowRequest DEF Wake, IInv, TypeOK, Own
<1>3. /\ pc' \in [Callers -> {"check", "create", "start", "put", "wait", "done"}]
      /\ nth' \in [Callers -> {1, 2}]
      /\ returned' \in [Request -> Future]
      /\ \A d \in Callers : nth'[d] <= Calls(d)
      /\ \A d \in Callers : d # c => pc'[d] = pc[d] /\ nth'[d] = nth[d]
      /\ pc'[c] \in {"check", "done"} /\ nth'[c] >= nth[c]
      /\ pc'[c] = "check" => nth'[c] = nth[c] + 1
      /\ \A q \in Request : returned'[q] # Pending => returned'[q].of = q
  BY <1>1, <1>2, LeaveType
<1>4. TypeOK' /\ CallsOK' /\ Shape' /\ Fresh' /\ Own'
  BY <1>1, <1>3 DEF IInv, TypeOK, CallsOK, Shape, Fresh, Own
<1>5. (nth'[c] = nth[c] /\ pc'[c] = "done") \/ nth'[c] = nth[c] + 1
  BY <1>1 DEF Leave, IInv, TypeOK
<1>6. OnePlace' /\ Waited'
  BY <1>1, <1>3, <1>5, QuietCaller
<1> QED BY <1>3, <1>4, <1>6 DEF IInv

(* The request that is put is in no place yet, for it is not issued.       *)
LEMMA PutStep ==
    ASSUME IInv, NEW c \in Callers, Put(c)
    PROVE  IInv'
<1> USE DEF Put
<1>1. Now(c) \in Request /\ Now(c)[1] = c /\ Now(c)[2] = nth[c] /\ queue \in Seq(Request)
  BY NowRequest DEF IInv, TypeOK
<1>2. TypeOK' /\ CallsOK' /\ Shape' /\ Fresh' /\ Own'
  BY <1>1 DEF IInv, TypeOK, CallsOK, Shape, Fresh, Own
<1>3. ~Issued(Now(c)) /\ Issued(Now(c))'
  <2>1. Now(c)' = Now(c) /\ nth[c] \in {1, 2} /\ pc'[c] = "wait" /\ nth' = nth
    BY DEF Now, IInv, TypeOK
  <2>2. ~Issued(Now(c))
    BY <1>1, <2>1 DEF Issued
  <2>3. Issued(Now(c))'
    BY <1>1, <2>1 DEF Issued
  <2> QED BY <2>2, <2>3
<1>4. ~In(Now(c), queue) /\ \A t \in Callers : ~In(Now(c), inputs[t])
  BY <1>1, <1>3 DEF IInv, OnePlace
<1>5. /\ \A q : In(q, queue') <=> In(q, queue) \/ q = Now(c)
      /\ Distinct(queue)'
  BY <1>1, <1>4, InAppend DEF IInv, OnePlace, Distinct
<1>6. \A q \in Request : Issued(q) => Issued(q)'
  BY IssuedStays DEF IInv, TypeOK
<1>7. OnePlace'
  <2>1. Now(c)' = Now(c) /\ UNCHANGED inputs
    BY DEF Now
  <2>2. ASSUME NEW q \in Request, In(q, queue)'
        PROVE  Issued(q)' /\ \A t \in Callers : ~In(q, inputs[t])'
    BY <1>3, <1>4, <1>5, <1>6, <2>1, <2>2 DEF IInv, OnePlace
  <2>3. ASSUME NEW q \in Request, NEW t \in Callers, In(q, inputs[t])'
        PROVE  Issued(q)' /\ \A u \in Callers : In(q, inputs[u])' => u = t
    BY <1>6, <2>1, <2>3 DEF IInv, OnePlace
  <2> QED BY <1>5, <2>2, <2>3 DEF OnePlace
<1>8. Waited'
  <2> SUFFICES ASSUME NEW d \in Callers, Waiting(d)'
               PROVE  In(Now(d), queue)' \/ \E t \in Callers : In(Now(d), inputs[t])'
    BY DEF Waited
  <2>1. CASE d = c
    BY <2>1, <1>5 DEF Now
  <2>2. CASE d # c
    BY <2>2, <1>5 DEF IInv, TypeOK, Waited, Waiting, Now
  <2> QED BY <2>1, <2>2
<1> QED BY <1>2, <1>7, <1>8 DEF IInv

-----------------------------------------------------------------------------
(* Steps of a background thread.                                           *)

callers == <<pc, nth, returned, thread>>

LEMMA IssuedSame ==
    ASSUME UNCHANGED callers
    PROVE  /\ \A q : Issued(q)' <=> Issued(q)
           /\ \A c : Now(c)' = Now(c)
  BY DEF callers, Issued, Now

(* Nothing that holds a request moves. *)
LEMMA QuietWorker ==
    ASSUME IInv, UNCHANGED callers, UNCHANGED <<future, queue, inputs>>
    PROVE  OnePlace' /\ Waited' /\ Own' /\ \A c \in Callers : nth'[c] <= Calls(c)
<1>1. OnePlace'
  BY IssuedSame DEF IInv, OnePlace
<1>2. Waited'
  BY IssuedSame DEF IInv, Waited, Waiting, callers
<1>3. Own' /\ \A c \in Callers : nth'[c] <= Calls(c)
  BY DEF IInv, Own, CallsOK, callers
<1> QED BY <1>1, <1>2, <1>3

LEMMA CollectStep ==
    ASSUME IInv, NEW t \in Callers, Collect(t)
    PROVE  IInv'
<1> DEFINE h == Head(queue)
<1>1. /\ wpc[t] = "collect" /\ queue # << >> /\ queue' = Tail(queue)
      /\ inputs' = [inputs EXCEPT ![t] = Append(@, h)]
      /\ UNCHANGED callers /\ UNCHANGED <<future, at>>
      /\ wpc' = IF Len(inputs'[t]) = BatchSize
                THEN [wpc EXCEPT ![t] = "run"] ELSE wpc
  BY DEF Collect, callers
<1>2. /\ queue \in Seq(Request) /\ inputs \in [Callers -> Seq(Request)]
      /\ Len(inputs[t]) < BatchSize /\ Distinct(queue)
      /\ wpc \in [Callers -> {"none", "new", "collect", "run", "deliver", "dead"}]
  BY <1>1 DEF IInv, TypeOK, Shape, OnePlace
<1>3. /\ h \in Request /\ Tail(queue) \in Seq(Request)
      /\ \A q : In(q, queue) <=> q = h \/ In(q, Tail(queue))
      /\ Distinct(Tail(queue)) /\ ~In(h, Tail(queue))
  <2> HIDE DEF h
  <2> QED BY <1>1, <1>2, InTail DEF h
<1>4. /\ inputs'[t] = Append(inputs[t], h) /\ inputs'[t] \in Seq(Request)
      /\ Len(inputs'[t]) = Len(inputs[t]) + 1 /\ inputs'[t] # << >>
      /\ \A u \in Callers : u # t => inputs'[u] = inputs[u]
      /\ inputs' \in [Callers -> Seq(Request)]
  <2>1. h \in Request
    BY <1>3
  <2> HIDE DEF h
  <2>2. inputs[t] \in Seq(Request)
    BY <1>2
  <2>3. /\ Append(inputs[t], h) \in Seq(Request)
        /\ Len(Append(inputs[t], h)) = Len(inputs[t]) + 1
    BY <2>1, <2>2
  <2>4. Append(inputs[t], h) # << >>
    BY <2>2, <2>3
  <2> QED BY <1>1, <1>2, <2>3, <2>4
<1>5. \A q : In(q, inputs'[t]) <=> In(q, inputs[t]) \/ q = h
  BY <1>2, <1>3, <1>4, InAppend
<1> HIDE DEF h
<1>6. /\ wpc' \in [Callers -> {"none", "new", "collect", "run", "deliver", "dead"}]
      /\ \A u \in Callers : u # t => wpc'[u] = wpc[u]
      /\ IF Len(inputs'[t]) = BatchSize THEN wpc'[t] = "run" ELSE wpc'[t] = "collect"
  BY <1>1, <1>2
<1>7. TypeOK'
  BY <1>1, <1>2, <1>3, <1>4, <1>6, CountAssumption DEF IInv, TypeOK, callers
<1>8. Shape'
  BY <1>1, <1>2, <1>4, <1>6, CountAssumption DEF IInv, Shape
<1>9. Fresh'
  BY <1>1, <1>6 DEF IInv, Fresh, callers, TypeOK
<1>10. In(h, queue)
  BY <1>3
<1>11. OnePlace'
  <2>1. ASSUME NEW q \in Request, In(q, queue)'
        PROVE  Issued(q)' /\ \A u \in Callers : ~In(q, inputs[u])'
    <3>1. In(q, queue) /\ q # h
      BY <1>1, <1>3, <2>1
    <3>2. Issued(q) /\ \A u \in Callers : ~In(q, inputs[u])
      BY <3>1 DEF IInv, OnePlace
    <3> QED BY <3>1, <3>2, <1>1, <1>4, <1>5, IssuedSame
  <2>2. ASSUME NEW q \in Request, NEW u \in Callers, In(q, inputs[u])'
        PROVE  Issued(q)' /\ \A v \in Callers : In(q, inputs[v])' => v = u
    <3>1. CASE q = h
      <4>1. Issued(q) /\ \A v \in Callers : ~In(q, inputs[v])
        BY <3>1, <1>10 DEF IInv, OnePlace
      <4> QED BY <4>1, <2>2, <1>1, <1>4, <1>5, IssuedSame
    <3>2. CASE q # h
      <4>1. \A v \in Callers : In(q, inputs[v])' <=> In(q, inputs[v])
        BY <3>2, <1>4, <1>5
      <4>2. Issued(q) /\ \A v \in Callers : In(q, inputs[v]) => v = u
        BY <4>1, <2>2 DEF IInv, OnePlace
      <4> QED BY <4>1, <4>2, <1>1, IssuedSame
    <3> QED BY <3>1, <3>2
  <2>3. Distinct(queue)'
    BY <1>1, <1>3 DEF Distinct
  <2> QED BY <2>1, <2>2, <2>3 DEF OnePlace
<1>12. Waited'
  <2> SUFFICES ASSUME NEW c \in Callers, Waiting(c)'
               PROVE  In(Now(c), queue)' \/ \E u \in Callers : In(Now(c), inputs[u])'
    BY DEF Waited
  <2>1. Now(c)' = Now(c) /\ Waiting(c)
    BY <1>1, IssuedSame DEF Waiting, callers
  <2>2. In(Now(c), queue) \/ \E u \in Callers : In(Now(c), inputs[u])
    BY <2>1 DEF IInv, Waited
  <2>3. CASE In(Now(c), queue)
    BY <2>1, <2>3, <1>1, <1>3, <1>5
  <2>4. CASE \E u \in Callers : In(Now(c), inputs[u])
    BY <2>1, <2>4, <1>4, <1>5
  <2> QED BY <2>2, <2>3, <2>4
<1>13. Own' /\ CallsOK'
  BY <1>1 DEF IInv, Own, CallsOK, callers
<1> QED BY <1>7, <1>8, <1>9, <1>11, <1>12, <1>13 DEF IInv

LEMMA GiveUpWaitingStep ==
    ASSUME IInv, NEW t \in Callers, GiveUpWaiting(t)
    PROVE  IInv'
<1>1. TypeOK' /\ Shape' /\ Fresh'
  BY DEF GiveUpWaiting, IInv, TypeOK, Shape, Fresh
<1>2. OnePlace' /\ Waited' /\ Own' /\ CallsOK'
  BY QuietWorker DEF GiveUpWaiting, callers, IInv, CallsOK
<1> QED BY <1>1, <1>2 DEF IInv

LEMMA InferStep ==
    ASSUME IInv, NEW t \in Callers, Infer(t)
    PROVE  IInv'
<1>1. inputs[t] \in Seq(Request) /\ inputs[t] # << >> /\ Len(inputs[t]) >= 1
  BY DEF Infer, IInv, TypeOK, Shape
<1>2. TypeOK' /\ Fresh'
  BY CountAssumption DEF Infer, IInv, TypeOK, Fresh
<1>3. at' \in [Callers -> 1..BatchSize] /\ at'[t] = 1
  BY CountAssumption DEF Infer, IInv, CallsOK
<1>4. Shape'
  BY <1>1, <1>3 DEF Infer, IInv, TypeOK, CallsOK, Shape
<1>5. OnePlace' /\ Waited' /\ Own' /\ CallsOK'
  BY <1>3, QuietWorker DEF Infer, callers, CallsOK
<1> QED BY <1>2, <1>4, <1>5 DEF IInv

(* All futures of a batch are resolved, or the thread dies holding it.     *)
LEMMA PropagateStep ==
    ASSUME IInv, NEW t \in Callers, wpc[t] \in {"run", "deliver"}, Propagate(t),
           UNCHANGED <<pc, nth, returned, thread, queue, at>>
    PROVE  IInv'
<1> DEFINE resolved == {i \in DOMAIN inputs[t] : future[inputs[t][i]] # Pending}
           reached == {i \in DOMAIN inputs[t] : \A j \in resolved : i < j}
<1>1. /\ future' = [q \in Request |->
                       IF \E i \in reached : inputs[t][i] = q
                       THEN Failure(q) ELSE future[q]]
      /\ wpc' = [wpc EXCEPT ![t] = IF resolved = {} THEN "collect" ELSE "dead"]
      /\ inputs' = [inputs EXCEPT ![t] = IF resolved = {} THEN << >> ELSE @]
      /\ UNCHANGED callers
  BY DEF Propagate, callers
<1>2. /\ inputs \in [Callers -> Seq(Request)] /\ future \in [Request -> Future]
      /\ wpc \in [Callers -> {"none", "new", "collect", "run", "deliver", "dead"}]
  BY DEF IInv, TypeOK
<1>3. DOMAIN inputs[t] = 1..Len(inputs[t])
  BY <1>2
<1>4. \A q \in Request : Failure(q) \in Future /\ Failure(q) # Pending /\ Failure(q).of = q
  BY DEF Failure, Future, Pending
<1>5. future' \in [Request -> Future]
  BY <1>1, <1>2, <1>4
<1>6. \A q \in Request : /\ future[q] # Pending => future'[q] # Pending
                         /\ future'[q] # Pending => future'[q].of = q
  BY <1>1, <1>4 DEF IInv, Own
<1>7. resolved = {} => reached = DOMAIN inputs[t]
  OBVIOUS
<1>8. /\ \A u \in Callers : u # t => wpc'[u] = wpc[u] /\ inputs'[u] = inputs[u]
      /\ IF resolved = {} THEN wpc'[t] = "collect" /\ inputs'[t] = << >>
         ELSE wpc'[t] = "dead" /\ inputs'[t] = inputs[t]
      /\ inputs' \in [Callers -> Seq(Request)]
      /\ wpc' \in [Callers -> {"none", "new", "collect", "run", "deliver", "dead"}]
  BY <1>1, <1>2
<1>9. resolved = {} =>
          \A q \in Request : In(q, inputs[t]) => future'[q] # Pending
  BY <1>1, <1>3, <1>4, <1>7 DEF In
<1> HIDE DEF resolved, reached
<1>10. TypeOK' /\ CallsOK'
  BY <1>1, <1>5, <1>8, CountAssumption DEF IInv, TypeOK, CallsOK, callers
<1>11. Shape'
  <2>1. ASSUME NEW u \in Callers, NEW i \in 1..(at[u] - 1), u # t,
               wpc[u] = "deliver"
        PROVE  future'[inputs[u][i]] # Pending
    <3>1. i \in 1..Len(inputs[u])
      BY <2>1, <1>2 DEF IInv, Shape, TypeOK
    <3>2. inputs[u][i] \in Request
      BY <3>1, <1>2
    <3> QED BY <2>1, <3>2, <1>6 DEF IInv, Shape
  <2> QED BY <2>1, <1>1, <1>8, CountAssumption DEF IInv, Shape
<1>12. Fresh'
  BY <1>1, <1>8 DEF IInv, Fresh, callers
<1>13. \A u \in Callers : \A q : In(q, inputs'[u]) => In(q, inputs[u])
  BY <1>8, NothingIn
<1>14. OnePlace'
  BY <1>1, <1>13, IssuedSame DEF IInv, OnePlace
<1>15. Waited'
  <2> SUFFICES ASSUME NEW c \in Callers, Waiting(c)'
               PROVE  In(Now(c), queue)' \/ \E u \in Callers : In(Now(c), inputs[u])'
    BY DEF Waited
  <2>1. Now(c)' = Now(c) /\ Now(c) \in Request
    BY <1>1, IssuedSame, NowRequest
  <2>2. Waiting(c)
    BY <2>1, <1>1, <1>6 DEF Waiting, callers
  <2>3. In(Now(c), queue) \/ \E u \in Callers : In(Now(c), inputs[u])
    BY <2>2 DEF IInv, Waited
  <2>4. ASSUME NEW u \in Callers, In(Now(c), inputs[u])
        PROVE  In(Now(c), inputs'[u])
    <3>1. future'[Now(c)] = Pending
      BY <2>1 DEF Waiting
    <3> QED BY <2>1, <2>4, <3>1, <1>8, <1>9
  <2> QED BY <2>1, <2>3, <2>4
<1>16. Own'
  BY <1>1, <1>6 DEF IInv, Own, callers
<1> QED BY <1>10, <1>11, <1>12, <1>14, <1>15, <1>16 DEF IInv

(* The last completion empties the batch, all of whose futures are then    *)
(* resolved.                                                               *)
LEMMA DeliverStep ==
    ASSUME IInv, NEW t \in Callers, Deliver(t)
    PROVE  IInv'
<1> DEFINE q == inputs[t][at[t]]
           over == at[t] = Len(inputs[t])
<1>1. /\ wpc[t] = "deliver"
      /\ future' = [future EXCEPT ![q] = Result(q)]
      /\ wpc' = IF over THEN [wpc EXCEPT ![t] = "collect"] ELSE wpc
      /\ inputs' = IF over THEN [inputs EXCEPT ![t] = << >>] ELSE inputs
      /\ at' = IF over THEN at ELSE [at EXCEPT ![t] = @ + 1]
      /\ UNCHANGED callers /\ UNCHANGED queue
  BY DEF Deliver, callers
<1>2. /\ inputs \in [Callers -> Seq(Request)] /\ future \in [Request -> Future]
      /\ wpc \in [Callers -> {"none", "new", "collect", "run", "deliver", "dead"}]
      /\ at \in [Callers -> 1..BatchSize] /\ Len(inputs[t]) <= BatchSize
      /\ at[t] <= Len(inputs[t])
      /\ \A i \in 1..(at[t] - 1) : future[inputs[t][i]] # Pending
  BY <1>1 DEF IInv, TypeOK, CallsOK, Shape
<1>3. q \in Request
  BY <1>2
<1> HIDE DEF q
<1>4. Result(q) \in Future /\ Result(q) # Pending /\ Result(q).of = q
  BY <1>3 DEF Result, Future, Pending
<1>5. /\ future' \in [Request -> Future] /\ future'[q] # Pending
      /\ \A r \in Request : r # q => future'[r] = future[r]
      /\ future'[q].of = q
  BY <1>1, <1>2, <1>3, <1>4
<1>6. \A r \in Request : future[r] # Pending => future'[r] # Pending
  BY <1>5
<1>7. /\ \A u \in Callers : u # t => /\ wpc'[u] = wpc[u] /\ inputs'[u] = inputs[u]
                                     /\ at'[u] = at[u]
      /\ IF over
         THEN wpc'[t] = "collect" /\ inputs'[t] = << >> /\ at'[t] = at[t]
         ELSE wpc'[t] = "deliver" /\ inputs'[t] = inputs[t] /\ at'[t] = at[t] + 1
      /\ inputs' \in [Callers -> Seq(Request)]
      /\ wpc' \in [Callers -> {"none", "new", "collect", "run", "deliver", "dead"}]
  BY <1>1, <1>2
<1>8. at' \in [Callers -> 1..BatchSize]
  BY <1>1, <1>2, CountAssumption
<1>9. TypeOK' /\ CallsOK'
  BY <1>1, <1>5, <1>7, <1>8, CountAssumption DEF IInv, TypeOK, CallsOK, callers
<1>10. ASSUME NEW u \in Callers, wpc[u] = "deliver", NEW i \in 1..(at[u] - 1)
       PROVE  future'[inputs[u][i]] # Pending
  <2>1. i \in 1..Len(inputs[u])
    BY <1>10, <1>2 DEF IInv, Shape
  <2>2. inputs[u][i] \in Request
    BY <2>1, <1>2
  <2> QED BY <1>10, <2>2, <1>6 DEF IInv, Shape
<1>11. Shape'
  <2> SUFFICES ASSUME NEW u \in Callers
               PROVE  /\ wpc'[u] \in {"none", "new"} => inputs'[u] = << >>
                      /\ wpc'[u] = "collect" => Len(inputs'[u]) < BatchSize
                      /\ wpc'[u] \in {"run", "deliver"} => inputs'[u] # << >>
                      /\ wpc'[u] = "deliver" =>
                             /\ at'[u] <= Len(inputs'[u])
                             /\ \A i \in 1..(at'[u] - 1) : future'[inputs'[u][i]] # Pending
    BY DEF Shape
  <2>1. CASE u # t
    BY <2>1, <1>7, <1>10 DEF IInv, Shape
  <2>2. CASE u = t /\ over
    BY <2>2, <1>7, CountAssumption
  <2>3. CASE u = t /\ ~over
    <3>1. /\ wpc'[t] = "deliver" /\ inputs'[t] = inputs[t] /\ at'[t] = at[t] + 1
          /\ at[t] + 1 <= Len(inputs[t]) /\ at[t] \in Nat /\ inputs[t] # << >>
      BY <2>3, <1>1, <1>2, <1>7 DEF IInv, Shape
    <3>2. ASSUME NEW i \in 1..at[t] PROVE future'[inputs[t][i]] # Pending
      BY <3>1, <1>1, <1>5, <1>10 DEF q
    <3> QED BY <2>3, <3>1, <3>2
  <2> QED BY <2>1, <2>2, <2>3
<1>12. Fresh'
  BY <1>1, <1>7 DEF IInv, Fresh, callers
<1>13. \A u \in Callers : \A r : In(r, inputs'[u]) => In(r, inputs[u])
  BY <1>7, NothingIn
<1>14. OnePlace'
  BY <1>1, <1>13, IssuedSame DEF IInv, OnePlace
<1>15. over => \A r \in Request : In(r, inputs[t]) => future'[r] # Pending
  <2> SUFFICES ASSUME over, NEW i \in 1..Len(inputs[t])
               PROVE  future'[inputs[t][i]] # Pending
    BY DEF In
  <2>1. CASE i = at[t]
    BY <2>1, <1>5 DEF q
  <2>2. CASE i # at[t]
    <3>1. at[t] \in Nat /\ Len(inputs[t]) \in Nat /\ ~ (at[t] < Len(inputs[t]))
      BY <1>1, <1>2
    <3>2. i \in 1..(at[t] - 1)
      BY <2>2, <3>1
    <3> QED BY <1>1, <1>10, <3>2, Zenon
  <2> QED BY <2>1, <2>2
<1>16. Waited'
  <2> SUFFICES ASSUME NEW c \in Callers, Waiting(c)'
               PROVE  In(Now(c), queue)' \/ \E u \in Callers : In(Now(c), inputs[u])'
    BY DEF Waited
  <2>1. Now(c)' = Now(c) /\ Now(c) \in Request
    BY <1>1, IssuedSame, NowRequest
  <2>2. Waiting(c)
    BY <2>1, <1>1, <1>6 DEF Waiting, callers
  <2>3. In(Now(c), queue) \/ \E u \in Callers : In(Now(c), inputs[u])
    BY <2>2 DEF IInv, Waited
  <2>4. ASSUME NEW u \in Callers, In(Now(c), inputs[u])
        PROVE  In(Now(c), inputs'[u])
    <3>1. future'[Now(c)] = Pending
      BY <2>1 DEF Waiting
    <3> QED BY <2>1, <2>4, <3>1, <1>7, <1>15
  <2> QED BY <2>1, <2>3, <2>4, <1>1
<1>17. Own'
  BY <1>1, <1>5 DEF IInv, Own, callers
<1> QED BY <1>9, <1>11, <1>12, <1>14, <1>16, <1>17 DEF IInv

-----------------------------------------------------------------------------
LEMMA StepIInv == IInv /\ [Next]_vars => IInv'
<1> SUFFICES ASSUME IInv, [Next]_vars PROVE IInv'
  OBVIOUS
<1>1. CASE UNCHANGED vars
  BY <1>1 DEF vars, IInv, TypeOK, CallsOK, Shape, Fresh, OnePlace, Issued,
              Waited, Waiting, Now, Own, Distinct
<1>2. ASSUME NEW c \in Callers, Caller(c) PROVE IInv'
  BY <1>2, CheckStep, CreateStep, StartStep, PutStep, WakeStep DEF Caller
<1>3. ASSUME NEW t \in Callers, Worker(t) PROVE IInv'
  <2>1. CASE InferFails(t) \/ ConvertFails(t)
    BY <2>1, PropagateStep DEF InferFails, ConvertFails
  <2> QED BY <1>3, <2>1, CollectStep, GiveUpWaitingStep, InferStep, DeliverStep
          DEF Worker
<1> QED BY <1>1, <1>2, <1>3 DEF Next

LEMMA IInvHolds == Spec => []IInv
  BY InitIInv, StepIInv, PTL DEF Spec

(* A call of generate returns the completion, or the exception, of its own *)
(* request, whatever the batches and however many threads deliver them.    *)
THEOREM ResultsAreOwn == Spec => []OwnResult
<1>1. IInv => OwnResult
  BY DEF IInv, Own, OwnResult
<1> QED BY <1>1, IInvHolds, PTL

(* The request of a blocked call of generate is in the queue, or in the    *)
(* batch of exactly one background thread.                                 *)
THEOREM HeldOnce == Spec => []SomeoneHolds
<1>1. ASSUME IInv PROVE SomeoneHolds
  <2> SUFFICES ASSUME NEW c \in Callers, Waiting(c)
               PROVE  IF Now(c) \in ToSet(queue) THEN HeldBy(Now(c)) = {}
                      ELSE Cardinality(HeldBy(Now(c))) = 1
    BY <1>1 DEF SomeoneHolds, IInv
  <2>1. /\ Now(c) \in Request /\ queue \in Seq(Request)
        /\ inputs \in [Callers -> Seq(Request)]
    BY <1>1, NowRequest DEF IInv, TypeOK
  <2>2. \A t \in Callers : Now(c) \in ToSet(inputs[t]) <=> In(Now(c), inputs[t])
    BY <2>1, InToSet
  <2>3. Now(c) \in ToSet(queue) <=> In(Now(c), queue)
    BY <2>1, InToSet
  <2>4. CASE In(Now(c), queue)
    BY <1>1, <2>1, <2>2, <2>3, <2>4 DEF IInv, OnePlace, HeldBy
  <2>5. CASE ~In(Now(c), queue)
    <3>1. PICK t \in Callers : In(Now(c), inputs[t])
      BY <1>1, <2>5 DEF IInv, Waited
    <3>2. HeldBy(Now(c)) = {t}
      BY <1>1, <2>1, <2>2, <3>1 DEF IInv, OnePlace, HeldBy
    <3> QED BY <2>3, <2>5, <3>2, FS_Singleton
  <2> QED BY <2>4, <2>5
<1> QED BY <1>1, IInvHolds, PTL
==============================================================================

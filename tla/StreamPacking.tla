---------------------------- MODULE StreamPacking ----------------------------
(***************************************************************************)
(* IterablePackingDataset: worker processes encode the samples of a round  *)
(* in any order; the generator collects as many answers as it put, sorts   *)
(* them by their index and packs them, and carries the last pack over to   *)
(* the next round.                                                         *)
(*                                                                         *)
(* dataset/packing.py.                                                     *)
(***************************************************************************)
EXTENDS BinPacking, Sublists

CONSTANTS
    Workers,    \* the num_proc encoding processes
    NoItem,     \* a worker that has no item
    Interval,   \* packing_interval: the samples of a round
    TooLong,    \* samples whose encoding raises MaxLengthError
    Broken,     \* samples whose encoding raises anything else
    Prefetch    \* the packs the data loader takes ahead of the trainer

ASSUME StreamAssumption ==
    /\ Interval \in Nat \ {0} /\ Prefetch \in Nat \ {0}
    /\ TooLong \subseteq Samples /\ Broken \subseteq Samples

Nothing == 0                    \* the answer {}
Item == (0..Interval - 1) \X Samples
Answer == (0..Interval - 1) \X (Samples \cup {Nothing})
Encodable == Samples \ (TooLong \cup Broken)

ASSUME ItemAssumption == NoItem \notin Item

VARIABLES
    strict,     \* strict: an encoding error is not swallowed
    gpc,        \* where __iter__ is: "put", "fetch" or "end"
    pos,        \* the samples drawn from the data set
    sent,       \* the samples put in this round
    inQ,        \* _in_queue
    busy,       \* the item each worker encodes
    dead,       \* the workers that raised
    answers,    \* _out_queue; its processes' feeders put in any order
    got,        \* the indices of this round that are answered
    res,        \* the answers of this round by index
    data,       \* what the last round left to pack
    ready,      \* the packs the trainer has not drawn
    yielded     \* all packs of this pass over the data set

streamVars == <<strict, gpc, pos, sent, inQ, busy, dead, answers, got, res,
                data, ready, yielded>>

NoAnswers == [i \in 0..Interval - 1 |-> Nothing]

StreamInit ==
    /\ strict \in BOOLEAN
    /\ gpc = "put" /\ pos = 0 /\ sent = 0
    /\ inQ = << >> /\ answers = {}
    /\ busy = [w \in Workers |-> NoItem] /\ dead = {}
    /\ got = {} /\ res = NoAnswers
    /\ data = << >> /\ ready = << >> /\ yielded = << >>

-----------------------------------------------------------------------------
(* The worker processes: _processor.                                       *)

Take(w) ==
    /\ w \notin dead /\ busy[w] = NoItem /\ inQ # << >>
    /\ busy' = [busy EXCEPT ![w] = Head(inQ)]
    /\ inQ' = Tail(inQ)
    /\ UNCHANGED <<strict, gpc, pos, sent, dead, answers, got, res, data,
                   ready, yielded>>

(* Too long samples are answered with nothing, others too unless strict.   *)
Encode(w) ==
    /\ w \notin dead /\ busy[w] # NoItem
    /\ strict => busy[w][2] \notin Broken
    /\ answers' = answers \cup
           {<<busy[w][1], IF busy[w][2] \in Encodable
                          THEN busy[w][2] ELSE Nothing>>}
    /\ busy' = [busy EXCEPT ![w] = NoItem]
    /\ UNCHANGED <<strict, gpc, pos, sent, inQ, dead, got, res, data, ready,
                   yielded>>

(* raise: the process ends and its item is never answered.                 *)
Die(w) ==
    /\ w \notin dead /\ busy[w] # NoItem
    /\ strict /\ busy[w][2] \in Broken
    /\ dead' = dead \cup {w}
    /\ UNCHANGED <<strict, gpc, pos, sent, inQ, busy, answers, got, res, data,
                   ready, yielded>>

-----------------------------------------------------------------------------
(* The generator: __iter__, resumed when the loader wants another pack.    *)

PutOne ==
    /\ gpc = "put" /\ sent < Interval /\ pos < N
    /\ Len(ready) < Prefetch
    /\ inQ' = Append(inQ, <<sent, pos + 1>>)
    /\ sent' = sent + 1 /\ pos' = pos + 1
    /\ UNCHANGED <<strict, gpc, busy, dead, answers, got, res, data, ready,
                   yielded>>

(* The round is full, or the data set is at its end (StopIteration). *)
PutOver ==
    /\ gpc = "put" /\ (sent = Interval \/ pos = N)
    /\ Len(ready) < Prefetch
    /\ gpc' = "fetch"
    /\ UNCHANGED <<strict, pos, sent, inQ, busy, dead, answers, got, res, data,
                   ready, yielded>>

(* Faulty variant: the answers are kept in the order they arrive in.       *)
FetchOneUnsorted ==
    /\ gpc = "fetch" /\ Cardinality(got) < sent
    /\ \E a \in answers :
           /\ answers' = answers \ {a}
           /\ res' = [res EXCEPT ![Cardinality(got)] = a[2]]
           /\ got' = got \cup {a[1]}
    /\ UNCHANGED <<strict, gpc, pos, sent, inQ, busy, dead, data, ready,
                   yielded>>

(* Faulty variant: an empty answer does not count. *)
FetchOneUncounted ==
    /\ gpc = "fetch" /\ Cardinality(got) < sent
    /\ \E a \in answers :
           /\ answers' = answers \ {a}
           /\ res' = [res EXCEPT ![a[1]] = a[2]]
           /\ got' = IF a[2] = Nothing THEN got ELSE got \cup {a[1]}
    /\ UNCHANGED <<strict, gpc, pos, sent, inQ, busy, dead, data, ready,
                   yielded>>

FetchOne ==
    /\ gpc = "fetch" /\ Cardinality(got) < sent
    /\ \E a \in answers :
           /\ answers' = answers \ {a}
           /\ res' = [res EXCEPT ![a[1]] = a[2]]
           /\ got' = got \cup {a[1]}
    /\ UNCHANGED <<strict, gpc, pos, sent, inQ, busy, dead, data, ready,
                   yielded>>

(* The encoded samples of the round in the order of their indices.         *)
Filled == {i \in 0..Interval - 1 : res[i] # Nothing}
Before(i) == Cardinality({h \in Filled : h < i})
Encoded == [j \in 1..Cardinality(Filled) |->
               res[CHOOSE i \in Filled : Before(i) = j - 1]]
Over == sent # Interval

Repack(s) ==
    LET m == Matched(s, Over)
    IN  /\ data' = m.rest
        /\ ready' = ready \o m.packs
        /\ yielded' = yielded \o m.packs

(* Faulty variant: what the last round left is forgotten.                  *)
PackForgetting ==
    /\ gpc = "fetch" /\ Cardinality(got) = sent
    /\ Repack(Encoded)
    /\ gpc' = IF Over THEN "end" ELSE "put"
    /\ sent' = 0 /\ got' = {} /\ res' = NoAnswers
    /\ UNCHANGED <<strict, pos, inQ, busy, dead, answers>>

(* Faulty variant: it does not wait for the last answer.                   *)
PackEarly ==
    /\ gpc = "fetch" /\ (Cardinality(got) = sent \/ Cardinality(got) + 1 = sent)
    /\ Repack(data \o Encoded)
    /\ gpc' = IF Over THEN "end" ELSE "put"
    /\ sent' = 0 /\ got' = {} /\ res' = NoAnswers
    /\ UNCHANGED <<strict, pos, inQ, busy, dead, answers>>

Pack ==
    /\ gpc = "fetch" /\ Cardinality(got) = sent
    /\ Repack(data \o Encoded)
    /\ gpc' = IF Over THEN "end" ELSE "put"
    /\ sent' = 0 /\ got' = {} /\ res' = NoAnswers
    /\ UNCHANGED <<strict, pos, inQ, busy, dead, answers>>

-----------------------------------------------------------------------------
(* Its consumer.                                                           *)

DrawPack ==
    /\ ready # << >>
    /\ ready' = Tail(ready)
    /\ UNCHANGED <<strict, gpc, pos, sent, inQ, busy, dead, answers, got, res,
                   data, yielded>>

(* iter again: the next pass, with the same queues and workers.            *)
PassAgain ==
    /\ gpc = "end" /\ ready = << >>
    /\ gpc' = "put" /\ pos' = 0 /\ data' = << >> /\ yielded' = << >>
    /\ UNCHANGED <<strict, sent, inQ, busy, dead, answers, got, res, ready>>

(* The job is killed and started again. *)
StreamRestart ==
    /\ gpc' = "put" /\ pos' = 0 /\ sent' = 0
    /\ inQ' = << >> /\ answers' = {}
    /\ busy' = [w \in Workers |-> NoItem] /\ dead' = {}
    /\ got' = {} /\ res' = NoAnswers
    /\ data' = << >> /\ ready' = << >> /\ yielded' = << >>
    /\ UNCHANGED strict

Encoding == (\E w \in Workers : Take(w) \/ Encode(w) \/ Die(w))
                \/ PutOne \/ PutOver \/ FetchOne \/ Pack

StreamNext == Encoding \/ DrawPack \/ PassAgain \/ StreamRestart

StreamSpec == StreamInit /\ [][StreamNext]_streamVars

-----------------------------------------------------------------------------
StreamTypeOK ==
    /\ strict \in BOOLEAN /\ gpc \in {"put", "fetch", "end"}
    /\ pos \in 0..N /\ sent \in 0..Interval
    /\ inQ \in Seq(Item) /\ busy \in [Workers -> Item \cup {NoItem}]
    /\ dead \subseteq Workers /\ answers \subseteq Answer
    /\ got \subseteq 0..Interval - 1
    /\ res \in [0..Interval - 1 -> Samples \cup {Nothing}]
    /\ data \in Seq(Samples)
    /\ ready \in Seq(Seq(Samples)) /\ yielded \in Seq(Seq(Samples))

(* Between two rounds, and whenever a pack is drawn, no item is left in a  *)
(* queue or a worker: the rounds share their queues and number their items *)
(* from 0, so an answer left over would be taken for one of the next round *)
(* (_fetch_data_out_queue counts answers).                                 *)
NothingOutstanding ==
    (gpc = "end" \/ (gpc = "put" /\ sent = 0)) =>
        /\ inQ = << >> /\ answers = {}
        /\ \A w \in Workers : busy[w] = NoItem

(* What a pass gives when nothing is killed and samples are encoded one    *)
(* after the other.                                                        *)
PassRounds ==
    [r \in 1..N \div Interval + 1 |->
        LET done == (r - 1) * Interval
        IN  Those([i \in 1..Min({Interval, N - done}) |-> done + i], Encodable)]
PassPacks == PackRounds(PassRounds)[Len(PassRounds)].packs

(* No sample is lost or packed twice over the rounds of a pass: every      *)
(* encodable sample of the rounds that are over is in one pack, or waits   *)
(* in what is carried over (last_res).                                     *)
EverySampleOnce ==
    /\ \A x \in Encodable :
           x <= pos - sent => x \in Packed(yielded) \cup Held(data)
    /\ Once(Append(yielded, data))
==============================================================================

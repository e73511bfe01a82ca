--------------------------- MODULE MultiTurnProofs ---------------------------
(* Proofs that a dialogue of a multi-turn rollout is made of the answers to *)
(* itself, whatever the ranks, the dialogues, the loop and the scheduler,   *)
(* that every rank has one output for each dialogue it goes through, that   *)
(* mask and log-probabilities belong to the tokens collected, and that a    *)
(* message is trained on with the tokens of the turns it is made of.        *)
EXTENDS MultiTurn, SequenceFacts

-----------------------------------------------------------------------------
(* The inductive invariant.                                                 *)

(* A dialogue, all of whose tokens are its own.                             *)
Own(d) == [of : {d}, turn : 1..MaxTurns, at : Int]
Msg(T) == [role : {"user", "assistant"}, content : Seq(T)]
Conv(T) == [messages : Seq(Msg(T)), turn : 1..MaxTurns, done : BOOLEAN,
            ids : Seq(Seq(T)), mask : Seq(Seq({0, 1})), lps : Seq(Seq(T))]

(* Outputs are those of the dialogues a rank has left, in their order, but  *)
(* between the pass over them and the next rollout.                         *)
Lined == \A r \in Ranks : pc[r] # "rollout" => out[r] = live[r]

IInv ==
    /\ loop \in Loops /\ scheduler \in Schedulers /\ logprobs \in BOOLEAN
    /\ conv = [d \in Dialogues |-> conv[d]]
    /\ \A d \in Dialogues : conv[d] \in Conv(Own(d))
    /\ pc \in [Ranks -> {"gather", "turn", "rollout", "end"}]
    /\ live \in [Ranks -> Seq(Dialogues)]
    /\ out \in [Ranks -> Seq(Dialogues)]
    /\ Lined
-----------------------------------------------------------------------------
(* Types of what a turn makes of a dialogue.                                *)

(* The last element of a sequence, if there is one, is replaced.            *)
LEMMA ReplaceLast ==
  ASSUME NEW S, NEW s \in Seq(S), NEW e, s # << >> => e \in S
  PROVE  [s EXCEPT ![Len(s)] = e] \in Seq(S)
  <1>1. CASE s = << >>
    <2>1. Len(s) = 0 /\ DOMAIN s = {}
      BY <1>1
    <2>2. [s EXCEPT ![Len(s)] = e] = s
      BY <2>1
    <2> QED BY <2>2
  <1>2. CASE s # << >>
    <2>1. Len(s) \in 1..Len(s) /\ e \in S
      BY <1>2
    <2> QED BY <2>1, ExceptSeq
  <1> QED BY <1>1, <1>2

LEMMA LastIn ==
  ASSUME NEW S, NEW s \in Seq(S), s # << >>
  PROVE  s[Len(s)] \in S /\ Last(s) = s[Len(s)]
  BY DEF Last

LEMMA AnswerOwn ==
  ASSUME NEW d, NEW t \in 1..MaxTurns, NEW o, o.len \in Nat
  PROVE  Answer(d, t, o) \in Seq(Own(d)) /\ Len(Answer(d, t, o)) >= o.len
  <1> DEFINE u == [i \in 1..o.len |-> Token(d, t, i)]
             v == IF o.finish = "stop" THEN <<Token(d, t, Eos)>> ELSE << >>
  <1>1. \A i \in Int : Token(d, t, i) \in Own(d)
    BY DEF Token, Own
  <1>2. u \in Seq(Own(d)) /\ Len(u) = o.len
    BY <1>1
  <1>3. v \in Seq(Own(d)) /\ Len(v) \in Nat
    BY <1>1 DEF Eos
  <1> HIDE DEF u, v
  <1>4. u \o v \in Seq(Own(d)) /\ Len(u \o v) = Len(u) + Len(v)
    BY <1>2, <1>3
  <1> QED BY <1>2, <1>3, <1>4 DEF Answer, u, v

LEMMA MaskTypes ==
  ASSUME NEW T, NEW toks \in Seq(T)
  PROVE  Ones(toks) \in Seq({0, 1}) /\ Zeros(toks) \in Seq({0, 1})
  BY DEF Ones, Zeros

LEMMA CollectedType ==
  ASSUME NEW T, NEW list \in Seq(Seq(T)), NEW continues, NEW new \in Seq(T)
  PROVE  Collected(list, continues, new) \in Seq(Seq(T))
  <1>1. Append(list, new) \in Seq(Seq(T))
    OBVIOUS
  <1>2. [list EXCEPT ![Len(list)] = @ \o new] \in Seq(Seq(T))
    <2>1. PICK e : e = list[Len(list)] \o new
      OBVIOUS
    <2>2. list # << >> => e \in Seq(T)
      BY <2>1
    <2>3. [list EXCEPT ![Len(list)] = e] \in Seq(Seq(T))
      BY <2>2, ReplaceLast
    <2> QED BY <2>1, <2>3, Zenon
  <1> QED BY <1>1, <1>2, Zenon DEF Collected

LEMMA LpsType ==
  ASSUME NEW T, NEW toks \in Seq(T)
  PROVE  Lps(toks) \in Seq(T)
  BY DEF Lps

(* Messages whose last one is added to.                                     *)
LEMMA Extended ==
  ASSUME NEW T, NEW ms \in Seq(Msg(T)), NEW more \in Seq(T)
  PROVE  [ms EXCEPT ![Len(ms)].content = @ \o more] \in Seq(Msg(T))
  <1>1. PICK e : e = [ms[Len(ms)] EXCEPT !.content = ms[Len(ms)].content \o more]
    OBVIOUS
  <1>2. ms # << >> => e \in Msg(T)
    <2>1. ASSUME NEW m \in Msg(T)
          PROVE  [m EXCEPT !.content = m.content \o more] \in Msg(T)
      <3>1. m.content \o more \in Seq(T)
        BY DEF Msg
      <3> QED BY <3>1 DEF Msg
    <2>2. ms # << >> => ms[Len(ms)] \in Msg(T)
      BY LastIn
    <2> QED BY <1>1, <2>1, <2>2, Zenon
  <1>3. [ms EXCEPT ![Len(ms)] = e] \in Seq(Msg(T))
    BY <1>2, ReplaceLast
  <1> QED BY <1>1, <1>3, Zenon

LEMMA Rewritten ==
  ASSUME NEW T, NEW ms \in Seq(Msg(T)), NEW toks \in Seq(T)
  PROVE  [ms EXCEPT ![Len(ms)].content = toks] \in Seq(Msg(T))
  <1>1. PICK e : e = [ms[Len(ms)] EXCEPT !.content = toks]
    OBVIOUS
  <1>2. ms # << >> => e \in Msg(T)
    <2>1. ASSUME NEW m \in Msg(T)
          PROVE  [m EXCEPT !.content = toks] \in Msg(T)
      BY DEF Msg
    <2>2. ms # << >> => ms[Len(ms)] \in Msg(T)
      BY LastIn
    <2> QED BY <1>1, <2>1, <2>2, Zenon
  <1>3. [ms EXCEPT ![Len(ms)] = e] \in Seq(Msg(T))
    BY <1>2, ReplaceLast
  <1> QED BY <1>1, <1>3, Zenon

LEMMA MessageTypes ==
  ASSUME NEW T, NEW toks \in Seq(T)
  PROVE  User \in Msg(T) /\ Assistant(toks) \in Msg(T) /\ Dummy \in Msg(T)
  BY DEF User, Assistant, Dummy, Msg

LEMMA HeardType ==
  ASSUME NEW T, NEW ms \in Seq(Msg(T)), NEW toks \in Seq(T)
  PROVE  Heard(ms, toks) \in Seq(Msg(T))
  <1>1. Append(ms, Assistant(toks)) \in Seq(Msg(T))
    BY MessageTypes
  <1> QED BY <1>1, Extended, Zenon DEF Heard

LEMMA WithDummyType ==
  ASSUME NEW T, NEW ms \in Seq(Msg(T))
  PROVE  WithDummy(ms) \in Seq(Msg(T))
  <1>1. Dummy \in Msg(T)
    BY DEF Dummy, Assistant, Msg
  <1>2. Append(ms, Dummy) \in Seq(Msg(T))
    BY <1>1
  <1> QED BY <1>2, Zenon DEF WithDummy

LEMMA FrontType ==
  ASSUME NEW S, NEW s \in Seq(S)
  PROVE  Front(s) \in Seq(S)
  <1>1. Len(s) - 1 \in Int /\ \A i \in 1..(Len(s) - 1) : s[i] \in S
    OBVIOUS
  <1> QED BY <1>1, SubSeqProperties DEF Front

LEMMA CheckedLpsType ==
  ASSUME NEW T, NEW ids, NEW mask, NEW lps \in Seq(Seq(T))
  PROVE  CheckedLps(ids, mask, lps) \in Seq(Seq(T))
  <1> DEFINE counted == IF mask # << >> THEN Those(FlattenSeq(mask), {1})
                        ELSE FlattenSeq(ids)
  <1>1. CheckedLps(ids, mask, lps) =
            IF Len(FlattenSeq(lps)) = Len(counted) THEN lps ELSE << >>
    BY Zenon DEF CheckedLps
  <1> HIDE DEF counted
  <1>2. << >> \in Seq(Seq(T))
    OBVIOUS
  <1> QED BY <1>1, <1>2, Zenon

(* What is collected of a dialogue in its last turn, part by part.          *)
LEMMA StoppedType ==
  ASSUME NEW T, NEW c \in Conv(T), NEW toks \in Seq(T), NEW continues
  PROVE  Stopped(c, toks, continues) \in Conv(T)
  <1> DEFINE first == c.ids = << >>
             skip == Skips(c, continues)
             ids == IF first THEN <<toks>> ELSE IF skip THEN c.ids
                    ELSE Collected(c.ids, continues, toks)
             mask == IF first THEN <<Ones(toks)>>
                     ELSE IF skip \/ (continues /\ c.mask = << >>) THEN c.mask
                     ELSE Collected(c.mask, continues, Ones(toks))
             lps == IF first /\ logprobs THEN <<toks>>
                    ELSE IF first \/ skip \/ (continues /\ c.lps = << >>)
                    THEN c.lps
                    ELSE Collected(c.lps, continues, Lps(toks))
  <1>1. /\ c.messages \in Seq(Msg(T)) /\ c.turn \in 1..MaxTurns
        /\ c.ids \in Seq(Seq(T)) /\ c.mask \in Seq(Seq({0, 1}))
        /\ c.lps \in Seq(Seq(T))
    BY DEF Conv
  <1>2. ids \in Seq(Seq(T))
    <2>1. <<toks>> \in Seq(Seq(T))
      OBVIOUS
    <2>2. Collected(c.ids, continues, toks) \in Seq(Seq(T))
      BY <1>1, CollectedType
    <2> QED BY <1>1, <2>1, <2>2, Zenon
  <1>3. mask \in Seq(Seq({0, 1}))
    <2>1. PICK ones \in Seq({0, 1}) : ones = Ones(toks)
      BY MaskTypes
    <2>2. <<ones>> \in Seq(Seq({0, 1}))
      OBVIOUS
    <2>3. Collected(c.mask, continues, ones) \in Seq(Seq({0, 1}))
      BY <1>1, CollectedType
    <2> QED BY <1>1, <2>1, <2>2, <2>3, Zenon
  <1>4. lps \in Seq(Seq(T))
    <2>1. <<toks>> \in Seq(Seq(T))
      OBVIOUS
    <2>2. PICK new \in Seq(T) : new = Lps(toks)
      BY LpsType
    <2>3. Collected(c.lps, continues, new) \in Seq(Seq(T))
      BY <1>1, CollectedType
    <2> QED BY <1>1, <2>1, <2>2, <2>3, Zenon
  <1>5. Stopped(c, toks, continues) =
            [messages |-> c.messages, turn |-> c.turn, done |-> TRUE,
             ids |-> ids, mask |-> mask, lps |-> CheckedLps(ids, mask, lps)]
    BY Zenon DEF Stopped
  <1> HIDE DEF ids, mask, lps
  <1>6. CheckedLps(ids, mask, lps) \in Seq(Seq(T))
    BY <1>4, CheckedLpsType
  <1> QED BY <1>1, <1>2, <1>3, <1>5, <1>6 DEF Conv

(* What a scheduler returns.                                                *)
Return(T) == [messages : Seq(Msg(T)), ids : Seq(T), mask : Seq({0, 1}),
              lps : Seq(T)]

LEMMA ReturnedType ==
  ASSUME NEW T, NEW ms \in Seq(Msg(T)), NEW added \in Seq(T),
         NEW toks \in Seq(T), NEW kept \in Seq(T)
  PROVE  Returned(ms, added, toks, kept) \in Return(T)
  <1>1. toks \o added \in Seq(T)
    OBVIOUS
  <1>2. Ones(toks) \o Zeros(added) \in Seq({0, 1})
    BY MaskTypes
  <1> QED BY <1>1, <1>2 DEF Returned, Return

LEMMA TipsType ==
  ASSUME NEW T, NEW ms \in Seq(Msg(T)), NEW toks \in Seq(T),
         NEW hint \in Seq(T), NEW o, NEW cut \in Nat,
         o.len \in Nat, cut <= o.len, o.len <= Len(toks)
  PROVE  Tips(ms, toks, hint, o, cut) \in Return(T)
  <1> DEFINE text == IF cut = o.len THEN toks ELSE SubSeq(toks, 1, cut)
             kept == IF cut = o.len THEN toks
                     ELSE SubSeq(toks, 1, IF cut = 0 THEN 1 ELSE cut)
  <1>1. ASSUME NEW n \in Nat, n <= Len(toks)
        PROVE  SubSeq(toks, 1, n) \in Seq(T)
    <2>1. \A i \in 1..n : toks[i] \in T
      BY <1>1
    <2> QED BY <2>1, SubSeqProperties
  <1>2. text \in Seq(T)
    BY <1>1
  <1>3. kept \in Seq(T)
    <2>1. CASE cut = o.len
      BY <2>1
    <2>2. CASE cut # o.len
      <3>1. PICK n \in Nat : n = (IF cut = 0 THEN 1 ELSE cut) /\ n <= Len(toks)
        BY <2>2
      <3> QED BY <1>1, <2>2, <3>1
    <2> QED BY <2>1, <2>2
  <1> HIDE DEF text, kept
  <1>4. text \o hint \in Seq(T) /\ Lps(kept) \in Seq(T)
    BY <1>2, <1>3, LpsType
  <1>5. [ms EXCEPT ![Len(ms)].content = text \o hint] \in Seq(Msg(T))
    BY <1>4, Rewritten
  <1> QED BY <1>3, <1>4, <1>5, ReturnedType, Zenon DEF Tips, text, kept

LEMMA SteppedType ==
  ASSUME NEW T, NEW ms \in Seq(Msg(T)), NEW toks \in Seq(T),
         NEW added \in Seq(T), NEW o, NEW cut \in Nat, scheduler \in Schedulers,
         o.len \in Nat, o.len <= Len(toks), scheduler = "tips" => cut <= o.len
  PROVE  Stepped(ms, toks, added, o, cut) \in Return(T)
  <1>1. User \in Msg(T) /\ << >> \in Seq(T) /\ << >> \in Seq({0, 1})
    BY DEF User, Msg
  <1>2. Append(ms, User) \in Seq(Msg(T))
    BY <1>1
  <1>3. CASE scheduler = "tips"
    <2>1. Stepped(ms, toks, added, o, cut) = Tips(ms, toks, added, o, cut)
      BY <1>3 DEF Stepped
    <2> QED BY <1>3, <2>1, TipsType
  <1>4. CASE scheduler = "tools"
    <2>1. PICK said \in Seq(Msg(T)) :
              said = [ms EXCEPT ![Len(ms)].content = @ \o added]
      BY Extended
    <2>2. Stepped(ms, toks, added, o, cut) = Returned(said, added, toks, << >>)
      BY <1>4, <2>1 DEF Stepped
    <2> QED BY <1>1, <2>2, ReturnedType
  <1>5. CASE scheduler = "chat"
    <2>1. Stepped(ms, toks, added, o, cut)
              = Returned(Append(ms, User), << >>, toks, << >>)
      BY <1>5 DEF Stepped
    <2> QED BY <1>1, <1>2, <2>1, ReturnedType
  <1>6. CASE scheduler = "plain"
    <2>1. Stepped(ms, toks, added, o, cut)
              = [messages |-> Append(ms, User),
                 ids |-> << >>, mask |-> << >>, lps |-> << >>]
      BY <1>6 DEF Stepped
    <2> QED BY <1>1, <1>2, <2>1 DEF Return
  <1> QED BY <1>3, <1>4, <1>5, <1>6, SchedulerAssumption

LEMMA GoesOnType ==
  ASSUME NEW T, NEW c \in Conv(T), NEW ret \in Return(T),
         NEW toks \in Seq(T), NEW continues, ~ (c.turn >= MaxTurns)
  PROVE  GoesOn(c, ret, toks, continues) \in Conv(T)
  <1>1. /\ c.turn + 1 \in 1..MaxTurns /\ c.done \in BOOLEAN
        /\ c.ids \in Seq(Seq(T)) /\ c.mask \in Seq(Seq({0, 1}))
        /\ c.lps \in Seq(Seq(T))
    BY TurnsAssumption DEF Conv
  <1>2. /\ ret.messages \in Seq(Msg(T)) /\ ret.ids \in Seq(T)
        /\ ret.mask \in Seq({0, 1}) /\ ret.lps \in Seq(T)
    BY DEF Return
  <1>3. PICK new \in Seq(T) :
            new = IF ret.lps # << >> THEN ret.lps ELSE Lps(toks)
    BY <1>2, LpsType
  <1>4. /\ WithDummy(ret.messages) \in Seq(Msg(T))
        /\ Collected(c.ids, continues, ret.ids) \in Seq(Seq(T))
        /\ Collected(c.lps, continues, new) \in Seq(Seq(T))
    BY <1>1, <1>2, CollectedType, WithDummyType
  <1>5. Collected(c.mask, continues, ret.mask) \in Seq(Seq({0, 1}))
    BY <1>1, <1>2, CollectedType
  <1>6. GoesOn(c, ret, toks, continues) =
            [messages |-> WithDummy(ret.messages), turn |-> c.turn + 1,
             done |-> c.done, ids |-> Collected(c.ids, continues, ret.ids),
             mask |-> Collected(c.mask, continues, ret.mask),
             lps |-> Collected(c.lps, continues, new)]
    BY <1>3, Zenon DEF GoesOn
  <1> QED BY <1>1, <1>4, <1>5, <1>6 DEF Conv

(* A turn in which the engine answers to the dialogue itself adds nothing   *)
(* but tokens of that dialogue.                                             *)
LEMMA TurnedType ==
  ASSUME NEW d, NEW c \in Conv(Own(d)), NEW m \in Moves, Possible(c, m),
         scheduler \in Schedulers
  PROVE  Turned(c, d, m) \in Conv(Own(d))
  <1> DEFINE T == Own(d)
             before == IF Last(c.messages) = Dummy THEN Front(c.messages)
                       ELSE c.messages
             toks == Answer(d, c.turn, m.o)
             continues == Last(before).role = "assistant"
             told == [c EXCEPT !.messages = Heard(before, toks)]
             hint == <<Token(d, c.turn, Added)>>
  <1>1. Turned(c, d, m) =
            IF Finished(c, m) THEN Stopped(told, toks, continues)
            ELSE GoesOn(told, Stepped(told.messages, toks, hint, m.o, m.cut),
                        toks, continues)
    BY Zenon DEF Turned
  <1>2. /\ m.o \in Outcomes /\ m.o.len \in Nat /\ m.cut \in Nat
        /\ scheduler = "tips" => m.cut <= m.o.len
    BY OutcomeAssumption DEF Moves, Possible
  <1>3. c.turn \in 1..MaxTurns /\ c.messages \in Seq(Msg(T))
    BY DEF Conv
  <1>4. Token(d, c.turn, Added) \in T
    BY <1>3 DEF Token, Added, Own
  <1>5. hint \in Seq(T)
    BY <1>4
  <1> HIDE DEF T, continues, hint
  <1>6. before \in Seq(Msg(T))
    BY <1>3, FrontType
  <1> HIDE DEF before
  <1>7. toks \in Seq(T) /\ m.o.len <= Len(toks)
    <2>1. toks \in Seq(T) /\ Len(toks) >= m.o.len
      BY <1>2, <1>3, AnswerOwn DEF T
    <2> QED BY <1>2, <2>1
  <1> HIDE DEF toks
  <1>8. told \in Conv(T) /\ told.turn = c.turn
    <2>1. Heard(before, toks) \in Seq(Msg(T))
      BY <1>6, <1>7, HeardType
    <2> QED BY <2>1 DEF Conv, T
  <1> HIDE DEF told
  <1>9. Stopped(told, toks, continues) \in Conv(T)
    BY <1>7, <1>8, StoppedType
  <1>10. PICK ret \in Return(T) :
            ret = Stepped(told.messages, toks, hint, m.o, m.cut)
    <2>1. told.messages \in Seq(Msg(T))
      BY <1>8 DEF Conv
    <2> QED BY <1>2, <1>5, <1>7, <2>1, SteppedType
  <1>11. ASSUME ~ Finished(c, m)
         PROVE  GoesOn(told, ret, toks, continues) \in Conv(T)
    <2>1. ~ (told.turn >= MaxTurns)
      BY <1>8, <1>11 DEF Finished
    <2> QED BY <1>7, <1>8, <2>1, GoesOnType
  <1> QED BY <1>1, <1>9, <1>10, <1>11, Zenon DEF T
-----------------------------------------------------------------------------
(* What a rank keeps, and what it is given.                                 *)

(* The dialogues that go on are some of those a rank has.                   *)
LEMMA GoOnType ==
  ASSUME NEW list \in Seq(Dialogues), NEW convs
  PROVE  GoOn(list, convs) \in Seq(Dialogues)
  BY ThoseType DEF GoOn

LEMMA RanksAre == Len(Batch) \in Nat \ {0} /\ Ranks = 1..Len(Batch)
  BY BatchAssumption DEF Ranks

(* The requests of each rank begin where those of the rank before it end.   *)
LEMMA BeforeEnds ==
  ASSUME live \in [Ranks -> Seq(Dialogues)]
  PROVE  Ends(live, Len(Batch), Before)
  <1> DEFINE n == Len(Batch)
             Step(s, i) == s + Len(live[i])
             Equation(f) == f = [i \in 0..n |-> IF i = 0 THEN 0
                                    ELSE f[i - 1] + Len(live[i])]
             h == [i \in 1..n |-> [s \in Nat |-> Step(s, i)]]
  <1>1. Before = CHOOSE f : Equation(f)
    BY DEF Before
  <1>2. n \in Nat /\ 0 \in 0..n
    BY RanksAre
  <1>3. \A i \in 1..n, s \in Nat : Step(s, i) \in Nat
    <2>1. \A i \in 1..n : Len(live[i]) \in Nat
      BY RanksAre
    <2> QED BY <2>1
  <1>4. \A i \in 1..n, s \in Nat : h[i][s] = Step(s, i)
    BY Zenon
  <1>5. h \in [1..n -> [Nat -> Nat]]
    <2> HIDE DEF Step
    <2> QED BY <1>3
  <1>6. PICK f \in [0..n -> Nat] : Iterates(0, h, n, f)
    <2> HIDE DEF h
    <2> QED BY <1>2, <1>5, IterateExists
  <1>7. \A i \in 1..n : i \in 0..n /\ i # 0 /\ i - 1 \in 0..n
    BY <1>2
  <1>8. Equation(f)
    <2>1. f[0] = 0
      BY <1>6 DEF Iterates
    <2>2. ASSUME NEW i \in 1..n
          PROVE  f[i] = Step(f[i - 1], i)
      <3>1. f[i] = h[i][f[i - 1]]
        BY <1>6 DEF Iterates
      <3>2. f[i - 1] \in Nat
        BY <1>6, <1>7
      <3> QED BY <1>4, <3>1, <3>2, Zenon
    <2>3. \A i \in 0..n : f[i] = IF i = 0 THEN 0 ELSE Step(f[i - 1], i)
      BY <2>1, <2>2
    <2>4. f = [i \in 0..n |-> f[i]]
      BY <1>6
    <2> QED BY <2>3, <2>4, Zenon
  <1>9. Equation(Before)
    <2> HIDE DEF Equation
    <2> QED BY <1>1, <1>8
  <1>10. /\ Before = [i \in 0..n |-> Before[i]] /\ Before[0] = 0
         /\ \A i \in 1..n : Before[i] = Step(Before[i - 1], i)
    <2>1. \A i \in 0..n : Before[i] = IF i = 0 THEN 0
                                      ELSE Step(Before[i - 1], i)
      BY <1>9, Zenon
    <2>2. Before = [i \in 0..n |-> Before[i]]
      BY <1>9, Zenon
    <2> HIDE DEF Step
    <2> QED BY <1>2, <1>7, <2>1, <2>2
  <1> DEFINE S == {k \in Nat : k <= n => Before[k] \in Nat}
  <1>11. 0 \in S
    BY <1>2, <1>10
  <1>12. ASSUME NEW k \in Nat, k \in S
         PROVE  k + 1 \in S
    <2> HIDE DEF Step
    <2>1. CASE k + 1 <= n
      <3>1. k + 1 \in 1..n /\ (k + 1) - 1 = k /\ Before[k] \in Nat
        BY <1>2, <1>12, <2>1
      <3>2. Before[k + 1] = Step(Before[(k + 1) - 1], k + 1)
        BY <1>10, <3>1
      <3>3. Step(Before[k], k + 1) \in Nat
        BY <1>3, <3>1
      <3>4. Before[k + 1] \in Nat
        BY <3>1, <3>2, <3>3, Zenon
      <3> QED BY <3>4
    <2> QED BY <2>1
  <1>13. \A k \in 0..n : Before[k] \in Nat
    <2> HIDE DEF S
    <2>1. \A k \in Nat : k \in S
      BY <1>11, <1>12, SetInduction
    <2> QED BY <2>1 DEF S
  <1>14. Before \in [0..n -> Nat]
    BY <1>10, <1>13
  <1> QED BY <1>10, <1>14 DEF Ends

(* The slice a rank takes of the answers is the answers to its requests.    *)
LEMMA SliceIsOwn ==
  ASSUME live \in [Ranks -> Seq(Dialogues)], NEW r \in Ranks
  PROVE  SubSeq(FlattenSeq(live), Start(r) + 1, Start(r) + Len(live[r]))
             = live[r]
  <1>1. PICK n \in Nat \ {0} : n = Len(Batch) /\ r \in 1..n /\ Ranks = 1..n
    BY RanksAre
  <1>2. PICK ss \in Seq(Seq(Dialogues)) : ss = live /\ Len(ss) = n
    BY <1>1
  <1>3. PICK b : b = Before
    OBVIOUS
  <1>4. Ends(ss, n, b)
    BY <1>1, <1>2, <1>3, BeforeEnds
  <1>5. SubSeq(FlattenSeq(ss), b[r - 1] + 1, b[r - 1] + Len(ss[r])) = ss[r]
    BY <1>1, <1>2, <1>4, SliceOfFlat
  <1> QED BY <1>2, <1>3, <1>5, Zenon DEF Start
-----------------------------------------------------------------------------
(* The invariant is inductive.                                              *)

LEMMA IInit == Init => IInv
  <1> SUFFICES ASSUME Init
               PROVE  IInv
    OBVIOUS
  <1>1. /\ loop \in Loops /\ scheduler \in Schedulers /\ logprobs \in BOOLEAN
        /\ pc = [r \in Ranks |-> "gather"] /\ live = Batch /\ out = Batch
    BY DEF Init
  <1>2. Batch \in [Ranks -> Seq(Dialogues)]
    BY BatchAssumption DEF Ranks
  <1>3. ASSUME NEW d \in Dialogues
        PROVE  New \in Conv(Own(d))
    <2>1. PICK T : T = Own(d)
      OBVIOUS
    <2>2. User \in Msg(T)
      BY DEF User, Msg
    <2>3. <<User>> \in Seq(Msg(T)) /\ 1 \in 1..MaxTurns
      BY <2>2, TurnsAssumption
    <2>4. New \in Conv(T)
      BY <2>3 DEF New, Conv
    <2> QED BY <2>1, <2>4
  <1>4. /\ conv = [d \in Dialogues |-> conv[d]]
        /\ \A d \in Dialogues : conv[d] \in Conv(Own(d))
    <2>1. conv = [d \in Dialogues |-> New]
      BY DEF Init
    <2> QED BY <1>3, <2>1
  <1> QED BY <1>1, <1>2, <1>4 DEF IInv, Lined

(* A coroutine of the server: the engine answers to the dialogue it serves. *)
LEMMA IServe ==
  ASSUME IInv, NEW d \in Dialogues, Serve(d)
  PROVE  IInv'
  <1>1. PICK m \in Moves : /\ Possible(conv[d], m)
                           /\ conv' = [conv EXCEPT ![d] = Turned(@, d, m)]
    BY DEF Serve
  <1>2. UNCHANGED <<loop, scheduler, logprobs, pc, live, out>>
    BY DEF Serve
  <1>3. PICK c : c = Turned(conv[d], d, m)
    OBVIOUS
  <1>4. c \in Conv(Own(d))
    BY <1>1, <1>3, TurnedType DEF IInv
  <1>5. conv' = [conv EXCEPT ![d] = c]
    BY <1>1, <1>3, Zenon
  <1>6. /\ conv' = [e \in Dialogues |-> conv'[e]]
        /\ \A e \in Dialogues : conv'[e] \in Conv(Own(e))
    BY <1>4, <1>5 DEF IInv
  <1> QED BY <1>2, <1>6 DEF IInv, Lined

LEMMA IGather ==
  ASSUME IInv, Gather
  PROVE  IInv'
  <1>1. /\ UNCHANGED <<loop, scheduler, logprobs, conv, live, out>>
        /\ \A r \in Ranks : pc[r] = "gather"
    BY DEF Gather
  <1>2. /\ pc' \in [Ranks -> {"gather", "turn", "rollout", "end"}]
        /\ \A r \in Ranks : pc'[r] # "rollout"
    BY DEF Gather
  <1> QED BY <1>1, <1>2 DEF IInv, Lined

(* A pass of a colocated rank: the answer that is put to a dialogue is the  *)
(* one at its place, which is an answer to it.                              *)
LEMMA ITurn ==
  ASSUME IInv, NEW r \in Ranks, Turn(r)
  PROVE  IInv'
  <1> DEFINE Place(d) == CHOOSE i \in DOMAIN live[r] : live[r][i] = d
  <1>1. PICK m \in [Range(live[r]) -> Moves] :
          /\ \A d \in Range(live[r]) : Possible(conv[d], m[d])
          /\ conv' = [d \in Dialogues |->
                        IF d \notin Range(live[r]) THEN conv[d]
                        ELSE Turned(conv[d], out[r][Place(d)], m[d])]
    BY Zenon DEF Turn
  <1>2. /\ pc[r] = "turn"
        /\ live' = [live EXCEPT ![r] = GoOn(live[r], conv')]
        /\ pc' = [pc EXCEPT ![r] = "rollout"]
        /\ UNCHANGED <<loop, scheduler, logprobs, out>>
    BY DEF Turn
  <1>3. out[r] = live[r]
    BY <1>2 DEF IInv, Lined
  <1>4. ASSUME NEW d \in Range(live[r])
        PROVE  out[r][Place(d)] = d
    <2>1. \E i \in DOMAIN live[r] : live[r][i] = d
      BY DEF Range
    <2>2. live[r][Place(d)] = d
      BY <2>1
    <2> QED BY <1>3, <2>2
  <1> HIDE DEF Place
  <1>5. ASSUME NEW d \in Dialogues
        PROVE  conv'[d] \in Conv(Own(d))
    <2>1. conv[d] \in Conv(Own(d))
      BY DEF IInv
    <2>2. CASE d \notin Range(live[r])
      <3>1. conv'[d] = conv[d]
        BY <1>1, <2>2, Zenon
      <3> QED BY <2>1, <3>1
    <2>3. CASE d \in Range(live[r])
      <3>1. conv'[d] = Turned(conv[d], out[r][Place(d)], m[d])
        BY <1>1, <2>3, Zenon
      <3>2. conv'[d] = Turned(conv[d], d, m[d])
        BY <1>4, <2>3, <3>1, Zenon
      <3>3. m[d] \in Moves /\ Possible(conv[d], m[d])
        BY <1>1, <2>3, Zenon
      <3>4. scheduler \in Schedulers
        BY DEF IInv
      <3>5. Turned(conv[d], d, m[d]) \in Conv(Own(d))
        BY <2>1, <3>3, <3>4, TurnedType
      <3> QED BY <3>2, <3>5, Zenon
    <2> QED BY <2>2, <2>3
  <1>6. conv' = [d \in Dialogues |-> conv'[d]]
    <2>1. \E g : conv' = [d \in Dialogues |-> g[d]]
      <3> DEFINE g == [d \in Dialogues |->
                        IF d \notin Range(live[r]) THEN conv[d]
                        ELSE Turned(conv[d], out[r][Place(d)], m[d])]
      <3>1. conv' = g
        BY <1>1, Zenon
      <3>2. g = [d \in Dialogues |-> g[d]]
        BY Zenon
      <3> QED BY <3>1, <3>2, Zenon
    <2> QED BY <2>1
  <1>7. PICK list \in Seq(Dialogues) : list = GoOn(live[r], conv')
    <2>1. live[r] \in Seq(Dialogues)
      BY DEF IInv
    <2>2. PICK convs : convs = conv'
      OBVIOUS
    <2> QED BY <2>1, <2>2, GoOnType
  <1>8. /\ live' \in [Ranks -> Seq(Dialogues)]
        /\ \A s \in Ranks : s # r => live'[s] = live[s] /\ pc'[s] = pc[s]
        /\ pc' \in [Ranks -> {"gather", "turn", "rollout", "end"}]
        /\ pc'[r] = "rollout"
    BY <1>2, <1>7 DEF IInv
  <1>9. Lined'
    BY <1>2, <1>8 DEF IInv, Lined
  <1> QED BY <1>2, <1>5, <1>6, <1>8, <1>9 DEF IInv

(* A rollout: each rank is given the answers to its own requests.           *)
LEMMA IRollout ==
  ASSUME IInv, Rollout
  PROVE  IInv'
  <1>1. live \in [Ranks -> Seq(Dialogues)]
    BY DEF IInv
  <1>2. out' = [r \in Ranks |-> SubSeq(FlattenSeq(live), Start(r) + 1,
                                       Start(r) + Len(live[r]))]
    BY Zenon DEF Rollout
  <1>3. \A r \in Ranks : out'[r] = live[r]
    BY <1>1, <1>2, SliceIsOwn, Zenon
  <1>4. out' \in [Ranks -> Seq(Dialogues)]
    <2>1. DOMAIN out' = Ranks /\ out' = [r \in Ranks |-> out'[r]]
      BY <1>2, Zenon
    <2> QED BY <1>1, <1>3, <2>1
  <1>5. /\ pc' = [r \in Ranks |-> "gather"]
        /\ UNCHANGED <<loop, scheduler, logprobs, conv, live>>
    BY DEF Rollout
  <1> QED BY <1>3, <1>4, <1>5 DEF IInv, Lined

LEMMA INext == IInv /\ [Next]_vars => IInv'
  <1> SUFFICES ASSUME IInv, [Next]_vars
               PROVE  IInv'
    OBVIOUS
  <1>1. CASE Gather
    BY <1>1, IGather
  <1>2. CASE Rollout
    BY <1>2, IRollout
  <1>3. ASSUME NEW d \in Dialogues, Serve(d)
        PROVE  IInv'
    BY <1>3, IServe
  <1>4. ASSUME NEW r \in Ranks, Turn(r)
        PROVE  IInv'
    BY <1>4, ITurn
  <1>5. CASE UNCHANGED vars
    BY <1>5 DEF IInv, Lined, vars
  <1> QED BY <1>1, <1>2, <1>3, <1>4, <1>5 DEF Next

-----------------------------------------------------------------------------
(* What it says of the dialogues.                                           *)

LEMMA OwnTypes ==
  ASSUME NEW d \in Dialogues
  PROVE  LET Toks == Seq([of : Dialogues, turn : 1..MaxTurns, at : Int])
         IN  /\ Seq(Own(d)) \subseteq Toks
             /\ Seq(Seq(Own(d))) \subseteq Seq(Toks)
             /\ Seq(Msg(Own(d))) \subseteq
                    Seq([role : {"user", "assistant"}, content : Toks])
  <1> DEFINE All == [of : Dialogues, turn : 1..MaxTurns, at : Int]
  <1>1. Own(d) \subseteq All
    BY DEF Own
  <1>2. PICK T : T = Own(d)
    OBVIOUS
  <1> HIDE DEF All
  <1>3. Seq(T) \subseteq Seq(All)
    BY <1>1, <1>2
  <1>4. Seq(Seq(T)) \subseteq Seq(Seq(All))
    BY <1>3
  <1>5. Msg(T) \subseteq [role : {"user", "assistant"}, content : Seq(All)]
    BY <1>3 DEF Msg
  <1>6. Seq(Msg(T)) \subseteq
            Seq([role : {"user", "assistant"}, content : Seq(All)])
    <2>1. PICK A, B : /\ A = Msg(T)
                      /\ B = [role : {"user", "assistant"}, content : Seq(All)]
      OBVIOUS
    <2>2. A \subseteq B
      BY <1>5, <2>1
    <2>3. Seq(A) \subseteq Seq(B)
      BY <2>2
    <2> QED BY <2>1, <2>3, Zenon
  <1> QED BY <1>2, <1>3, <1>4, <1>6 DEF All

LEMMA IsOwn == IInv => OwnAnswers
  <1> SUFFICES ASSUME IInv
               PROVE  OwnAnswers
    OBVIOUS
  <1>1. ASSUME NEW d \in Dialogues
        PROVE  /\ conv[d].turn \in 1..MaxTurns /\ conv[d].done \in BOOLEAN
               /\ conv[d].messages \in Seq(Msg(Own(d)))
               /\ conv[d].ids \in Seq(Seq(Own(d)))
               /\ conv[d].lps \in Seq(Seq(Own(d)))
               /\ conv[d].mask \in Seq(Seq({0, 1}))
    BY DEF IInv, Conv
  <1>2. TypeOK
    <2> DEFINE Toks == Seq([of : Dialogues, turn : 1..MaxTurns, at : Int])
    <2>1. ASSUME NEW d \in Dialogues
          PROVE  /\ conv[d].messages \in
                       Seq([role : {"user", "assistant"}, content : Toks])
                 /\ conv[d].ids \in Seq(Toks) /\ conv[d].lps \in Seq(Toks)
      <3>1. /\ Seq(Seq(Own(d))) \subseteq Seq(Toks)
            /\ Seq(Msg(Own(d))) \subseteq
                   Seq([role : {"user", "assistant"}, content : Toks])
        BY OwnTypes
      <3> HIDE DEF Toks
      <3> QED BY <1>1, <3>1
    <2> HIDE DEF Toks
    <2>2. /\ loop \in Loops /\ scheduler \in Schedulers /\ logprobs \in BOOLEAN
          /\ pc \in [Ranks -> {"gather", "turn", "rollout", "end"}]
          /\ live \in [Ranks -> Seq(Dialogues)]
          /\ out \in [Ranks -> Seq(Dialogues)]
      BY DEF IInv
    <2> QED BY <1>1, <2>1, <2>2, Zenon DEF TypeOK, Toks
  <1>3. ASSUME NEW d \in Dialogues, NEW i \in DOMAIN conv[d].messages,
               NEW t \in Range(conv[d].messages[i].content)
        PROVE  t.of = d
    <2>1. PICK ms \in Seq(Msg(Own(d))) : ms = conv[d].messages
      BY <1>1
    <2>2. ms[i] \in Msg(Own(d))
      BY <2>1
    <2>3. ms[i].content \in Seq(Own(d))
      BY <2>2 DEF Msg
    <2>4. t \in Range(ms[i].content)
      BY <2>1
    <2>5. t \in Own(d)
      BY <2>3, <2>4 DEF Range
    <2> QED BY <2>5 DEF Own
  <1> QED BY <1>2, <1>3 DEF OwnAnswers

(* Whatever the ranks and their dialogues, the bound on turns, the answers, *)
(* the loop and the scheduler: a dialogue is made of its own answers.       *)
THEOREM DialoguesAreOwn == Spec => []OwnAnswers
  <1> QED BY IInit, INext, IsOwn, PTL DEF Spec

(* A rank that goes through its outputs has one for each dialogue it has    *)
(* left, in their order (the assertion at rollout_mixin.py:897, and more).  *)
THEOREM OneOutputEach ==
  Spec => [](\A r \in Ranks : pc[r] = "turn" => out[r] = live[r])
  <1>1. IInv => \A r \in Ranks : pc[r] = "turn" => out[r] = live[r]
    BY DEF IInv, Lined
  <1> QED BY <1>1, IInit, INext, PTL DEF Spec
-----------------------------------------------------------------------------
(* The mask and the log-probabilities, which hold besides.                  *)

Mark(toks) == [j \in DOMAIN toks |-> IF toks[j].at = Added THEN 0 ELSE 1]
Marks(ids) == [i \in DOMAIN ids |-> Mark(ids[i])]
Ones1(mask) == Those(FlattenSeq(mask), {1})
Model(ids) == Those(FlattenSeq(ids), Words)

(* What is collected of a dialogue: the mask marks the ids, and there is a  *)
(* log-probability for each token of the model. The scheduler that returns  *)
(* no ids leaves the log-probabilities of earlier turns behind.             *)
Kept(c) ==
    /\ c.mask = Marks(c.ids) /\ Len(Ones1(c.mask)) = Len(Model(c.ids))
    /\ logprobs =>
          IF c.ids # << >> THEN c.lps # << >> /\ FlattenSeq(c.lps) = Model(c.ids)
          ELSE c.lps = << >> \/ scheduler = "plain"
    /\ c.done => c.ids # << >>
    /\ scheduler = "plain" /\ ~c.done => c.ids = << >>

(* The dialogues a colocated rank has left are its own, and go on.          *)
Live ==
    /\ loop = "server" => \A r \in Ranks : pc[r] = "gather"
    /\ \A r \in Ranks : live[r] \in Seq(Range(Batch[r]))
    /\ loop # "server" =>
          \A r \in Ranks : \A d \in Range(live[r]) : ~conv[d].done

MInv == IInv /\ Live /\ \A d \in Dialogues : Kept(conv[d])

Said(d) == [of : {d}, turn : 1..MaxTurns, at : Nat]
Hint(d) == [of : {d}, turn : 1..MaxTurns, at : {Added}]

LEMMA Saying ==
  ASSUME NEW d \in Dialogues
  PROVE  /\ Said(d) \subseteq Own(d) /\ Hint(d) \subseteq Own(d)
         /\ Said(d) \subseteq Words /\ Hint(d) \cap Words = {}
         /\ \A x \in Said(d) : x.at # Added
         /\ \A x \in Hint(d) : x.at = Added
  BY DEF Said, Hint, Own, Words, Added

LEMMA AnswerSaid ==
  ASSUME NEW d, NEW t \in 1..MaxTurns, NEW o \in Outcomes
  PROVE  /\ Answer(d, t, o) \in Seq(Said(d)) /\ Answer(d, t, o) # << >>
         /\ o.len \in Nat /\ Len(Answer(d, t, o)) >= o.len
  <1> DEFINE u == [i \in 1..o.len |-> Token(d, t, i)]
             v == IF o.finish = "stop" THEN <<Token(d, t, Eos)>> ELSE << >>
  <1>1. \A i \in Nat : Token(d, t, i) \in Said(d)
    BY DEF Token, Said
  <1>2. o.len \in Nat /\ (o.finish = "stop" \/ o.len # 0)
    BY OutcomeAssumption
  <1>3. u \in Seq(Said(d)) /\ Len(u) = o.len
    BY <1>1, <1>2
  <1>4. v \in Seq(Said(d)) /\ Len(v) \in Nat /\ (o.finish = "stop" => Len(v) = 1)
    BY <1>1 DEF Eos
  <1> HIDE DEF u, v
  <1>5. u \o v \in Seq(Said(d)) /\ Len(u \o v) = Len(u) + Len(v)
    BY <1>3, <1>4
  <1>6. PICK w \in Seq(Said(d)) : w = u \o v
    BY <1>5
  <1>7. w # << >> /\ Len(w) >= o.len
    <2>1. Len(w) = o.len + Len(v)
      BY <1>3, <1>5, <1>6, Zenon
    <2>2. Len(w) # 0
      <3>1. PICK k \in Nat : k = Len(v)
        BY <1>4
      <3>2. o.len # 0 \/ k = 1
        BY <1>2, <1>4, <3>1, Zenon
      <3>3. PICK l \in Nat : l = o.len
        BY <1>2
      <3>4. l + k # 0
        BY <3>2, <3>3
      <3> QED BY <2>1, <3>1, <3>3, <3>4, Zenon
    <2>3. w # << >>
      BY <2>2
    <2> QED BY <1>2, <1>4, <2>1, <2>3
  <1>8. Answer(d, t, o) = w
    BY <1>6 DEF Answer, u, v
  <1> QED BY <1>2, <1>7, <1>8

(* The mask of what the model said and a scheduler added.                   *)
LEMMA MarkSaid ==
  ASSUME NEW d \in Dialogues, NEW said \in Seq(Said(d)), NEW more \in Seq(Hint(d))
  PROVE  /\ said \o more \in Seq(Own(d))
         /\ Ones(said) \o Zeros(more) = Mark(said \o more)
         /\ Those(said \o more, Words) = said
         /\ Len(Those(Mark(said \o more), {1})) = Len(said)
  <1>1. PICK T : T = Own(d)
    OBVIOUS
  <1>2. PICK u \in Seq(T), v \in Seq(T) : u = said /\ v = more
    BY <1>1, Saying
  <1>3. u \o v \in Seq(T) /\ Len(u) \in Nat /\ Len(v) \in Nat
    BY <1>2
  <1> DEFINE p == Ones(u)
             q == Zeros(v)
  <1>4. p \in Seq({1}) /\ q \in Seq({0}) /\ Len(p) = Len(u) /\ Len(q) = Len(v)
    BY DEF Ones, Zeros
  <1> HIDE DEF p, q
  <1>5. p \in Seq({0, 1}) /\ q \in Seq({0, 1})
    BY <1>4
  <1>6. p \o q = Mark(u \o v)
    <2> DEFINE s == p \o q
               t == u \o v
    <2>1. s \in Seq({0, 1}) /\ Len(s) = Len(u) + Len(v)
      <3>1. s \in Seq({0, 1}) /\ Len(s) = Len(p) + Len(q)
        BY <1>5, ConcatPlaces
      <3> QED BY <1>4, <3>1, Zenon
    <2>2. t \in Seq(T) /\ Len(t) = Len(u) + Len(v)
      BY <1>3
    <2>5. ASSUME NEW i \in 1..Len(u)
          PROVE  t[i] = u[i] /\ s[i] = p[i]
      BY <1>3, <1>4, <1>5, ConcatPlaces
    <2>6. ASSUME NEW j \in 1..Len(v)
          PROVE  t[Len(u) + j] = v[j] /\ s[Len(u) + j] = q[j]
      BY <1>3, <1>4, <1>5, ConcatPlaces
    <2> HIDE DEF s, t
    <2>3. Mark(t) \in Seq({0, 1}) /\ Len(Mark(t)) = Len(t)
      BY ONLY <2>2 DEF Mark
    <2>4. ASSUME NEW i \in 1..(Len(u) + Len(v))
          PROVE  s[i] = Mark(t)[i]
      <3>1. Mark(t)[i] = IF t[i].at = Added THEN 0 ELSE 1
        BY <2>2 DEF Mark
      <3>2. CASE i <= Len(u)
        <4>1. i \in 1..Len(u) /\ t[i] = u[i] /\ s[i] = p[i]
          BY <1>3, <2>5, <3>2
        <4>2. u[i] \in Said(d)
          BY <1>2, <4>1
        <4>3. p[i] = 1
          BY <1>4, <4>1
        <4> QED BY <3>1, <4>1, <4>2, <4>3, Saying
      <3>3. CASE ~ (i <= Len(u))
        <4> DEFINE j == i - Len(u)
        <4>1. j \in 1..Len(v) /\ i = Len(u) + j
          BY <1>3, <3>3
        <4> HIDE DEF j
        <4>2. t[i] = v[j] /\ s[i] = q[j]
          BY <2>6, <4>1
        <4>3. v[j] \in Hint(d)
          BY <1>2, <4>1
        <4>4. q[j] = 0
          BY <1>4, <4>1
        <4> QED BY <3>1, <4>2, <4>3, <4>4, Saying
      <3> QED BY <3>2, <3>3
    <2>7. s = Mark(t)
      BY <2>1, <2>2, <2>3, <2>4, SeqEqual
    <2> QED BY <2>7 DEF s, t
  <1>7. Those(u \o v, Words) = said
    <2>1. Those(u \o v, Words) = Those(u, Words) \o Those(v, Words)
      BY ThoseConcat
    <2>2. Those(said, Words) = said
      BY Saying, ThoseAll
    <2>3. Those(more, Words) = << >>
      BY Saying, ThoseNone
    <2> QED BY <1>2, <2>1, <2>2, <2>3
  <1>8. Those(p \o q, {1}) = p
    <2>1. Those(p \o q, {1}) = Those(p, {1}) \o Those(q, {1})
      BY <1>5, ThoseConcat
    <2>2. Those(p, {1}) = p
      BY <1>4, ThoseAll
    <2>3. Those(q, {1}) = << >>
      <3>1. {0} \cap {1} = {}
        OBVIOUS
      <3> QED BY <1>4, <3>1, ThoseNone
    <2>4. p \o << >> = p
      BY <1>4
    <2> QED BY <2>1, <2>2, <2>3, <2>4, Zenon
  <1> QED BY <1>1, <1>2, <1>3, <1>4, <1>6, <1>7, <1>8 DEF p, q

(* What FlattenSeq makes of a list to which something was added.            *)
LEMMA FlatCollected ==
  ASSUME NEW T, NEW list \in Seq(Seq(T)), NEW continues, NEW new \in Seq(T)
  PROVE  FlattenSeq(Collected(list, continues, new)) = FlattenSeq(list) \o new
  <1>1. CASE new = << >>
    <2>1. PICK u \in Seq(T) : u = FlattenSeq(list)
      BY FlattenType
    <2>2. u \o << >> = u
      OBVIOUS
    <2> QED BY <1>1, <2>1, <2>2, Zenon DEF Collected
  <1>2. CASE new # << >> /\ continues /\ list # << >>
    BY <1>2, FlattenExtend, Zenon DEF Collected
  <1>3. CASE new # << >> /\ ~ (continues /\ list # << >>)
    BY <1>3, FlattenAppend, Zenon DEF Collected
  <1> QED BY <1>1, <1>2, <1>3, Zenon

LEMMA MarkConcat ==
  ASSUME NEW T, NEW u \in Seq(T), NEW v \in Seq(T)
  PROVE  Mark(u \o v) = Mark(u) \o Mark(v)
  <1>1. \A w \in Seq(T) : Mark(w) \in Seq({0, 1}) /\ Len(Mark(w)) = Len(w)
    BY DEF Mark
  <1> DEFINE t == u \o v
             p == Mark(u)
             q == Mark(v)
             s == p \o q
  <1>2. /\ t \in Seq(T) /\ Len(t) = Len(u) + Len(v)
        /\ \A i \in 1..Len(u) : t[i] = u[i]
        /\ \A j \in 1..Len(v) : t[Len(u) + j] = v[j]
    BY ConcatPlaces
  <1>3. p \in Seq({0, 1}) /\ q \in Seq({0, 1}) /\ Len(p) = Len(u) /\ Len(q) = Len(v)
    BY <1>1
  <1>4. \A i \in 1..Len(u) : p[i] = IF u[i].at = Added THEN 0 ELSE 1
    BY DEF Mark
  <1>5. \A j \in 1..Len(v) : q[j] = IF v[j].at = Added THEN 0 ELSE 1
    BY DEF Mark
  <1> HIDE DEF t, p, q
  <1>6. /\ s \in Seq({0, 1}) /\ Len(s) = Len(p) + Len(q)
        /\ \A i \in 1..Len(p) : s[i] = p[i]
        /\ \A j \in 1..Len(q) : s[Len(p) + j] = q[j]
    <2>1. PICK B : B = {0, 1}
      OBVIOUS
    <2>2. p \in Seq(B) /\ q \in Seq(B)
      BY <1>3, <2>1
    <2>3. /\ s \in Seq(B) /\ Len(s) = Len(p) + Len(q)
          /\ \A i \in 1..Len(p) : s[i] = p[i]
          /\ \A j \in 1..Len(q) : s[Len(p) + j] = q[j]
      BY <2>2, ConcatPlaces
    <2> QED BY <2>1, <2>3, Zenon
  <1> HIDE DEF s
  <1>7. Mark(t) \in Seq({0, 1}) /\ Len(Mark(t)) = Len(t)
    BY <1>1, <1>2
  <1>8. \A i \in 1..Len(t) : Mark(t)[i] = IF t[i].at = Added THEN 0 ELSE 1
    BY <1>2 DEF Mark
  <1>9. ASSUME NEW i \in 1..Len(t)
        PROVE  s[i] = Mark(t)[i]
    <2>1. Len(u) \in Nat /\ Len(v) \in Nat
      OBVIOUS
    <2>2. CASE i <= Len(u)
      <3>1. i \in 1..Len(u)
        BY <2>1, <2>2
      <3>2. s[i] = p[i] /\ t[i] = u[i]
        BY <1>2, <1>3, <1>6, <3>1
      <3> QED BY <1>4, <1>8, <3>1, <3>2
    <2>3. CASE ~ (i <= Len(u))
      <3> DEFINE j == i - Len(u)
      <3>1. j \in 1..Len(v) /\ i = Len(u) + j
        BY <1>2, <2>1, <2>3
      <3> HIDE DEF j
      <3>2. s[i] = q[j] /\ t[i] = v[j]
        BY <1>2, <1>3, <1>6, <3>1
      <3> QED BY <1>5, <1>8, <3>1, <3>2
    <2> QED BY <2>2, <2>3
  <1>10. Len(s) = Len(t)
    BY <1>2, <1>3, <1>6
  <1>11. s = Mark(t)
    BY <1>6, <1>7, <1>9, <1>10, SeqEqual
  <1> QED BY <1>11 DEF s, t, p, q

LEMMA MarksEmpty ==
  ASSUME NEW T, NEW ids \in Seq(Seq(T))
  PROVE  (Marks(ids) = << >>) <=> (ids = << >>)
  BY DEF Marks

LEMMA MarksType ==
  ASSUME NEW T
  PROVE  /\ \A w \in Seq(T) : Mark(w) \in Seq({0, 1})
         /\ \A ids \in Seq(Seq(T)) : Marks(ids) \in Seq(Seq({0, 1}))
  <1>1. \A w \in Seq(T) : Mark(w) \in Seq({0, 1})
    BY DEF Mark
  <1>2. ASSUME NEW ids \in Seq(Seq(T))
        PROVE  Marks(ids) \in Seq(Seq({0, 1}))
    <2>1. PICK B : B = Seq({0, 1})
      OBVIOUS
    <2>2. \A i \in DOMAIN ids : Mark(ids[i]) \in B
      BY <1>1, <2>1
    <2>3. PICK n \in Nat : DOMAIN ids = 1..n
      OBVIOUS
    <2>4. Marks(ids) \in [1..n -> B]
      BY <2>2, <2>3 DEF Marks
    <2>5. Marks(ids) \in Seq(B)
      BY <2>4
    <2> QED BY <2>1, <2>5
  <1> QED BY <1>1, <1>2

(* Ids and mask to which an entry and its mask are added.                   *)
LEMMA MarkCollected ==
  ASSUME NEW T, NEW ids \in Seq(Seq(T)), NEW continues, NEW new \in Seq(T)
  PROVE  Collected(Marks(ids), continues, Mark(new))
             = Marks(Collected(ids, continues, new))
  <1>1. /\ Marks(ids) = << >> <=> ids = << >>
        /\ DOMAIN Marks(ids) = DOMAIN ids /\ Len(Marks(ids)) = Len(ids)
        /\ \A i \in DOMAIN ids : Marks(ids)[i] = Mark(ids[i])
    BY DEF Marks
  <1>2. Mark(new) = << >> <=> new = << >>
    BY DEF Mark
  <1>3. \A w \in Seq(T) : Mark(w) \in Seq({0, 1})
    BY MarksType
  <1>4. Marks(ids) \in Seq(Seq({0, 1}))
    BY MarksType
  <1>5. CASE new = << >>
    BY <1>2, <1>5, Zenon DEF Collected
  <1>6. CASE new # << >> /\ continues /\ ids # << >>
    <2>1. PICK n \in Nat \ {0} : n = Len(ids) /\ n \in DOMAIN ids /\ DOMAIN ids = 1..n
      BY <1>6
    <2>2. PICK e \in Seq(T) : e = ids[n] \o new
      <3>1. ids[n] \in Seq(T)
        BY <2>1
      <3>2. \A w \in Seq(T) : w \o new \in Seq(T)
        OBVIOUS
      <3> QED BY <3>1, <3>2, Zenon
    <2>3. Mark(e) = Mark(ids[n]) \o Mark(new)
      <3>1. ids[n] \in Seq(T)
        BY <2>1
      <3> QED BY <2>2, <3>1, MarkConcat
    <2>4. Collected(ids, continues, new) = [ids EXCEPT ![n] = e]
      BY <1>6, <2>1, <2>2, Zenon DEF Collected
    <2>5. Collected(Marks(ids), continues, Mark(new))
              = [Marks(ids) EXCEPT ![n] = Mark(e)]
      <3>1. Collected(Marks(ids), continues, Mark(new))
                = [Marks(ids) EXCEPT ![Len(Marks(ids))] = @ \o Mark(new)]
        BY <1>1, <1>2, <1>6, Zenon DEF Collected
      <3>2. Marks(ids)[n] = Mark(ids[n]) /\ Len(Marks(ids)) = n
        BY <1>1, <2>1
      <3> QED BY <2>3, <3>1, <3>2, Zenon
    <2>6. [Marks(ids) EXCEPT ![n] = Mark(e)] = Marks([ids EXCEPT ![n] = e])
      <3>1. PICK tt : tt = [ids EXCEPT ![n] = e]
        OBVIOUS
      <3>2. DOMAIN tt = 1..n /\ tt[n] = e /\ \A i \in 1..n : i # n => tt[i] = ids[i]
        BY <2>1, <3>1
      <3>3. /\ Marks(tt) = [i \in 1..n |-> Marks(tt)[i]]
            /\ \A i \in 1..n : Marks(tt)[i] = Mark(tt[i])
        BY <3>2 DEF Marks
      <3>4. PICK uu : uu = [Marks(ids) EXCEPT ![n] = Mark(e)]
        OBVIOUS
      <3>5. /\ uu = [i \in 1..n |-> uu[i]] /\ uu[n] = Mark(e)
            /\ \A i \in 1..n : i # n => uu[i] = Mark(ids[i])
        BY <1>1, <2>1, <3>4
      <3>6. \A i \in 1..n : uu[i] = Marks(tt)[i]
        BY <3>2, <3>3, <3>5
      <3>7. uu = Marks(tt)
        BY <3>3, <3>5, <3>6
      <3> QED BY <3>1, <3>4, <3>7
    <2> QED BY <2>4, <2>5, <2>6
  <1>7. CASE new # << >> /\ ~ (continues /\ ids # << >>)
    <2>1. Collected(ids, continues, new) = Append(ids, new)
      BY <1>7, Zenon DEF Collected
    <2>2. Collected(Marks(ids), continues, Mark(new)) = Append(Marks(ids), Mark(new))
      BY <1>1, <1>2, <1>7, Zenon DEF Collected
    <2>3. PICK n \in Nat : n = Len(ids) /\ DOMAIN ids = 1..n
      OBVIOUS
    <2>4. PICK tt \in Seq(Seq(T)) : tt = Append(ids, new)
      <3>1. Append(ids, new) \in Seq(Seq(T))
        OBVIOUS
      <3> QED BY <3>1, Zenon
    <2>5. DOMAIN tt = 1..(n + 1) /\ tt[n + 1] = new /\ \A i \in 1..n : tt[i] = ids[i]
      BY <2>3, <2>4
    <2>6. /\ Marks(tt) = [i \in 1..(n + 1) |-> Marks(tt)[i]]
          /\ \A i \in 1..(n + 1) : Marks(tt)[i] = Mark(tt[i])
      BY <2>5 DEF Marks
    <2>7. PICK uu \in Seq(Seq({0, 1})) : uu = Append(Marks(ids), Mark(new))
      <3>1. Mark(new) \in Seq({0, 1})
        BY <1>3
      <3>2. Append(Marks(ids), Mark(new)) \in Seq(Seq({0, 1}))
        BY <1>4, <3>1
      <3> QED BY <3>2, Zenon
    <2>8. /\ uu = [i \in 1..(n + 1) |-> uu[i]] /\ uu[n + 1] = Mark(new)
          /\ \A i \in 1..n : uu[i] = Mark(ids[i])
      <3>1. PICK mm \in Seq(Seq({0, 1})) : mm = Marks(ids)
        BY <1>4, Zenon
      <3>2. Len(mm) = n /\ \A i \in 1..n : mm[i] = Mark(ids[i])
        BY <1>1, <2>3, <3>1
      <3>3. uu = Append(mm, Mark(new))
        BY <2>7, <3>1, Zenon
      <3>4. Len(uu) = n + 1 /\ uu[n + 1] = Mark(new) /\ \A i \in 1..n : uu[i] = mm[i]
        BY <3>2, <3>3
      <3> QED BY <3>2, <3>4
    <2>9. \A i \in 1..(n + 1) : i = n + 1 \/ i \in 1..n
      OBVIOUS
    <2>10. \A i \in 1..(n + 1) : uu[i] = Marks(tt)[i]
      BY <2>5, <2>6, <2>8, <2>9
    <2>11. uu = Marks(tt)
      BY <2>6, <2>8, <2>10
    <2> QED BY <2>1, <2>2, <2>4, <2>7, <2>11
  <1> QED BY <1>5, <1>6, <1>7

(* The tokens that are counted, when an entry and its mask are added.       *)
LEMMA CountCollected ==
  ASSUME NEW T, NEW ids \in Seq(Seq(T)), NEW continues, NEW new \in Seq(T),
         Len(Ones1(Marks(ids))) = Len(Model(ids)),
         Len(Those(Mark(new), {1})) = Len(Those(new, Words))
  PROVE  /\ Model(Collected(ids, continues, new))
                = Model(ids) \o Those(new, Words)
         /\ Len(Ones1(Marks(Collected(ids, continues, new))))
                = Len(Model(Collected(ids, continues, new)))
  <1>1. PICK B : B = {0, 1}
    OBVIOUS
  <1>2. /\ Marks(ids) \in Seq(Seq(B)) /\ Mark(new) \in Seq(B)
    BY <1>1, MarksType
  <1>3. PICK u \in Seq(T), m \in Seq(B) :
            u = FlattenSeq(ids) /\ m = FlattenSeq(Marks(ids))
    BY <1>2, FlattenType
  <1>4. FlattenSeq(Collected(ids, continues, new)) = u \o new
    BY <1>3, FlatCollected
  <1>5. FlattenSeq(Marks(Collected(ids, continues, new))) = m \o Mark(new)
    <2>1. PICK mm \in Seq(Seq(B)), e \in Seq(B) : mm = Marks(ids) /\ e = Mark(new)
      BY <1>2, Zenon
    <2>2. FlattenSeq(Collected(mm, continues, e)) = FlattenSeq(mm) \o e
      BY FlatCollected
    <2>3. Collected(Marks(ids), continues, Mark(new))
              = Marks(Collected(ids, continues, new))
      BY MarkCollected
    <2> QED BY <1>3, <2>1, <2>2, <2>3, Zenon
  <1>6. Those(u \o new, Words) = Those(u, Words) \o Those(new, Words)
    BY ThoseConcat
  <1>7. Those(m \o Mark(new), {1}) = Those(m, {1}) \o Those(Mark(new), {1})
    <2>1. \A s \in Seq(B), t \in Seq(B) :
              Those(s \o t, {1}) = Those(s, {1}) \o Those(t, {1})
      BY ONLY ThoseConcat, Zenon
    <2> QED BY <1>2, <2>1, Zenon
  <1>8. /\ Those(u, Words) \in Seq(T) /\ Those(new, Words) \in Seq(T)
        /\ Those(m, {1}) \in Seq(B) /\ Those(Mark(new), {1}) \in Seq(B)
    BY <1>2, ThoseType
  <1>9. /\ Len(Those(u, Words) \o Those(new, Words))
               = Len(Those(u, Words)) + Len(Those(new, Words))
        /\ Len(Those(m, {1}) \o Those(Mark(new), {1}))
               = Len(Those(m, {1})) + Len(Those(Mark(new), {1}))
    BY <1>8
  <1>10. Len(Those(m, {1})) = Len(Those(u, Words))
    BY <1>3 DEF Ones1, Model
  <1>11. Model(Collected(ids, continues, new)) = Model(ids) \o Those(new, Words)
    BY <1>3, <1>4, <1>6, Zenon DEF Model
  <1>12. Len(Those(m \o Mark(new), {1})) = Len(Those(u \o new, Words))
    BY <1>6, <1>7, <1>9, <1>10, Zenon
  <1>13. Len(Ones1(Marks(Collected(ids, continues, new))))
             = Len(Model(Collected(ids, continues, new)))
    BY <1>4, <1>5, <1>12, Zenon DEF Ones1, Model
  <1> QED BY <1>11, <1>13

(* The first entry.                                                         *)
LEMMA MarkFirst ==
  ASSUME NEW T, NEW new \in Seq(T), Len(Those(Mark(new), {1})) = Len(Those(new, Words))
  PROVE  /\ Marks(<<new>>) = <<Mark(new)>>
         /\ Model(<<new>>) = Those(new, Words)
         /\ Len(Ones1(Marks(<<new>>))) = Len(Model(<<new>>))
  <1>1. Marks(<<new>>) = <<Mark(new)>>
    <2>1. PICK ids : ids = <<new>>
      OBVIOUS
    <2>2. DOMAIN ids = 1..1 /\ ids[1] = new
      BY <2>1
    <2>3. Marks(ids) = [i \in 1..1 |-> Mark(new)]
      BY <2>2 DEF Marks
    <2>4. PICK e : e = Mark(new)
      OBVIOUS
    <2>5. [i \in 1..1 |-> e] = <<e>>
      OBVIOUS
    <2> QED BY <2>1, <2>3, <2>4, <2>5
  <1>2. FlattenSeq(<<new>>) = new /\ FlattenSeq(<<Mark(new)>>) = Mark(new)
    BY FlattenOne
  <1> QED BY <1>1, <1>2, Zenon DEF Ones1, Model

(* Log-probabilities are dropped only if they are not one for each token.   *)
LEMMA CheckedKept ==
  ASSUME NEW ids, NEW mask, NEW lps, mask # << >>,
         Len(Ones1(mask)) = Len(Model(ids)), FlattenSeq(lps) = Model(ids)
  PROVE  CheckedLps(ids, mask, lps) = lps
  <1>1. Those(FlattenSeq(mask), {1}) = Ones1(mask)
    BY Zenon DEF Ones1
  <1>2. Len(FlattenSeq(lps)) = Len(Ones1(mask))
    BY Zenon
  <1> QED BY <1>1, <1>2, Zenon DEF CheckedLps

LEMMA CollectedSome ==
  ASSUME NEW T, NEW list \in Seq(Seq(T)), list # << >>, NEW continues,
         NEW new \in Seq(T)
  PROVE  Collected(list, continues, new) # << >>
  <1>1. Append(list, new) # << >>
    <2>1. Len(Append(list, new)) = Len(list) + 1 /\ Len(list) \in Nat
      OBVIOUS
    <2>2. Len(Append(list, new)) # 0 /\ Len(<< >>) = 0
      BY <2>1
    <2> QED BY <2>2, Zenon
  <1>2. [list EXCEPT ![Len(list)] = @ \o new] # << >>
    <2>1. DOMAIN [list EXCEPT ![Len(list)] = @ \o new] = DOMAIN list
      OBVIOUS
    <2>2. DOMAIN list # {} /\ DOMAIN << >> = {}
      <3>1. Len(list) \in DOMAIN list
        OBVIOUS
      <3> QED BY <3>1
    <2> QED BY <2>1, <2>2
  <1> QED BY <1>1, <1>2, Zenon DEF Collected

(* What a last turn collects.                                               *)
LEMMA StoppedKept ==
  ASSUME NEW d \in Dialogues, NEW c \in Conv(Own(d)), Kept(c),
         NEW toks \in Seq(Said(d)), toks # << >>, NEW continues
  PROVE  Kept(Stopped(c, toks, continues))
  <1> DEFINE T == Own(d)
             first == c.ids = << >>
             skip == Skips(c, continues)
             ids == IF first THEN <<toks>> ELSE IF skip THEN c.ids
                    ELSE Collected(c.ids, continues, toks)
             mask == IF first THEN <<Ones(toks)>>
                     ELSE IF skip \/ (continues /\ c.mask = << >>) THEN c.mask
                     ELSE Collected(c.mask, continues, Ones(toks))
             lps == IF first /\ logprobs THEN <<toks>>
                    ELSE IF first \/ skip \/ (continues /\ c.lps = << >>)
                    THEN c.lps
                    ELSE Collected(c.lps, continues, Lps(toks))
  <1>1. Stopped(c, toks, continues) =
            [messages |-> c.messages, turn |-> c.turn, done |-> TRUE,
             ids |-> ids, mask |-> mask, lps |-> CheckedLps(ids, mask, lps)]
    BY Zenon DEF Stopped
  <1>2. /\ c.ids \in Seq(Seq(T)) /\ c.mask \in Seq(Seq({0, 1}))
        /\ c.lps \in Seq(Seq(T))
    BY DEF Conv
  <1>3. /\ toks \in Seq(T) /\ Ones(toks) = Mark(toks)
        /\ Those(toks, Words) = toks /\ Len(Those(Mark(toks), {1})) = Len(toks)
    <2>1. << >> \in Seq(Hint(d))
      OBVIOUS
    <2>2. /\ toks \o << >> \in Seq(T)
          /\ Ones(toks) \o Zeros(<< >>) = Mark(toks \o << >>)
          /\ Those(toks \o << >>, Words) = toks
          /\ Len(Those(Mark(toks \o << >>), {1})) = Len(toks)
      BY <2>1, MarkSaid
    <2>3. toks \o << >> = toks
      OBVIOUS
    <2>4. Zeros(<< >>) = << >>
      BY DEF Zeros
    <2>5. Ones(toks) \o << >> = Ones(toks)
      BY DEF Ones
    <2> QED BY <2>2, <2>3, <2>4, <2>5, Zenon
  <1> HIDE DEF T
  <1>4. /\ c.mask = Marks(c.ids) /\ Len(Ones1(c.mask)) = Len(Model(c.ids))
        /\ logprobs /\ c.ids # << >> =>
               c.lps # << >> /\ FlattenSeq(c.lps) = Model(c.ids)
        /\ (c.mask = << >>) <=> (c.ids = << >>)
    <2>1. (Marks(c.ids) = << >>) <=> (c.ids = << >>)
      BY <1>2, MarksEmpty
    <2> QED BY <2>1, Zenon DEF Kept
  <1>5. /\ ids # << >> /\ mask = Marks(ids)
        /\ Len(Ones1(mask)) = Len(Model(ids))
        /\ logprobs => lps # << >> /\ FlattenSeq(lps) = Model(ids)
    <2>1. CASE first
      <3>1. ids = <<toks>> /\ mask = <<Mark(toks)>> /\ (logprobs => lps = <<toks>>)
        BY <1>3, <2>1, Zenon
      <3>2. <<toks>> # << >>
        OBVIOUS
      <3> HIDE DEF ids, mask, lps
      <3>3. /\ Marks(<<toks>>) = <<Mark(toks)>> /\ Model(<<toks>>) = toks
            /\ Len(Ones1(Marks(<<toks>>))) = Len(Model(<<toks>>))
        BY <1>3, MarkFirst
      <3>4. FlattenSeq(<<toks>>) = toks
        BY FlattenOne
      <3> QED BY <3>1, <3>2, <3>3, <3>4, Zenon
    <2>2. CASE ~first /\ skip
      <3>1. ids = c.ids /\ mask = c.mask /\ lps = c.lps
        BY <2>2, Zenon
      <3> QED BY <1>4, <2>2, <3>1, Zenon
    <2>3. CASE ~first /\ ~skip
      <3>1. /\ ids = Collected(c.ids, continues, toks)
            /\ mask = Collected(Marks(c.ids), continues, Mark(toks))
            /\ logprobs => lps = Collected(c.lps, continues, toks)
        BY <1>3, <1>4, <2>3, Zenon DEF Lps
      <3> HIDE DEF ids, mask, lps
      <3>2. mask = Marks(ids)
        BY <1>2, <1>3, <3>1, MarkCollected
      <3>3. /\ Model(ids) = Model(c.ids) \o toks
            /\ Len(Ones1(Marks(ids))) = Len(Model(ids))
        <4>1. Len(Ones1(Marks(c.ids))) = Len(Model(c.ids))
          BY <1>4, Zenon
        <4>2. Len(Those(Mark(toks), {1})) = Len(Those(toks, Words))
          BY <1>3, Zenon
        <4>3. /\ Model(Collected(c.ids, continues, toks))
                     = Model(c.ids) \o Those(toks, Words)
              /\ Len(Ones1(Marks(Collected(c.ids, continues, toks))))
                     = Len(Model(Collected(c.ids, continues, toks)))
          <5>1. PICK Q : Q = T
            OBVIOUS
          <5>2. c.ids \in Seq(Seq(Q)) /\ toks \in Seq(Q)
            BY <1>2, <1>3, <5>1, Zenon
          <5> QED BY ONLY <4>1, <4>2, <5>2, CountCollected, Zenon
        <4> QED BY <1>3, <3>1, <4>3, Zenon
      <3>4. FlattenSeq(Collected(c.lps, continues, toks)) = FlattenSeq(c.lps) \o toks
        BY <1>2, <1>3, FlatCollected
      <3>5. ids # << >> /\ (logprobs => lps # << >>)
        BY <1>2, <1>3, <1>4, <2>3, <3>1, CollectedSome, Zenon
      <3> QED BY <1>4, <2>3, <3>1, <3>2, <3>3, <3>4, <3>5, Zenon
    <2> QED BY <2>1, <2>2, <2>3, Zenon
  <1> HIDE DEF ids, mask, lps
  <1>6. mask # << >>
    BY <1>5 DEF Marks
  <1>7. logprobs => CheckedLps(ids, mask, lps) = lps
    BY <1>5, <1>6, CheckedKept, Zenon
  <1>8. PICK e : e = CheckedLps(ids, mask, lps)
    OBVIOUS
  <1>9. PICK s : s = Stopped(c, toks, continues)
    OBVIOUS
  <1>10. s.ids = ids /\ s.mask = mask /\ s.lps = e /\ s.done
    BY <1>1, <1>8, <1>9
  <1> QED BY <1>5, <1>7, <1>8, <1>9, <1>10, Zenon DEF Kept

(* What a scheduler that returns ids gives: the answer or its beginning,    *)
(* what it added, and log-probabilities of the former.                      *)
Marking(d, ret, toks) ==
    \E said \in Seq(Said(d)), more \in Seq(Hint(d)) :
        /\ said # << >> /\ ret.ids = said \o more
        /\ ret.mask = Ones(said) \o Zeros(more)
        /\ (IF ret.lps # << >> THEN ret.lps ELSE Lps(toks)) = Lps(said)

LEMMA TipsKept ==
  ASSUME NEW d \in Dialogues, NEW ms, NEW toks \in Seq(Said(d)), toks # << >>,
         NEW hint \in Seq(Hint(d)), NEW o, NEW cut \in Nat,
         o.len \in Nat, cut <= o.len, o.len <= Len(toks)
  PROVE  Marking(d, Tips(ms, toks, hint, o, cut), toks)
  <1> DEFINE text == IF cut = o.len THEN toks ELSE SubSeq(toks, 1, cut)
             kept == IF cut = o.len THEN toks
                     ELSE SubSeq(toks, 1, IF cut = 0 THEN 1 ELSE cut)
             ret == Tips(ms, toks, hint, o, cut)
  <1>1. kept \in Seq(Said(d)) /\ kept # << >>
    <2>1. CASE cut = o.len
      BY <2>1
    <2>2. CASE cut # o.len
      <3>1. PICK n \in Nat \ {0} : n = (IF cut = 0 THEN 1 ELSE cut) /\ n <= Len(toks)
        BY <2>2
      <3>2. \A i \in 1..n : toks[i] \in Said(d)
        BY <3>1
      <3>3. SubSeq(toks, 1, n) \in Seq(Said(d)) /\ Len(SubSeq(toks, 1, n)) = n
        BY <3>1, <3>2, SubSeqProperties
      <3>4. SubSeq(toks, 1, n) # << >>
        BY <3>1, <3>3
      <3> QED BY <2>2, <3>1, <3>3, <3>4
    <2> QED BY <2>1, <2>2
  <1>2. ret = Returned([ms EXCEPT ![Len(ms)].content = text \o hint],
                       hint, kept, Lps(kept))
    BY Zenon DEF Tips
  <1> HIDE DEF kept, text
  <1>3. /\ ret.ids = kept \o hint /\ ret.mask = Ones(kept) \o Zeros(hint)
        /\ ret.lps = Lps(kept)
    BY <1>2 DEF Returned
  <1> HIDE DEF ret
  <1>4. (IF ret.lps # << >> THEN ret.lps ELSE Lps(toks)) = Lps(kept)
    BY <1>1, <1>3, Zenon DEF Lps
  <1>5. Marking(d, ret, toks)
    BY <1>1, <1>3, <1>4, Zenon DEF Marking
  <1> QED BY <1>5 DEF ret

LEMMA SteppedKept ==
  ASSUME NEW d \in Dialogues, NEW ms, NEW toks \in Seq(Said(d)), toks # << >>,
         NEW hint \in Seq(Hint(d)), NEW o, NEW cut \in Nat,
         scheduler \in Schedulers, scheduler # "plain",
         o.len \in Nat, o.len <= Len(toks), scheduler = "tips" => cut <= o.len
  PROVE  Marking(d, Stepped(ms, toks, hint, o, cut), toks)
  <1>1. CASE scheduler = "tips"
    <2>1. Stepped(ms, toks, hint, o, cut) = Tips(ms, toks, hint, o, cut)
      BY <1>1 DEF Stepped
    <2> QED BY <1>1, <2>1, TipsKept
  <1>2. ASSUME NEW said, NEW more \in Seq(Hint(d))
        PROVE  Marking(d, Returned(said, more, toks, << >>), toks)
    <2>1. PICK ret : ret = Returned(said, more, toks, << >>)
      OBVIOUS
    <2>2. /\ ret.ids = toks \o more /\ ret.mask = Ones(toks) \o Zeros(more)
          /\ ret.lps = << >>
      BY <2>1 DEF Returned
    <2>3. (IF ret.lps # << >> THEN ret.lps ELSE Lps(toks)) = Lps(toks)
      BY <2>2, Zenon
    <2> QED BY <2>1, <2>2, <2>3, Zenon DEF Marking
  <1>3. CASE scheduler = "tools"
    <2>1. PICK said : said = [ms EXCEPT ![Len(ms)].content = @ \o hint]
      OBVIOUS
    <2>2. Stepped(ms, toks, hint, o, cut) = Returned(said, hint, toks, << >>)
      BY <1>3, <2>1 DEF Stepped
    <2> QED BY <1>2, <2>2
  <1>4. CASE scheduler = "chat"
    <2>1. Stepped(ms, toks, hint, o, cut)
              = Returned(Append(ms, User), << >>, toks, << >>)
      BY <1>4 DEF Stepped
    <2>2. << >> \in Seq(Hint(d))
      OBVIOUS
    <2> QED BY <1>2, <2>1, <2>2
  <1> QED BY <1>1, <1>3, <1>4, SchedulerAssumption

LEMMA CollectedNew ==
  ASSUME NEW T, NEW list \in Seq(Seq(T)), NEW continues, NEW new \in Seq(T),
         new # << >>
  PROVE  Collected(list, continues, new) # << >>
  <1>1. CASE list # << >>
    BY <1>1, CollectedSome
  <1>2. CASE list = << >>
    <2>1. Collected(list, continues, new) = Append(list, new)
      BY <1>2, Zenon DEF Collected
    <2>2. Append(list, new) = <<new>> /\ Len(<<new>>) = 1 /\ Len(<< >>) = 0
      BY <1>2
    <2>3. <<new>> # << >>
      BY <2>2
    <2> QED BY <2>1, <2>2, <2>3, Zenon
  <1> QED BY <1>1, <1>2

(* What a turn collects after which the dialogue goes on.                   *)
LEMMA GoesOnKept ==
  ASSUME NEW d \in Dialogues, NEW c \in Conv(Own(d)), Kept(c), ~c.done, NEW ret,
         NEW toks, NEW continues,
         IF scheduler = "plain" THEN ret.ids = << >> /\ ret.mask = << >>
         ELSE Marking(d, ret, toks)
  PROVE  Kept(GoesOn(c, ret, toks, continues))
  <1> DEFINE T == Own(d)
             new == IF ret.lps # << >> THEN ret.lps ELSE Lps(toks)
             ids == Collected(c.ids, continues, ret.ids)
             mask == Collected(c.mask, continues, ret.mask)
             lps == Collected(c.lps, continues, new)
  <1>1. GoesOn(c, ret, toks, continues) =
            [messages |-> WithDummy(ret.messages), turn |-> c.turn + 1,
             done |-> c.done, ids |-> ids, mask |-> mask, lps |-> lps]
    BY Zenon DEF GoesOn
  <1>2. c.ids \in Seq(Seq(T)) /\ c.lps \in Seq(Seq(T))
    BY DEF Conv
  <1>3. /\ c.mask = Marks(c.ids) /\ Len(Ones1(c.mask)) = Len(Model(c.ids))
        /\ logprobs /\ c.ids # << >> =>
               c.lps # << >> /\ FlattenSeq(c.lps) = Model(c.ids)
        /\ logprobs /\ c.ids = << >> => c.lps = << >> \/ scheduler = "plain"
        /\ scheduler = "plain" => c.ids = << >>
    BY Zenon DEF Kept
  <1>4. PICK s : s = GoesOn(c, ret, toks, continues)
    OBVIOUS
  <1>5. s.ids = ids /\ s.mask = mask /\ s.lps = lps /\ s.done = c.done
    BY <1>1, <1>4
  <1>6. CASE scheduler = "plain"
    <2>1. ids = c.ids /\ mask = c.mask
      BY <1>6, Zenon DEF Collected
    <2> QED BY <1>3, <1>4, <1>5, <1>6, <2>1, Zenon DEF Kept
  <1>7. CASE scheduler # "plain"
    <2>1. PICK said \in Seq(Said(d)), more \in Seq(Hint(d)) :
              /\ said # << >> /\ ret.ids = said \o more
              /\ ret.mask = Ones(said) \o Zeros(more) /\ new = Lps(said)
      BY <1>7, Zenon DEF Marking
    <2> DEFINE more2 == said \o more
    <2>2. /\ more2 \in Seq(T) /\ ret.mask = Mark(more2)
          /\ Those(more2, Words) = said
          /\ Len(Those(Mark(more2), {1})) = Len(said)
      BY <2>1, MarkSaid
    <2>3. said \in Seq(T)
      BY Saying
    <2>4. more2 # << >>
      <3>1. Len(said) \in Nat \ {0} /\ Len(more) \in Nat
        BY <2>1
      <3>2. Len(more2) = Len(said) + Len(more)
        OBVIOUS
      <3>3. Len(more2) # 0 /\ Len(<< >>) = 0
        BY <3>1, <3>2
      <3> QED BY <3>3, Zenon
    <2>5. ret.ids = more2
      BY <2>1
    <2> HIDE DEF more2, T, new
    <2>6. mask = Marks(ids)
      BY <1>2, <1>3, <2>2, <2>5, MarkCollected
    <2>7. /\ Model(ids) = Model(c.ids) \o said
          /\ Len(Ones1(Marks(ids))) = Len(Model(ids))
      <3>1. Len(Ones1(Marks(c.ids))) = Len(Model(c.ids))
        BY <1>3, Zenon
      <3>2. Len(Those(Mark(more2), {1})) = Len(Those(more2, Words))
        BY <2>2, Zenon
      <3>3. /\ Model(Collected(c.ids, continues, more2))
                   = Model(c.ids) \o Those(more2, Words)
            /\ Len(Ones1(Marks(Collected(c.ids, continues, more2))))
                   = Len(Model(Collected(c.ids, continues, more2)))
        <4>1. PICK Q : Q = T
          OBVIOUS
        <4>2. c.ids \in Seq(Seq(Q)) /\ more2 \in Seq(Q)
          BY <1>2, <2>2, <4>1, Zenon
        <4> QED BY ONLY <3>1, <3>2, <4>2, CountCollected, Zenon
      <3> QED BY <2>2, <2>5, <3>3, Zenon
    <2>8. ids # << >>
      BY <1>2, <2>2, <2>4, <2>5, CollectedNew
    <2>9. ASSUME logprobs
          PROVE  lps # << >> /\ FlattenSeq(lps) = Model(ids)
      <3>1. new = said
        BY <2>1, <2>9, Zenon DEF Lps
      <3>2. lps # << >>
        BY <1>2, <2>1, <2>3, <3>1, CollectedNew
      <3>3. FlattenSeq(lps) = FlattenSeq(c.lps) \o said
        BY <1>2, <2>3, <3>1, FlatCollected
      <3>4. FlattenSeq(c.lps) = Model(c.ids)
        <4>1. CASE c.ids # << >>
          BY <1>3, <2>9, <4>1, Zenon
        <4>2. CASE c.ids = << >>
          <5>1. c.lps = << >>
            BY <1>3, <1>7, <2>9, <4>2, Zenon
          <5> QED BY <4>2, <5>1, FlattenEmpty, ThoseEmpty, Zenon DEF Model
        <4> QED BY <4>1, <4>2
      <3> QED BY <2>7, <3>2, <3>3, <3>4, Zenon
    <2> HIDE DEF ids, mask, lps
    <2> QED BY <1>4, <1>5, <1>7, <2>6, <2>7, <2>8, <2>9, Zenon DEF Kept
  <1> QED BY <1>6, <1>7

LEMMA TurnedKept ==
  ASSUME NEW d \in Dialogues, NEW c \in Conv(Own(d)), Kept(c), ~c.done,
         NEW m \in Moves, Possible(c, m), scheduler \in Schedulers
  PROVE  Kept(Turned(c, d, m))
  <1> DEFINE T == Own(d)
             before == IF Last(c.messages) = Dummy THEN Front(c.messages)
                       ELSE c.messages
             toks == Answer(d, c.turn, m.o)
             continues == Last(before).role = "assistant"
             told == [c EXCEPT !.messages = Heard(before, toks)]
             hint == <<Token(d, c.turn, Added)>>
             ret == Stepped(told.messages, toks, hint, m.o, m.cut)
  <1>1. Turned(c, d, m) = IF Finished(c, m) THEN Stopped(told, toks, continues)
                          ELSE GoesOn(told, ret, toks, continues)
    BY Zenon DEF Turned
  <1>2. /\ m.o \in Outcomes /\ m.cut \in Nat
        /\ scheduler = "tips" => m.cut <= m.o.len
    BY DEF Moves, Possible
  <1>3. c.turn \in 1..MaxTurns /\ c.messages \in Seq(Msg(T))
    BY DEF Conv
  <1>4. /\ toks \in Seq(Said(d)) /\ toks # << >>
        /\ m.o.len \in Nat /\ m.o.len <= Len(toks)
    <2>1. /\ toks \in Seq(Said(d)) /\ toks # << >>
          /\ m.o.len \in Nat /\ Len(toks) >= m.o.len
      BY <1>2, <1>3, AnswerSaid
    <2> HIDE DEF toks
    <2> QED BY <2>1
  <1>5. hint \in Seq(Hint(d))
    <2>1. Token(d, c.turn, Added) \in Hint(d)
      BY <1>3 DEF Token, Hint
    <2> QED BY <2>1
  <1>6. before \in Seq(Msg(T))
    BY <1>3, FrontType
  <1> HIDE DEF before, toks, continues, hint
  <1>7. told \in Conv(T) /\ Kept(told) /\ ~told.done
    <2>1. toks \in Seq(T)
      BY <1>4, Saying
    <2>2. Heard(before, toks) \in Seq(Msg(T))
      BY <1>6, <2>1, HeardType
    <2> HIDE DEF T
    <2>3. told \in Conv(T)
      BY <2>2 DEF Conv, T
    <2>4. /\ told.ids = c.ids /\ told.mask = c.mask /\ told.lps = c.lps
          /\ told.done = c.done
      BY DEF Conv, T
    <2> HIDE DEF told
    <2>5. Kept(told)
      BY <2>4, Zenon DEF Kept
    <2> QED BY <2>3, <2>4, <2>5
  <1> HIDE DEF told
  <1>8. Kept(Stopped(told, toks, continues))
    BY <1>4, <1>7, StoppedKept
  <1>9. IF scheduler = "plain" THEN ret.ids = << >> /\ ret.mask = << >>
        ELSE Marking(d, ret, toks)
    <2>1. CASE scheduler = "plain"
      BY <2>1 DEF Stepped
    <2>2. CASE scheduler # "plain"
      BY <1>2, <1>4, <1>5, <2>2, SteppedKept
    <2> QED BY <2>1, <2>2
  <1> HIDE DEF ret
  <1>10. Kept(GoesOn(told, ret, toks, continues))
    BY <1>7, <1>9, GoesOnKept
  <1> QED BY <1>1, <1>8, <1>10, Zenon

-----------------------------------------------------------------------------
(* The invariant of both is inductive, too.                                 *)

LEMMA MInit == Init => MInv
  <1> SUFFICES ASSUME Init
               PROVE  MInv
    OBVIOUS
  <1>1. IInv
    BY IInit
  <1>2. /\ pc = [r \in Ranks |-> "gather"] /\ live = Batch
        /\ conv = [d \in Dialogues |-> New]
    BY DEF Init
  <1>3. Live
    <2>1. ASSUME NEW r \in Ranks
          PROVE  /\ live[r] \in Seq(Range(Batch[r]))
                 /\ \A d \in Range(live[r]) : ~conv[d].done
      <3>1. PICK s \in Seq(Dialogues) : s = Batch[r]
        BY BatchAssumption DEF Ranks
      <3>2. s \in Seq(Range(s)) /\ Range(s) \subseteq Dialogues
        BY DEF Range
      <3>3. \A d \in Dialogues : ~conv[d].done
        BY <1>2 DEF New
      <3> QED BY <1>2, <3>1, <3>2, <3>3
    <2> QED BY <1>2, <2>1 DEF Live
  <1>4. Kept(New)
    <2>1. New.ids = << >> /\ New.mask = << >> /\ New.lps = << >> /\ ~New.done
      BY DEF New
    <2>2. Marks(<< >>) = << >>
      BY DEF Marks
    <2>3. Len(Ones1(<< >>)) = Len(Model(<< >>))
      BY FlattenEmpty, ThoseEmpty, Zenon DEF Ones1, Model
    <2> QED BY <2>1, <2>2, <2>3, Zenon DEF Kept
  <1> QED BY <1>1, <1>2, <1>3, <1>4 DEF MInv

LEMMA MServe ==
  ASSUME MInv, NEW d \in Dialogues, Serve(d)
  PROVE  MInv'
  <1>1. PICK m \in Moves : /\ Possible(conv[d], m)
                           /\ conv' = [conv EXCEPT ![d] = Turned(@, d, m)]
    BY DEF Serve
  <1>2. /\ UNCHANGED <<loop, scheduler, logprobs, pc, live, out>>
        /\ loop = "server" /\ ~conv[d].done
    BY DEF Serve
  <1>3. IInv'
    BY IServe DEF MInv
  <1>4. Live'
    BY <1>2 DEF MInv, Live
  <1>5. ASSUME NEW e \in Dialogues
        PROVE  Kept(conv[e])'
    <2>1. Kept(conv[e])
      BY DEF MInv
    <2>2. PICK c : c = Turned(conv[d], d, m)
      OBVIOUS
    <2>3. Kept(c)
      BY <1>1, <1>2, <2>2, TurnedKept DEF MInv, IInv
    <2>4. conv' = [conv EXCEPT ![d] = c]
      BY <1>1, <2>2, Zenon
    <2>5. conv'[e] = IF e = d THEN c ELSE conv[e]
      BY <2>4 DEF MInv, IInv
    <2>6. Kept(conv'[e])
      BY <2>1, <2>3, <2>5, Zenon
    <2> QED BY <1>2, <2>6, Zenon DEF Kept
  <1> QED BY <1>3, <1>4, <1>5 DEF MInv

LEMMA MTurn ==
  ASSUME MInv, NEW r \in Ranks, Turn(r)
  PROVE  MInv'
  <1> DEFINE Place(d) == CHOOSE i \in DOMAIN live[r] : live[r][i] = d
  <1>1. PICK m \in [Range(live[r]) -> Moves] :
          /\ \A d \in Range(live[r]) : Possible(conv[d], m[d])
          /\ conv' = [d \in Dialogues |->
                        IF d \notin Range(live[r]) THEN conv[d]
                        ELSE Turned(conv[d], out[r][Place(d)], m[d])]
    BY Zenon DEF Turn
  <1>2. /\ pc[r] = "turn"
        /\ live' = [live EXCEPT ![r] = GoOn(live[r], conv')]
        /\ pc' = [pc EXCEPT ![r] = "rollout"]
        /\ UNCHANGED <<loop, scheduler, logprobs, out>>
    BY DEF Turn
  <1>3. out[r] = live[r] /\ loop # "server"
    BY <1>2 DEF MInv, IInv, Lined, Live
  <1>4. ASSUME NEW d \in Range(live[r])
        PROVE  out[r][Place(d)] = d
    <2>1. \E i \in DOMAIN live[r] : live[r][i] = d
      BY DEF Range
    <2>2. live[r][Place(d)] = d
      BY <2>1
    <2> QED BY <1>3, <2>2
  <1> HIDE DEF Place
  <1>5. IInv'
    BY ITurn DEF MInv
  <1>6. ASSUME NEW d \in Dialogues
        PROVE  /\ Kept(conv'[d])
               /\ d \notin Range(live[r]) => conv'[d] = conv[d]
    <2>1. conv[d] \in Conv(Own(d)) /\ Kept(conv[d]) /\ scheduler \in Schedulers
      BY DEF MInv, IInv
    <2>2. CASE d \notin Range(live[r])
      <3>1. conv'[d] = conv[d]
        BY <1>1, <2>2, Zenon
      <3> QED BY <2>1, <3>1, Zenon
    <2>3. CASE d \in Range(live[r])
      <3>1. conv'[d] = Turned(conv[d], out[r][Place(d)], m[d])
        BY <1>1, <2>3, Zenon
      <3>2. conv'[d] = Turned(conv[d], d, m[d])
        BY <1>4, <2>3, <3>1, Zenon
      <3>3. m[d] \in Moves /\ Possible(conv[d], m[d])
        BY <1>1, <2>3, Zenon
      <3>4. ~conv[d].done
        BY <1>3, <2>3, Zenon DEF MInv, Live
      <3>5. Kept(Turned(conv[d], d, m[d]))
        BY <2>1, <3>3, <3>4, TurnedKept
      <3> QED BY <2>3, <3>2, <3>5, Zenon
    <2> QED BY <2>2, <2>3
  <1>7. \A d \in Dialogues : Kept(conv[d])'
    BY <1>2, <1>6, Zenon DEF Kept
  <1>8. Live'
    <2>1. live \in [Ranks -> Seq(Dialogues)]
      BY DEF MInv, IInv
    <2>2. PICK S : S = {d \in Dialogues : ~conv'[d].done}
      OBVIOUS
    <2>3. live'[r] = Those(live[r], S)
      BY <1>2, <2>1, <2>2 DEF GoOn
    <2>4. PICK B : B = Range(Batch[r]) /\ live[r] \in Seq(B)
      BY DEF MInv, Live
    <2>5. live'[r] \in Seq(B \cap S)
      BY <2>3, <2>4, ThoseIn
    <2>6. live'[r] \in Seq(B) /\ Range(live'[r]) \subseteq S
      BY <2>5 DEF Range
    <2>7. ASSUME NEW s \in Ranks, s # r
          PROVE  /\ live'[s] \in Seq(Range(Batch[s]))
                 /\ \A d \in Range(live'[s]) : ~conv'[d].done
      <3>1. live'[s] = live[s] /\ live[s] \in Seq(Range(Batch[s]))
        BY <1>2, <2>1, <2>7 DEF MInv, Live
      <3>2. \A d \in Range(live[s]) : ~conv[d].done
        BY <1>3 DEF MInv, Live
      <3>3. ASSUME NEW d \in Range(live[s])
            PROVE  d \in Dialogues /\ d \notin Range(live[r])
        <4>1. PICK j \in DOMAIN Batch[s] : d = Batch[s][j]
          BY <3>1 DEF Range
        <4>2. d \in Dialogues
          BY <2>1 DEF Range
        <4>3. ASSUME d \in Range(live[r])
              PROVE  FALSE
          <5>1. PICK i \in DOMAIN Batch[r] : d = Batch[r][i]
            BY <2>4, <4>3 DEF Range
          <5> QED BY <2>7, <4>1, <5>1, BatchAssumption, Zenon
        <4> QED BY <4>2, <4>3
      <3>4. ASSUME NEW d \in Range(live'[s])
            PROVE  ~conv'[d].done
        BY <1>6, <3>1, <3>2, <3>3, <3>4, Zenon
      <3> QED BY <3>1, <3>4
    <2>8. loop' # "server"
      BY <1>2, <1>3
    <2>9. \A d \in Range(live'[r]) : ~conv'[d].done
      BY <2>2, <2>6
    <2>10. ASSUME NEW s \in Ranks
           PROVE  /\ live'[s] \in Seq(Range(Batch[s]))
                  /\ \A d \in Range(live'[s]) : ~conv'[d].done
      BY <2>4, <2>6, <2>7, <2>9
    <2> QED BY <2>8, <2>10 DEF Live
  <1> QED BY <1>5, <1>7, <1>8 DEF MInv

LEMMA MNext == MInv /\ [Next]_vars => MInv'
  <1> SUFFICES ASSUME MInv, [Next]_vars
               PROVE  MInv'
    OBVIOUS
  <1>1. IInv'
    BY INext DEF MInv
  <1>2. CASE Gather
    <2>1. UNCHANGED <<loop, scheduler, logprobs, conv, live, out>> /\ loop # "server"
      BY <1>2 DEF Gather
    <2>2. Live'
      BY <2>1 DEF MInv, Live
    <2> QED BY <1>1, <2>1, <2>2 DEF MInv, Kept
  <1>3. CASE Rollout
    <2>1. UNCHANGED <<loop, scheduler, logprobs, conv, live>>
          /\ pc' = [s \in Ranks |-> "gather"]
      BY <1>3 DEF Rollout
    <2>2. Live'
      BY <2>1 DEF MInv, Live
    <2> QED BY <1>1, <2>1, <2>2 DEF MInv, Kept
  <1>4. ASSUME NEW d \in Dialogues, Serve(d)
        PROVE  MInv'
    BY <1>4, MServe
  <1>5. ASSUME NEW r \in Ranks, Turn(r)
        PROVE  MInv'
    BY <1>5, MTurn
  <1>6. CASE UNCHANGED vars
    <2>1. UNCHANGED <<loop, scheduler, logprobs, conv, live, pc>>
      BY <1>6 DEF vars
    <2> QED BY <1>1, <2>1 DEF MInv, Live, Kept
  <1> QED BY <1>2, <1>3, <1>4, <1>5, <1>6 DEF Next

LEMMA IsMarked == MInv => MaskMarksAnswers
  <1> SUFFICES ASSUME MInv, NEW d \in Dialogues, conv[d].done
               PROVE  LET c == conv[d]
                      IN  /\ c.mask = [i \in DOMAIN c.ids |->
                                 [j \in DOMAIN c.ids[i] |->
                                    IF c.ids[i][j].at = Added THEN 0 ELSE 1]]
                          /\ logprobs => FlattenSeq(c.lps)
                                             = Those(FlattenSeq(c.ids), Words)
    BY Zenon DEF MaskMarksAnswers
  <1>1. Kept(conv[d])
    BY DEF MInv
  <1> QED BY <1>1, Zenon DEF Kept, Marks, Mark, Model

(* Whatever the answers, the scheduler and the loop: when a dialogue ends,  *)
(* the mask has a one for each token of the model and a zero for each that  *)
(* a scheduler added, and the log-probabilities, if asked for, are those of *)
(* the former.                                                              *)
THEOREM MaskIsRight == Spec => []MaskMarksAnswers
  <1> QED BY MInit, MNext, IsMarked, PTL DEF Spec
-----------------------------------------------------------------------------
(* What is trained on, which holds besides.                                 *)

(* The assistant messages among messages of tokens in T.                    *)
Says(T) == {m \in Msg(T) : m.role = "assistant"}
Told(T, ms) == Those(ms, Says(T))

(* Without the dummy that makes the engine continue the last message.       *)
Undummied(ms) == IF Last(ms) = Dummy THEN Front(ms) ELSE ms

(* The ids are of the turns of the last of the messages said, in order.     *)
Matches(said, ids) ==
    /\ Len(ids) <= Len(said)
    /\ \A k \in DOMAIN ids :
           TurnsOf(ids[k]) = TurnsOf(said[Len(said) - Len(ids) + k].content)

(* The messages of a dialogue and its ids. While it goes on, a message that *)
(* is continued has ids to extend, and schedulers that continue messages    *)
(* always do.                                                               *)
Fits(T, c) ==
    /\ Undummied(c.messages) # << >>
    /\ Matches(Told(T, Undummied(c.messages)), c.ids)
    /\ c.done => Undummied(c.messages) = c.messages
    /\ ~c.done /\ Last(Undummied(c.messages)).role = "assistant"
           => c.ids # << >> /\ c.turn > 1
    /\ ~c.done /\ scheduler \in {"tips", "tools"} /\ c.ids # << >>
           => Last(Undummied(c.messages)).role = "assistant"

(* The last turn of the server's loop collects nothing then.                *)
Uncollected == loop = "server" /\ scheduler = "chat"

TInv == MInv /\ (~Uncollected => \A d \in Dialogues : Fits(Own(d), conv[d]))

LEMMA AtEnd ==
  ASSUME NEW T, NEW s \in Seq(T), s # << >>
  PROVE  /\ Front(s) \in Seq(T) /\ Last(s) \in T
         /\ s = Append(Front(s), Last(s))
  <1>1. Front(s) \in Seq(T)
    BY FrontType
  <1>2. Last(s) \in T /\ Last(s) = s[Len(s)]
    BY LastIn
  <1>3. Len(s) \in Nat \ {0}
    OBVIOUS
  <1>4. Len(Front(s)) = Len(s) - 1 /\ \A i \in 1..(Len(s) - 1) : Front(s)[i] = s[i]
    <2>1. PICK n \in Nat : n = Len(s) - 1
      BY <1>3
    <2>2. \A i \in 1..n : s[i] \in T
      BY <2>1
    <2>3. /\ Len(SubSeq(s, 1, n)) = IF 1 <= n THEN n - 1 + 1 ELSE 0
          /\ \A i \in 1..(n - 1 + 1) : SubSeq(s, 1, n)[i] = s[1 + i - 1]
      BY <2>2, SubSeqProperties
    <2>4. Front(s) = SubSeq(s, 1, n)
      BY <2>1 DEF Front
    <2>5. PICK f : f = SubSeq(s, 1, n)
      OBVIOUS
    <2>6. Len(f) = n /\ \A i \in 1..n : f[i] = s[i]
      BY <2>3, <2>5
    <2> QED BY <2>1, <2>4, <2>5, <2>6
  <1>5. PICK f \in Seq(T) : f = Front(s)
    BY <1>1
  <1>6. PICK x \in T : x = Last(s)
    BY <1>2
  <1>7. Append(f, x) \in Seq(T) /\ Len(Append(f, x)) = Len(s)
    BY <1>3, <1>4, <1>5
  <1>8. \A i \in 1..Len(s) : Append(f, x)[i] = s[i]
    BY <1>2, <1>3, <1>4, <1>5, <1>6
  <1>9. s = Append(f, x)
    BY <1>7, <1>8, SeqEqual
  <1> QED BY <1>1, <1>2, <1>5, <1>6, <1>9

LEMMA AtAppend ==
  ASSUME NEW T, NEW f \in Seq(T), NEW x \in T
  PROVE  /\ Append(f, x) \in Seq(T) /\ Append(f, x) # << >>
         /\ Last(Append(f, x)) = x /\ Front(Append(f, x)) = f
  <1>1. PICK s \in Seq(T) : s = Append(f, x)
    <2>1. Append(f, x) \in Seq(T)
      OBVIOUS
    <2> QED BY <2>1
  <1>2. /\ Len(s) = Len(f) + 1 /\ s[Len(f) + 1] = x
        /\ \A i \in 1..Len(f) : s[i] = f[i]
    BY <1>1
  <1>3. s # << >>
    BY <1>2
  <1>4. Last(s) = x
    BY <1>2 DEF Last
  <1>5. /\ Len(s) - 1 = Len(f) /\ Len(f) \in Nat
        /\ \A i \in 1..(Len(s) - 1) : s[i] \in T
    BY <1>2
  <1>6. /\ Front(s) \in Seq(T) /\ Len(Front(s)) = Len(f)
        /\ \A i \in 1..Len(f) : Front(s)[i] = f[i]
    BY <1>2, <1>5, SubSeqProperties DEF Front
  <1>7. Front(s) = f
    BY <1>6, SeqEqual
  <1> QED BY <1>1, <1>3, <1>4, <1>7

LEMMA PutLast ==
  ASSUME NEW T, NEW f \in Seq(T), NEW x \in T, NEW e
  PROVE  [Append(f, x) EXCEPT ![Len(Append(f, x))] = e] = Append(f, e)
  <1>1. PICK s \in Seq(T) : s = Append(f, x)
    <2>1. Append(f, x) \in Seq(T)
      OBVIOUS
    <2> QED BY <2>1
  <1>2. /\ Len(s) = Len(f) + 1 /\ Len(f) + 1 \in 1..Len(s)
        /\ \A i \in 1..Len(f) : s[i] = f[i]
    BY <1>1
  <1>3. PICK U : U = T \cup {e}
    OBVIOUS
  <1>4. s \in Seq(U) /\ f \in Seq(U) /\ e \in U
    BY <1>3
  <1>5. PICK t : t = [s EXCEPT ![Len(s)] = e]
    OBVIOUS
  <1>6. /\ t \in Seq(U) /\ Len(t) = Len(s) /\ t[Len(f) + 1] = e
        /\ \A i \in 1..Len(f) : t[i] = f[i]
    <2>1. t \in Seq(U)
      BY <1>2, <1>4, <1>5, ExceptSeq
    <2>2. Len(t) = Len(s)
      BY <1>2, <1>4, <1>5, ExceptSeq
    <2>3. DOMAIN s = 1..Len(s)
      OBVIOUS
    <2>4. t[Len(f) + 1] = e
      BY <1>2, <1>5, <2>3
    <2>5. \A i \in 1..Len(f) : t[i] = f[i]
      BY <1>2, <1>5, <2>3
    <2> QED BY <2>1, <2>2, <2>4, <2>5
  <1>7. /\ Append(f, e) \in Seq(U) /\ Len(Append(f, e)) = Len(f) + 1
        /\ \A i \in 1..(Len(f) + 1) : Append(f, e)[i] = t[i]
    BY <1>4, <1>6
  <1>8. t = Append(f, e)
    BY <1>2, <1>6, <1>7, SeqEqual
  <1> QED BY <1>1, <1>5, <1>8

LEMMA MatchesAppend ==
  ASSUME NEW M, NEW said \in Seq(M), NEW m \in M, NEW S, NEW ids \in Seq(S),
         NEW x \in S
  PROVE  Matches(Append(said, m), Append(ids, x))
             <=> Matches(said, ids) /\ TurnsOf(x) = TurnsOf(m.content)
  <1>1. PICK said2 \in Seq(M) : said2 = Append(said, m)
    <2>1. Append(said, m) \in Seq(M)
      OBVIOUS
    <2> QED BY <2>1
  <1>2. PICK ids2 \in Seq(S) : ids2 = Append(ids, x)
    <2>1. Append(ids, x) \in Seq(S)
      OBVIOUS
    <2> QED BY <2>1
  <1>3. PICK a \in Nat, b \in Nat : a = Len(said) /\ b = Len(ids)
    OBVIOUS
  <1>4. /\ Len(said2) = a + 1 /\ said2[a + 1] = m
        /\ \A i \in 1..a : said2[i] = said[i]
    BY <1>1, <1>3
  <1>5. /\ Len(ids2) = b + 1 /\ ids2[b + 1] = x
        /\ \A i \in 1..b : ids2[i] = ids[i]
    BY <1>2, <1>3
  <1>6. DOMAIN ids = 1..b /\ DOMAIN ids2 = 1..(b + 1)
    BY <1>3, <1>5
  <1>7. ASSUME b <= a
        PROVE  /\ \A k \in 1..b : said2[(a + 1) - (b + 1) + k] = said[a - b + k]
               /\ said2[(a + 1) - (b + 1) + (b + 1)] = m
    <2>1. ASSUME NEW k \in 1..b
          PROVE  said2[(a + 1) - (b + 1) + k] = said[a - b + k]
      <3>1. (a + 1) - (b + 1) + k = a - b + k /\ a - b + k \in 1..a
        BY <1>7
      <3> QED BY <1>4, <3>1
    <2>2. (a + 1) - (b + 1) + (b + 1) = a + 1
      OBVIOUS
    <2> QED BY <1>4, <2>1, <2>2
  <1>8. ASSUME Matches(said2, ids2)
        PROVE  Matches(said, ids) /\ TurnsOf(x) = TurnsOf(m.content)
    <2>1. /\ b + 1 <= a + 1
          /\ \A k \in 1..(b + 1) : TurnsOf(ids2[k])
                 = TurnsOf(said2[(a + 1) - (b + 1) + k].content)
      BY <1>4, <1>5, <1>6, <1>8, Zenon DEF Matches
    <2>2. b <= a /\ b + 1 \in 1..(b + 1) /\ 1..b \subseteq 1..(b + 1)
      BY <2>1
    <2>3. TurnsOf(x) = TurnsOf(m.content)
      BY <1>5, <1>7, <2>1, <2>2, Zenon
    <2>4. ASSUME NEW k \in 1..b
          PROVE  TurnsOf(ids[k]) = TurnsOf(said[a - b + k].content)
      <3>1. k \in 1..(b + 1)
        BY <2>2
      <3> QED BY <1>5, <1>7, <2>1, <2>2, <3>1, Zenon
    <2> QED BY <1>3, <1>6, <2>2, <2>3, <2>4, Zenon DEF Matches
  <1>9. ASSUME Matches(said, ids), TurnsOf(x) = TurnsOf(m.content)
        PROVE  Matches(said2, ids2)
    <2>1. /\ b <= a
          /\ \A k \in 1..b : TurnsOf(ids[k])
                 = TurnsOf(said[a - b + k].content)
      BY <1>3, <1>6, <1>9, Zenon DEF Matches
    <2>2. ASSUME NEW k \in 1..(b + 1)
          PROVE  TurnsOf(ids2[k]) = TurnsOf(said2[(a + 1) - (b + 1) + k].content)
      <3>1. CASE k = b + 1
        BY <1>5, <1>7, <1>9, <2>1, <3>1, Zenon
      <3>2. CASE k # b + 1
        <4>1. k \in 1..b
          BY <3>2
        <4> QED BY <1>5, <1>7, <2>1, <4>1, Zenon
      <3> QED BY <3>1, <3>2
    <2>3. b + 1 <= a + 1
      BY <2>1
    <2> QED BY <1>4, <1>5, <1>6, <2>2, <2>3, Zenon DEF Matches
  <1> QED BY <1>1, <1>2, <1>8, <1>9, Zenon

LEMMA TurnsConcat ==
  ASSUME NEW T, NEW s \in Seq(T), NEW t \in Seq(T)
  PROVE  TurnsOf(s \o t) = TurnsOf(s) \cup TurnsOf(t)
  <1>1. PICK u \in Seq(T) : u = s \o t
    <2>1. s \o t \in Seq(T)
      OBVIOUS
    <2> QED BY <2>1
  <1>2. /\ Len(u) = Len(s) + Len(t) /\ \A i \in 1..Len(s) : u[i] = s[i]
        /\ \A i \in 1..Len(t) : u[Len(s) + i] = t[i]
    BY <1>1
  <1>0. /\ Len(s) \in Nat /\ Len(t) \in Nat
        /\ DOMAIN u = 1..Len(u) /\ DOMAIN s = 1..Len(s) /\ DOMAIN t = 1..Len(t)
    OBVIOUS
  <1>3. Range(u) = Range(s) \cup Range(t)
    <2>1. ASSUME NEW i \in DOMAIN u
          PROVE  u[i] \in Range(s) \cup Range(t)
      <3>1. CASE i \in 1..Len(s)
        BY <1>2, <3>1 DEF Range
      <3>2. CASE i \notin 1..Len(s)
        <4>1. i - Len(s) \in 1..Len(t) /\ i = Len(s) + (i - Len(s))
          <5>1. i \in Nat /\ Len(s) \in Nat /\ Len(t) \in Nat
                /\ i >= 1 /\ i <= Len(s) + Len(t) /\ ~(i <= Len(s))
            BY <1>2, <3>2
          <5> QED BY ONLY <5>1
        <4>2. u[i] = t[i - Len(s)] /\ i - Len(s) \in DOMAIN t
          BY <1>2, <4>1
        <4> QED BY <4>2, Zenon DEF Range
      <3> QED BY <3>1, <3>2
    <2>2. ASSUME NEW i \in DOMAIN s
          PROVE  s[i] \in Range(u)
      <3>1. i \in DOMAIN u /\ u[i] = s[i]
        <4>1. i \in 1..Len(s)
          BY <1>0, Zenon
        <4>2. i \in 1..(Len(s) + Len(t))
          BY ONLY <1>0, <4>1
        <4> QED BY <1>0, <1>2, <4>1, <4>2, Zenon
      <3> QED BY <3>1, Zenon DEF Range
    <2>3. ASSUME NEW i \in DOMAIN t
          PROVE  t[i] \in Range(u)
      <3>1. Len(s) + i \in DOMAIN u /\ u[Len(s) + i] = t[i]
        <4>1. i \in 1..Len(t)
          BY <1>0, Zenon
        <4>2. Len(s) + i \in 1..(Len(s) + Len(t))
          BY ONLY <1>0, <4>1
        <4> QED BY <1>0, <1>2, <4>1, <4>2, Zenon
      <3> QED BY <3>1, Zenon DEF Range
    <2> QED BY <2>1, <2>2, <2>3, Zenon DEF Range
  <1> QED BY <1>1, <1>3 DEF TurnsOf

(* A message that is continued.                                             *)
More(m, w) == [role |-> "assistant", content |-> m.content \o w]

LEMMA SaysIs ==
  ASSUME NEW T, NEW w \in Seq(T)
  PROVE  /\ Assistant(w) \in Says(T) /\ Assistant(w).content = w
         /\ User \in Msg(T) /\ User \notin Says(T) /\ User # Dummy
         /\ Dummy \in Msg(T)
  BY DEF Says, Msg, User, Dummy, Assistant

LEMMA MoreIs ==
  ASSUME NEW T, NEW m \in Says(T), NEW w \in Seq(T)
  PROVE  /\ m \in Msg(T) /\ m.content \in Seq(T)
         /\ More(m, w) \in Says(T) /\ More(m, w).content = m.content \o w
         /\ [m EXCEPT !.content = m.content \o w] = More(m, w)
  <1>1. m \in Msg(T) /\ m.role = "assistant" /\ m.content \in Seq(T)
    BY DEF Says, Msg
  <1>2. PICK x \in Seq(T) : x = m.content \o w
    <2>1. m.content \o w \in Seq(T)
      BY <1>1
    <2> QED BY <2>1
  <1>3. [m EXCEPT !.content = x] = [role |-> "assistant", content |-> x]
    BY <1>1 DEF Msg
  <1>4. [role |-> "assistant", content |-> x] \in Says(T)
    BY DEF Says, Msg
  <1>5. [role |-> "assistant", content |-> x].content = x
    OBVIOUS
  <1> QED BY <1>1, <1>2, <1>3, <1>4, <1>5, Zenon DEF More

LEMMA MoreType ==
  \A T : \A m \in Says(T), w \in Seq(T) :
      /\ m.content \in Seq(T) /\ More(m, w) \in Says(T)
      /\ More(m, w).content = m.content \o w
  BY MoreIs

LEMMA ToldAppend ==
  ASSUME NEW T, NEW ms \in Seq(Msg(T)), NEW m \in Msg(T)
  PROVE  /\ Told(T, ms) \in Seq(Msg(T))
         /\ Told(T, Append(ms, m)) = IF m \in Says(T) THEN Append(Told(T, ms), m)
                                     ELSE Told(T, ms)
  BY ThoseType, ThoseAppend, Zenon DEF Told

(* What an answer makes of the messages.                                    *)
LEMMA HeardNew ==
  ASSUME NEW T, NEW ms \in Seq(Msg(T)), NEW w \in Seq(T),
         Last(ms).role # "assistant"
  PROVE  /\ Heard(ms, w) = Append(ms, Assistant(w))
         /\ Told(T, Heard(ms, w)) = Append(Told(T, ms), Assistant(w))
         /\ Last(Heard(ms, w)) = Assistant(w)
         /\ Front(Heard(ms, w)) = ms /\ Heard(ms, w) # << >>
  <1>1. Heard(ms, w) = Append(ms, Assistant(w))
    BY Zenon DEF Heard
  <1>2. Assistant(w) \in Says(T) /\ Assistant(w) \in Msg(T)
    BY SaysIs DEF Says
  <1> QED BY <1>1, <1>2, ToldAppend, AtAppend, Zenon

LEMMA HeardMore ==
  ASSUME NEW T, NEW ms \in Seq(Msg(T)), ms # << >>, NEW w \in Seq(T),
         Last(ms).role = "assistant"
  PROVE  /\ Last(ms) \in Says(T) /\ Front(ms) \in Seq(Msg(T))
         /\ Told(T, ms) = Append(Told(T, Front(ms)), Last(ms))
         /\ Heard(ms, w) = Append(Front(ms), More(Last(ms), w))
         /\ Told(T, Heard(ms, w))
                = Append(Told(T, Front(ms)), More(Last(ms), w))
         /\ Last(Heard(ms, w)) = More(Last(ms), w)
         /\ Front(Heard(ms, w)) = Front(ms) /\ Heard(ms, w) # << >>
  <1>1. /\ Front(ms) \in Seq(Msg(T)) /\ Last(ms) \in Msg(T)
        /\ ms = Append(Front(ms), Last(ms))
    BY AtEnd
  <1>2. PICK f \in Seq(Msg(T)) : f = Front(ms)
    BY <1>1
  <1>3. PICK m \in Says(T) : m = Last(ms)
    BY <1>1 DEF Says
  <1>4. m \in Msg(T) /\ ms = Append(f, m)
    BY <1>1, <1>2, <1>3
  <1>5. /\ More(m, w) \in Says(T) /\ More(m, w) \in Msg(T)
        /\ [m EXCEPT !.content = m.content \o w] = More(m, w)
    BY MoreIs DEF Says
  <1>6. ms[Len(ms)] = m
    BY <1>3, LastIn
  <1>7. Heard(ms, w) = [ms EXCEPT ![Len(ms)].content = @ \o w]
    BY Zenon DEF Heard
  <1>8. Heard(ms, w) = [ms EXCEPT ![Len(ms)] = More(m, w)]
    <2>1. PICK e : e = [ms[Len(ms)] EXCEPT !.content = ms[Len(ms)].content \o w]
      OBVIOUS
    <2>2. e = More(m, w)
      BY <1>5, <1>6, <2>1, Zenon
    <2>3. Heard(ms, w) = [ms EXCEPT ![Len(ms)] = e]
      BY <1>7, <2>1, Zenon
    <2> QED BY <2>2, <2>3, Zenon
  <1>9. Heard(ms, w) = Append(f, More(m, w))
    <2>1. [Append(f, m) EXCEPT ![Len(Append(f, m))] = More(m, w)]
              = Append(f, More(m, w))
      <3>1. PICK M : M = Msg(T)
        OBVIOUS
      <3>2. f \in Seq(M) /\ m \in M
        BY <1>4, <3>1
      <3> QED BY <3>2, PutLast
    <2> QED BY <1>4, <1>8, <2>1, Zenon
  <1>10. /\ Told(T, ms) = Append(Told(T, f), m)
         /\ Told(T, Append(f, More(m, w))) = Append(Told(T, f), More(m, w))
    BY <1>4, <1>5, ToldAppend, Zenon
  <1>11. /\ Last(Append(f, More(m, w))) = More(m, w)
         /\ Front(Append(f, More(m, w))) = f /\ Append(f, More(m, w)) # << >>
    BY <1>5, AtAppend, Zenon
  <1> QED BY <1>2, <1>3, <1>9, <1>10, <1>11, Zenon

(* After an answer the ids are of the turns of the messages, still, if what *)
(* is said and what is collected are of the same turns.                     *)
LEMMA HeardMatches ==
  ASSUME NEW T, NEW ms \in Seq(Msg(T)), ms # << >>, NEW ids \in Seq(Seq(T)),
         NEW w \in Seq(T), NEW new \in Seq(T), new # << >>,
         TurnsOf(new) = TurnsOf(w), Matches(Told(T, ms), ids),
         Last(ms).role = "assistant" => ids # << >>
  PROVE  Matches(Told(T, Heard(ms, w)),
                 Collected(ids, Last(ms).role = "assistant", new))
  <1>1. CASE Last(ms).role # "assistant"
    <2>1. Told(T, Heard(ms, w)) = Append(Told(T, ms), Assistant(w))
      BY <1>1, HeardNew
    <2>2. Collected(ids, Last(ms).role = "assistant", new) = Append(ids, new)
      BY <1>1, Zenon DEF Collected
    <2>3. /\ Told(T, ms) \in Seq(Msg(T)) /\ Assistant(w) \in Msg(T)
          /\ Assistant(w).content = w
      BY SaysIs, ThoseType DEF Told, Says
    <2>4. Matches(Append(Told(T, ms), Assistant(w)), Append(ids, new))
              <=> Matches(Told(T, ms), ids)
                  /\ TurnsOf(new) = TurnsOf(Assistant(w).content)
      BY <2>3, MatchesAppend
    <2> QED BY <2>1, <2>2, <2>3, <2>4, Zenon
  <1>2. CASE Last(ms).role = "assistant"
    <2>1. PICK m \in Says(T) : m = Last(ms)
      BY <1>2, HeardMore
    <2>2. PICK f \in Seq(Msg(T)) : f = Told(T, Front(ms))
      BY <1>2, HeardMore, ThoseType DEF Told
    <2>3. /\ Told(T, ms) = Append(f, m)
          /\ Told(T, Heard(ms, w)) = Append(f, More(m, w))
      BY <1>2, <2>1, <2>2, HeardMore
    <2>4. /\ m \in Msg(T) /\ m.content \in Seq(T)
          /\ More(m, w) \in Msg(T) /\ More(m, w).content = m.content \o w
      <3>1. \A m0 \in Says(T), w0 \in Seq(T) :
               /\ m0.content \in Seq(T) /\ More(m0, w0) \in Says(T)
               /\ More(m0, w0).content = m0.content \o w0
        BY ONLY MoreType, Zenon
      <3>2. Says(T) \subseteq Msg(T)
        BY DEF Says
      <3>3. m \in Says(T) /\ w \in Seq(T)
        OBVIOUS
      <3> QED BY ONLY <3>1, <3>2, <3>3, Zenon
    <2>5. /\ Front(ids) \in Seq(Seq(T)) /\ Last(ids) \in Seq(T)
          /\ ids = Append(Front(ids), Last(ids))
      BY <1>2, AtEnd
    <2>6. PICK g \in Seq(Seq(T)) : g = Front(ids)
      BY <2>5
    <2>7. PICK x \in Seq(T) : x = Last(ids)
      BY <2>5
    <2>8. ids = Append(g, x)
      BY <2>5, <2>6, <2>7
    <2>9. PICK y \in Seq(T) : y = x \o new
      <3>1. x \o new \in Seq(T)
        OBVIOUS
      <3> QED BY <3>1
    <2>10. Collected(ids, Last(ms).role = "assistant", new) = Append(g, y)
      <3>1. ids[Len(ids)] = x
        BY <1>2, <2>7, LastIn
      <3>2. Collected(ids, Last(ms).role = "assistant", new)
                = [ids EXCEPT ![Len(ids)] = @ \o new]
        BY <1>2, Zenon DEF Collected
      <3>3. Collected(ids, Last(ms).role = "assistant", new)
                = [ids EXCEPT ![Len(ids)] = y]
        BY <2>9, <3>1, <3>2, Zenon
      <3>4. [Append(g, x) EXCEPT ![Len(Append(g, x))] = y] = Append(g, y)
        <4>1. PICK R : R = Seq(T)
          OBVIOUS
        <4>2. g \in Seq(R) /\ x \in R
          BY <4>1
        <4> QED BY <4>2, PutLast
      <3> QED BY <2>8, <3>3, <3>4, Zenon
    <2>11. Matches(f, g) /\ TurnsOf(x) = TurnsOf(m.content)
      <3>1. Matches(Append(f, m), Append(g, x))
                <=> Matches(f, g) /\ TurnsOf(x) = TurnsOf(m.content)
        BY <2>4, MatchesAppend
      <3> QED BY <2>3, <2>8, <3>1, Zenon
    <2>12. TurnsOf(y) = TurnsOf(More(m, w).content)
      <3>1. TurnsOf(x \o new) = TurnsOf(x) \cup TurnsOf(new)
        BY TurnsConcat
      <3>2. TurnsOf(m.content \o w) = TurnsOf(m.content) \cup TurnsOf(w)
        BY <2>4, TurnsConcat
      <3> QED BY <2>4, <2>9, <2>11, <3>1, <3>2, Zenon
    <2>13. Matches(Append(f, More(m, w)), Append(g, y))
      BY <2>4, <2>11, <2>12, MatchesAppend, Zenon
    <2> QED BY <2>3, <2>10, <2>13, Zenon
  <1> QED BY <1>1, <1>2

(* Tokens of one turn of a dialogue.                                        *)
ByTurn(d, t) == [of : {d}, turn : {t}, at : Int]

LEMMA OneTurn ==
  ASSUME NEW d, NEW t, NEW s \in Seq(ByTurn(d, t)), s # << >>
  PROVE  TurnsOf(s) = {t}
  <1>1. Len(s) \in Nat \ {0} /\ 1 \in DOMAIN s
    OBVIOUS
  <1>2. \A i \in DOMAIN s : s[i].turn = t
    <2>1. \A x \in ByTurn(d, t) : x.turn = t
      BY DEF ByTurn
    <2>2. \A i \in DOMAIN s : s[i] \in ByTurn(d, t)
      OBVIOUS
    <2> QED BY <2>1, <2>2, Zenon
  <1> QED BY <1>1, <1>2, Zenon DEF TurnsOf, Range

LEMMA AnswerByTurn ==
  ASSUME NEW d, NEW t \in 1..MaxTurns, NEW o \in Outcomes
  PROVE  /\ Answer(d, t, o) \in Seq(ByTurn(d, t)) /\ Answer(d, t, o) # << >>
         /\ o.len \in Nat /\ Len(Answer(d, t, o)) >= o.len
         /\ <<Token(d, t, Added)>> \in Seq(ByTurn(d, t))
         /\ ByTurn(d, t) \subseteq Own(d)
  <1> DEFINE a == Answer(d, t, o)
  <1>1. a \in Seq(Said(d)) /\ a # << >> /\ o.len \in Nat /\ Len(a) >= o.len
    BY AnswerSaid
  <1>2. a \in Seq(ByTurn(d, t))
    <2> DEFINE u == [i \in 1..o.len |-> Token(d, t, i)]
               v == IF o.finish = "stop" THEN <<Token(d, t, Eos)>> ELSE << >>
    <2>1. \A i \in Int : Token(d, t, i) \in ByTurn(d, t)
      BY DEF Token, ByTurn
    <2>2. u \in Seq(ByTurn(d, t)) /\ v \in Seq(ByTurn(d, t))
      BY <1>1, <2>1 DEF Eos
    <2> HIDE DEF u, v
    <2>3. u \o v \in Seq(ByTurn(d, t))
      BY <2>2
    <2> QED BY <2>3 DEF Answer, u, v
  <1>3. <<Token(d, t, Added)>> \in Seq(ByTurn(d, t))
    BY DEF Token, ByTurn, Added
  <1>4. ByTurn(d, t) \subseteq Own(d)
    BY DEF ByTurn, Own
  <1> QED BY <1>1, <1>2, <1>3, <1>4

(* What a scheduler that returns ids makes of an answer: messages as if     *)
(* something else of that turn had been said, and ids of that turn.         *)
Telling(S, ms, ret) ==
    \E w \in Seq(S), new \in Seq(S) :
        /\ w # << >> /\ new # << >> /\ ret.ids = new
        /\ ret.messages = IF scheduler = "chat" THEN Append(Heard(ms, w), User)
                          ELSE Heard(ms, w)

LEMMA Longer ==
  ASSUME NEW S, NEW s \in Seq(S), NEW t \in Seq(S), s # << >> \/ t # << >>
  PROVE  s \o t \in Seq(S) /\ s \o t # << >>
  <1>1. PICK u \in Seq(S) : u = s \o t
    <2>1. s \o t \in Seq(S)
      OBVIOUS
    <2> QED BY <2>1, Zenon
  <1>2. Len(u) = Len(s) + Len(t) /\ (Len(s) # 0 \/ Len(t) # 0)
    BY <1>1
  <1>3. u # << >>
    BY <1>2
  <1> QED BY <1>1, <1>3

(* A message that has been heard, and then written over or added to.        *)
LEMMA HeardRewritten ==
  ASSUME NEW T, NEW ms \in Seq(Msg(T)), NEW toks \in Seq(T), NEW x \in Seq(T),
         Last(ms).role # "assistant"
  PROVE  [Heard(ms, toks) EXCEPT ![Len(Heard(ms, toks))].content = x]
             = Heard(ms, x)
  <1>1. PICK a \in Msg(T) : a = Assistant(toks)
    BY MessageTypes
  <1>2. PICK b \in Msg(T) : b = Assistant(x)
    BY MessageTypes
  <1>3. Heard(ms, toks) = Append(ms, a) /\ Heard(ms, x) = Append(ms, b)
    BY <1>1, <1>2, Zenon DEF Heard
  <1>4. [a EXCEPT !.content = x] = b
    BY <1>1, <1>2 DEF Assistant
  <1>5. PICK h : h = Append(ms, a)
    OBVIOUS
  <1>6. h[Len(h)] = a
    BY <1>5
  <1>7. [h EXCEPT ![Len(h)].content = x] = [h EXCEPT ![Len(h)] = b]
    <2>1. PICK e : e = [h[Len(h)] EXCEPT !.content = x]
      OBVIOUS
    <2>2. e = b
      BY <1>4, <1>6, <2>1, Zenon
    <2>3. [h EXCEPT ![Len(h)].content = x] = [h EXCEPT ![Len(h)] = e]
      BY <2>1, Zenon
    <2> QED BY <2>2, <2>3, Zenon
  <1>8. [Append(ms, a) EXCEPT ![Len(Append(ms, a))] = b] = Append(ms, b)
    <2>1. PICK M : M = Msg(T)
      OBVIOUS
    <2>2. ms \in Seq(M) /\ a \in M
      BY <2>1
    <2> QED BY <2>2, PutLast
  <1> QED BY <1>3, <1>5, <1>7, <1>8, Zenon

Lengthened(ms, x) == [ms EXCEPT ![Len(ms)].content = @ \o x]

LEMMA HeardExtended ==
  ASSUME NEW T, NEW ms \in Seq(Msg(T)), ms # << >>, NEW toks \in Seq(T),
         NEW x \in Seq(T), NEW w \in Seq(T), w = toks \o x
  PROVE  Lengthened(Heard(ms, toks), x) = Heard(ms, w)
  <1>1. PICK h \in Seq(Msg(T)) : h = Heard(ms, toks)
    BY HeardType
  <1>2. PICK M : M = Msg(T)
    OBVIOUS
  <1>3. \E f \in Seq(M), a \in Says(T), b \in Says(T) :
            /\ h = Append(f, a) /\ Heard(ms, w) = Append(f, b)
            /\ b = [a EXCEPT !.content = a.content \o x]
    <2>1. CASE Last(ms).role # "assistant"
      <3>1. h = Append(ms, Assistant(toks)) /\ Heard(ms, w) = Append(ms, Assistant(w))
        BY <1>1, <2>1, HeardNew
      <3>2. PICK a \in Says(T) : a = Assistant(toks)
        BY SaysIs
      <3>3. PICK b \in Says(T) : b = Assistant(w)
        BY SaysIs
      <3>4. [a EXCEPT !.content = a.content \o x] = More(a, x)
        BY MoreIs
      <3>5. b = [a EXCEPT !.content = a.content \o x]
        <4>1. a.content = toks
          BY <3>2, SaysIs
        <4>2. More(a, x) = b
          BY <3>3, <4>1, Zenon DEF More, Assistant
        <4> QED BY <3>4, <4>2, Zenon
      <3> QED BY <1>2, <3>1, <3>2, <3>3, <3>5, Zenon
    <2>2. CASE Last(ms).role = "assistant"
      <3>1. PICK m \in Says(T) : m = Last(ms)
        BY <2>2, HeardMore
      <3>2. PICK f \in Seq(M) : f = Front(ms)
        BY <1>2, <2>2, HeardMore
      <3>3. h = Append(f, More(m, toks)) /\ Heard(ms, w) = Append(f, More(m, w))
        BY <1>1, <2>2, <3>1, <3>2, HeardMore
      <3>4. m.content \in Seq(T)
        BY MoreIs
      <3>5. PICK y \in Seq(T) : y = m.content \o toks
        <4>1. m.content \o toks \in Seq(T)
          BY <3>4
        <4> QED BY <4>1, Zenon
      <3>6. y \o x = m.content \o w
        <4>1. PICK z \in Seq(T) : z = m.content
          BY <3>4
        <4>2. y = z \o toks
          BY <3>5, <4>1, Zenon
        <4>3. y \o x = z \o w
          BY <4>2, Regrouped
        <4> QED BY <4>1, <4>3, Zenon
      <3>7. PICK a \in Says(T) : a = More(m, toks) /\ a.content = y
        <4>1. \A m0 \in Says(T), w0 \in Seq(T) :
                 /\ m0.content \in Seq(T) /\ More(m0, w0) \in Says(T)
                 /\ More(m0, w0).content = m0.content \o w0
          BY ONLY MoreType, Zenon
        <4> QED BY <3>5, <4>1, Zenon
      <3>8. [a EXCEPT !.content = a.content \o x] = More(a, x)
        BY MoreIs
      <3>9. More(a, x) = More(m, w)
        BY <3>6, <3>7, Zenon DEF More
      <3>10. More(m, w) \in Says(T)
        BY MoreIs
      <3> QED BY <3>3, <3>7, <3>8, <3>9, <3>10, Zenon
    <2> QED BY <2>1, <2>2
  <1>4. PICK f \in Seq(M), a \in Says(T), b \in Says(T) :
            /\ h = Append(f, a) /\ Heard(ms, w) = Append(f, b)
            /\ b = [a EXCEPT !.content = a.content \o x]
    BY <1>3, Zenon
  <1>5. a \in M
    BY <1>2 DEF Says
  <1>6. h[Len(h)] = a
    BY <1>4
  <1>7. [h EXCEPT ![Len(h)].content = @ \o x] = [h EXCEPT ![Len(h)] = b]
    <2>1. PICK e : e = [h[Len(h)] EXCEPT !.content = h[Len(h)].content \o x]
      OBVIOUS
    <2>2. e = b
      BY <1>4, <1>6, <2>1, Zenon
    <2>3. [h EXCEPT ![Len(h)].content = @ \o x] = [h EXCEPT ![Len(h)] = e]
      BY <2>1, Zenon
    <2> QED BY <2>2, <2>3, Zenon
  <1>8. [Append(f, a) EXCEPT ![Len(Append(f, a))] = b] = Append(f, b)
    BY <1>5, PutLast
  <1>9. Lengthened(h, x) = [h EXCEPT ![Len(h)] = b]
    BY <1>7, Zenon DEF Lengthened
  <1> QED BY <1>1, <1>4, <1>8, <1>9, Zenon

LEMMA HeardLonger ==
  ASSUME NEW T, NEW ms \in Seq(Msg(T)), ms # << >>
  PROVE  \A t, x, y \in Seq(T) :
             y = t \o x => Lengthened(Heard(ms, t), x) = Heard(ms, y)
  BY HeardExtended

LEMMA TipsTell ==
  ASSUME NEW T, NEW S, S \subseteq T, NEW ms \in Seq(Msg(T)),
         Last(ms).role # "assistant", scheduler = "tips",
         NEW toks \in Seq(S), toks # << >>, NEW hint \in Seq(S), hint # << >>,
         NEW o, NEW cut \in Nat, o.len \in Nat, cut <= o.len, o.len <= Len(toks)
  PROVE  Telling(S, ms, Tips(Heard(ms, toks), toks, hint, o, cut))
  <1> DEFINE text == IF cut = o.len THEN toks ELSE SubSeq(toks, 1, cut)
             kept == IF cut = o.len THEN toks
                     ELSE SubSeq(toks, 1, IF cut = 0 THEN 1 ELSE cut)
             h == Heard(ms, toks)
             ret == Tips(h, toks, hint, o, cut)
  <1>1. ASSUME NEW n \in Nat, n <= Len(toks)
        PROVE  SubSeq(toks, 1, n) \in Seq(S)
    <2>1. \A i \in 1..n : toks[i] \in S
      BY <1>1
    <2> QED BY <2>1, SubSeqProperties
  <1>2. text \in Seq(S)
    BY <1>1
  <1>3. kept \in Seq(S)
    <2>1. CASE cut = o.len
      BY <2>1
    <2>2. CASE cut # o.len
      <3>1. PICK n \in Nat : n = (IF cut = 0 THEN 1 ELSE cut) /\ n <= Len(toks)
        BY <2>2
      <3> QED BY <1>1, <2>2, <3>1
    <2> QED BY <2>1, <2>2
  <1>4. ret = Returned([h EXCEPT ![Len(h)].content = text \o hint],
                       hint, kept, Lps(kept))
    BY Zenon DEF Tips
  <1> HIDE DEF kept, text
  <1>5. PICK w \in Seq(S) : w = text \o hint /\ w # << >>
    BY <1>2, Longer
  <1>6. PICK new \in Seq(S) : new = kept \o hint /\ new # << >>
    BY <1>3, Longer
  <1>7. [h EXCEPT ![Len(h)].content = w] = Heard(ms, w)
    <2>1. toks \in Seq(T) /\ w \in Seq(T)
      OBVIOUS
    <2> QED BY <2>1, HeardRewritten
  <1> HIDE DEF h
  <1>8. ret.ids = new /\ ret.messages = Heard(ms, w)
    <2>1. PICK x : x = [h EXCEPT ![Len(h)].content = w]
      OBVIOUS
    <2>2. ret = Returned(x, hint, kept, Lps(kept))
      BY <1>4, <1>5, <2>1, Zenon
    <2>3. ret.ids = kept \o hint /\ ret.messages = x
      BY <2>2 DEF Returned
    <2> QED BY <1>6, <1>7, <2>1, <2>3, Zenon
  <1> HIDE DEF ret
  <1>9. scheduler # "chat"
    OBVIOUS
  <1>10. Telling(S, ms, ret)
    BY <1>5, <1>6, <1>8, <1>9, Zenon DEF Telling
  <1> QED BY <1>10 DEF ret, h

LEMMA SteppedTells ==
  ASSUME NEW T, NEW S, S \subseteq T, NEW ms \in Seq(Msg(T)), ms # << >>,
         scheduler \in Schedulers, scheduler # "plain",
         scheduler = "tips" => Last(ms).role # "assistant",
         NEW toks \in Seq(S), toks # << >>, NEW hint \in Seq(S), hint # << >>,
         NEW o, NEW cut \in Nat, o.len \in Nat, o.len <= Len(toks),
         scheduler = "tips" => cut <= o.len
  PROVE  Telling(S, ms, Stepped(Heard(ms, toks), toks, hint, o, cut))
  <1> DEFINE h == Heard(ms, toks)
             ret == Stepped(h, toks, hint, o, cut)
  <1>1. CASE scheduler = "tips"
    <2>1. ret = Tips(h, toks, hint, o, cut)
      BY <1>1 DEF Stepped
    <2> HIDE DEF h, ret
    <2>2. Telling(S, ms, Tips(h, toks, hint, o, cut))
      BY <1>1, TipsTell DEF h
    <2> QED BY <2>1, <2>2 DEF ret, h
  <1>2. CASE scheduler = "tools"
    <2>1. PICK said : said = Lengthened(h, hint)
      OBVIOUS
    <2>2. ret = Returned(said, hint, toks, << >>)
      BY <1>2, <2>1 DEF Stepped, Lengthened
    <2>3. PICK w \in Seq(S) : w = toks \o hint /\ w # << >>
      BY Longer
    <2>4. toks \in Seq(T) /\ hint \in Seq(T) /\ w \in Seq(T)
      OBVIOUS
    <2>5. said = Heard(ms, w)
      <3>1. w = toks \o hint
        BY <2>3
      <3>2. \A x \in Seq(T), y \in Seq(T) :
                y = toks \o x => Lengthened(Heard(ms, toks), x) = Heard(ms, y)
        <4>1. \A t, x, y \in Seq(T) :
                  y = t \o x => Lengthened(Heard(ms, t), x) = Heard(ms, y)
          BY HeardLonger, Zenon
        <4> QED BY <2>4, <4>1, Zenon
      <3>3. Lengthened(h, hint) = Heard(ms, w)
        BY <2>4, <3>1, <3>2, Zenon
      <3> QED BY <2>1, <3>3, Zenon
    <2>6. ret.ids = toks \o hint /\ ret.messages = said
      BY <2>2 DEF Returned
    <2>7. scheduler # "chat"
      BY <1>2
    <2> HIDE DEF ret
    <2>8. Telling(S, ms, ret)
      BY <2>3, <2>5, <2>6, <2>7, Zenon DEF Telling
    <2> QED BY <2>8 DEF ret
  <1>3. CASE scheduler = "chat"
    <2>1. ret = Returned(Append(h, User), << >>, toks, << >>)
      BY <1>3 DEF Stepped
    <2>2. ret.ids = toks \o << >> /\ ret.messages = Append(h, User)
      BY <2>1 DEF Returned
    <2>3. toks \o << >> = toks
      OBVIOUS
    <2> HIDE DEF ret
    <2>4. Telling(S, ms, ret)
      BY <1>3, <2>2, <2>3, Zenon DEF Telling
    <2> QED BY <2>4 DEF ret
  <1> QED BY <1>1, <1>2, <1>3, SchedulerAssumption

(* The dummy that is added is taken away.                                   *)
LEMMA DummyGoes ==
  ASSUME NEW T, NEW ms \in Seq(Msg(T)), ms # << >>, Last(ms) # Dummy
  PROVE  Undummied(WithDummy(ms)) = ms
  <1>1. CASE Last(ms).role = "assistant"
    <2>1. WithDummy(ms) = Append(ms, Dummy)
      BY <1>1, Zenon DEF WithDummy
    <2>2. Dummy \in Msg(T)
      BY DEF Dummy, Assistant, Msg
    <2>3. Last(Append(ms, Dummy)) = Dummy /\ Front(Append(ms, Dummy)) = ms
      BY <2>2, AtAppend
    <2> QED BY <2>1, <2>3, Zenon DEF Undummied
  <1>2. CASE Last(ms).role # "assistant"
    BY <1>2, Zenon DEF WithDummy, Undummied
  <1> QED BY <1>1, <1>2

(* An answer that has been heard is the last message, and no dummy.         *)
LEMMA HeardLast ==
  ASSUME NEW T, NEW ms \in Seq(Msg(T)), ms # << >>, NEW w \in Seq(T), w # << >>
  PROVE  /\ Heard(ms, w) \in Seq(Msg(T)) /\ Heard(ms, w) # << >>
         /\ Last(Heard(ms, w)).role = "assistant"
         /\ Last(Heard(ms, w)) # Dummy
  <1>1. CASE Last(ms).role # "assistant"
    <2>1. Last(Heard(ms, w)) = Assistant(w) /\ Heard(ms, w) # << >>
      BY <1>1, HeardNew
    <2>2. /\ Assistant(w).role = "assistant" /\ Assistant(w).content = w
          /\ Dummy.content = << >>
      BY DEF Assistant, Dummy
    <2> QED BY <2>1, <2>2, HeardType, Zenon
  <1>2. CASE Last(ms).role = "assistant"
    <2>1. PICK m \in Says(T) : m = Last(ms)
      BY <1>2, HeardMore
    <2>2. Last(Heard(ms, w)) = More(m, w) /\ Heard(ms, w) # << >>
      BY <1>2, <2>1, HeardMore
    <2>3. m.content \in Seq(T)
      BY MoreIs
    <2>4. m.content \o w # << >>
      BY <2>3, Longer
    <2>5. /\ More(m, w).role = "assistant" /\ More(m, w).content = m.content \o w
          /\ Dummy.content = << >>
      BY DEF More, Assistant, Dummy
    <2> QED BY <2>2, <2>4, <2>5, HeardType, Zenon
  <1> QED BY <1>1, <1>2

(* A user message is not said.                                              *)
LEMMA UserLast ==
  ASSUME NEW T, NEW ms \in Seq(Msg(T))
  PROVE  /\ Append(ms, User) \in Seq(Msg(T)) /\ Append(ms, User) # << >>
         /\ Last(Append(ms, User)) # Dummy
         /\ Last(Append(ms, User)).role # "assistant"
         /\ Told(T, Append(ms, User)) = Told(T, ms)
  <1>1. << >> \in Seq(T)
    OBVIOUS
  <1>2. User \in Msg(T) /\ User \notin Says(T) /\ User # Dummy
    BY <1>1, SaysIs
  <1>3. User.role # "assistant"
    BY DEF User
  <1>4. /\ Append(ms, User) \in Seq(Msg(T)) /\ Append(ms, User) # << >>
        /\ Last(Append(ms, User)) = User
    BY <1>2, AtAppend
  <1>5. Told(T, Append(ms, User)) = Told(T, ms)
    BY <1>2, ToldAppend
  <1> QED BY <1>2, <1>3, <1>4, <1>5, Zenon

LEMMA MatchesNone ==
  ASSUME NEW M, NEW said \in Seq(M)
  PROVE  Matches(said, << >>)
  <1>1. PICK n \in Nat : n = Len(said)
    OBVIOUS
  <1>2. Len(<< >>) = 0 /\ 0 <= n /\ DOMAIN << >> = {}
    OBVIOUS
  <1> QED BY <1>1, <1>2, Zenon DEF Matches

(* What the last turn collects, if it collects anything.                    *)
LEMMA StoppedIds ==
  ASSUME NEW c, NEW toks, NEW continues, toks # << >>, ~Skips(c, continues)
  PROVE  /\ Stopped(c, toks, continues).ids = Collected(c.ids, continues, toks)
         /\ Stopped(c, toks, continues).messages = c.messages
         /\ Stopped(c, toks, continues).done = TRUE
  <1>1. PICK ids : ids = IF c.ids = << >> THEN <<toks>>
                         ELSE IF Skips(c, continues) THEN c.ids
                         ELSE Collected(c.ids, continues, toks)
    OBVIOUS
  <1>2. \E e, t : Stopped(c, toks, continues) =
            [messages |-> c.messages, turn |-> t, done |-> TRUE,
             ids |-> ids, mask |-> e.mask, lps |-> e.lps]
    <2> DEFINE mask == IF c.ids = << >> THEN <<Ones(toks)>>
                       ELSE IF Skips(c, continues)
                               \/ (continues /\ c.mask = << >>) THEN c.mask
                       ELSE Collected(c.mask, continues, Ones(toks))
               lps == IF c.ids = << >> /\ logprobs THEN <<toks>>
                      ELSE IF c.ids = << >> \/ Skips(c, continues)
                              \/ (continues /\ c.lps = << >>) THEN c.lps
                      ELSE Collected(c.lps, continues, Lps(toks))
               checked == CheckedLps(ids, mask, lps)
    <2>1. Stopped(c, toks, continues) =
              [messages |-> c.messages, turn |-> c.turn, done |-> TRUE,
               ids |-> ids, mask |-> mask, lps |-> checked]
      BY <1>1, Zenon DEF Stopped
    <2> HIDE DEF mask, lps, checked
    <2>2. PICK e : e = [mask |-> mask, lps |-> checked]
      OBVIOUS
    <2>3. e.mask = mask /\ e.lps = checked
      BY <2>2
    <2> QED BY <2>1, <2>3, Zenon
  <1>3. ids = Collected(c.ids, continues, toks)
    <2>1. CASE c.ids = << >>
      <3>1. Append(<< >>, toks) = <<toks>>
        OBVIOUS
      <3>2. Collected(c.ids, continues, toks) = Append(<< >>, toks)
        BY <2>1, Zenon DEF Collected
      <3> QED BY <1>1, <2>1, <3>1, <3>2, Zenon
    <2>2. CASE c.ids # << >>
      BY <1>1, <2>2, Zenon
    <2> QED BY <2>1, <2>2
  <1>4. PICK e, t : Stopped(c, toks, continues) =
            [messages |-> c.messages, turn |-> t, done |-> TRUE,
             ids |-> ids, mask |-> e.mask, lps |-> e.lps]
    BY <1>2, Zenon
  <1>5. PICK s : s = Stopped(c, toks, continues)
    OBVIOUS
  <1>6. s.ids = ids /\ s.messages = c.messages /\ s.done = TRUE
    BY <1>4, <1>5
  <1> QED BY <1>3, <1>5, <1>6, Zenon

(* A last turn, and one after which the dialogue goes on.                   *)
LEMMA StoppedFits ==
  ASSUME NEW T, NEW ms \in Seq(Msg(T)), ms # << >>, NEW c, NEW toks \in Seq(T),
         toks # << >>, c.messages = Heard(ms, toks), c.ids \in Seq(Seq(T)),
         NEW continues, continues = (Last(ms).role = "assistant"),
         ~Skips(c, continues), Matches(Told(T, ms), c.ids),
         Last(ms).role = "assistant" => c.ids # << >>
  PROVE  Fits(T, Stopped(c, toks, continues))
  <1>1. PICK s : s = Stopped(c, toks, continues)
    OBVIOUS
  <1>2. /\ s.ids = Collected(c.ids, continues, toks) /\ s.messages = c.messages
        /\ s.done = TRUE
    <2>1. \A k : ~Skips(c, k) =>
              /\ Stopped(c, toks, k).ids = Collected(c.ids, k, toks)
              /\ Stopped(c, toks, k).messages = c.messages
              /\ Stopped(c, toks, k).done = TRUE
      BY StoppedIds
    <2> QED BY <1>1, <2>1, Zenon
  <1>3. PICK h : h = Heard(ms, toks)
    OBVIOUS
  <1>4. h # << >> /\ Last(h) # Dummy
    BY <1>3, HeardLast
  <1>5. Undummied(h) = h
    BY <1>4, Zenon DEF Undummied
  <1>6. PICK ids \in Seq(Seq(T)) : ids = c.ids
    OBVIOUS
  <1>7. Matches(Told(T, Heard(ms, toks)),
                Collected(ids, Last(ms).role = "assistant", toks))
    <2>1. Matches(Told(T, ms), ids) /\ (Last(ms).role = "assistant" => ids # << >>)
      BY <1>6, Zenon
    <2> QED BY <2>1, HeardMatches
  <1>8. Matches(Told(T, h), s.ids)
    BY <1>2, <1>3, <1>6, <1>7, Zenon
  <1>9. s.messages = h
    BY <1>2, <1>3, Zenon
  <1> QED BY <1>1, <1>2, <1>4, <1>5, <1>8, <1>9, Zenon DEF Fits

LEMMA GoesOnFits ==
  ASSUME NEW T, NEW t \in Nat \ {0}, NEW S, S \subseteq T,
         \A x \in Seq(S) : x # << >> => TurnsOf(x) = {t},
         NEW ms \in Seq(Msg(T)), ms # << >>, NEW c, NEW toks \in Seq(S),
         toks # << >>, c.ids \in Seq(Seq(T)), c.turn = t, ~c.done,
         NEW continues, continues = (Last(ms).role = "assistant"),
         NEW ret,
         IF scheduler = "plain"
         THEN /\ c.ids = << >> /\ ret.ids = << >>
              /\ ret.messages = Append(Heard(ms, toks), User)
         ELSE Telling(S, ms, ret),
         Matches(Told(T, ms), c.ids),
         Last(ms).role = "assistant" => c.ids # << >>
  PROVE  Fits(T, GoesOn(c, ret, toks, continues))
  <1>1. PICK s : s = GoesOn(c, ret, toks, continues)
    OBVIOUS
  <1>2. /\ s.messages = WithDummy(ret.messages) /\ s.turn = t + 1
        /\ s.done = c.done /\ s.ids = Collected(c.ids, continues, ret.ids)
    BY <1>1 DEF GoesOn
  <1>3. ASSUME NEW M \in Seq(Msg(T)), M = ret.messages, M # << >>, Last(M) # Dummy,
               Matches(Told(T, M), s.ids),
               Last(M).role = "assistant" => s.ids # << >>,
               Last(M).role = "assistant" \/ scheduler \in {"plain", "chat"}
        PROVE  Fits(T, s)
    <2>1. Undummied(s.messages) = M
      BY <1>2, <1>3, DummyGoes
    <2>2. t + 1 > 1
      OBVIOUS
    <2>3. scheduler \in {"tips", "tools"} => Last(M).role = "assistant"
      BY <1>3
    <2> QED BY <1>2, <1>3, <2>1, <2>2, <2>3, Zenon DEF Fits
  <1>4. PICK ids \in Seq(Seq(T)) : ids = c.ids
    OBVIOUS
  <1>5. ASSUME NEW w \in Seq(S), w # << >>
        PROVE  /\ w \in Seq(T) /\ TurnsOf(w) = {t}
               /\ Heard(ms, w) \in Seq(Msg(T)) /\ Heard(ms, w) # << >>
               /\ Last(Heard(ms, w)).role = "assistant"
               /\ Last(Heard(ms, w)) # Dummy
    <2>1. w \in Seq(T)
      OBVIOUS
    <2> QED BY <1>5, <2>1, HeardLast
  <1>6. CASE scheduler = "plain"
    <2>1. PICK h \in Seq(Msg(T)) : h = Heard(ms, toks)
      BY <1>5
    <2>2. PICK M \in Seq(Msg(T)) : M = Append(h, User)
      BY UserLast
    <2>3. M # << >> /\ Last(M) # Dummy /\ Last(M).role # "assistant"
      BY <2>2, UserLast
    <2>4. M = ret.messages
      BY <1>6, <2>1, <2>2, Zenon
    <2>5. s.ids = << >>
      BY <1>2, <1>6, Zenon DEF Collected
    <2>6. Matches(Told(T, M), << >>)
      BY MatchesNone, ThoseType DEF Told
    <2> QED BY <1>1, <1>3, <1>6, <2>3, <2>4, <2>5, <2>6
  <1>7. CASE scheduler # "plain"
    <2>1. Telling(S, ms, ret)
      BY <1>7
    <2>2. PICK w \in Seq(S), new \in Seq(S) :
        /\ w # << >> /\ new # << >> /\ ret.ids = new
        /\ ret.messages = IF scheduler = "chat" THEN Append(Heard(ms, w), User)
                          ELSE Heard(ms, w)
      BY <2>1, Zenon DEF Telling
    <2>3. w \in Seq(T) /\ new \in Seq(T) /\ TurnsOf(new) = TurnsOf(w)
      BY <1>5, <2>2
    <2>4. Matches(Told(T, Heard(ms, w)),
                  Collected(ids, Last(ms).role = "assistant", new))
      <3>1. Matches(Told(T, ms), ids) /\ (Last(ms).role = "assistant" => ids # << >>)
        BY <1>4, Zenon
      <3> QED BY <2>2, <2>3, <3>1, HeardMatches
    <2>5. PICK h \in Seq(Msg(T)) : h = Heard(ms, w)
      BY <1>5, <2>2
    <2>6. s.ids = Collected(ids, continues, new)
      BY <1>2, <1>4, <2>2, Zenon
    <2>7. Matches(Told(T, h), s.ids)
      BY <2>4, <2>5, <2>6, Zenon
    <2>8. s.ids # << >>
      BY <2>2, <2>3, <2>6, CollectedNew
    <2>9. h # << >> /\ Last(h) # Dummy /\ Last(h).role = "assistant"
      BY <1>5, <2>2, <2>5
    <2>10. CASE scheduler = "chat"
      <3>1. PICK M \in Seq(Msg(T)) : M = Append(h, User)
        BY UserLast
      <3>2. /\ M # << >> /\ Last(M) # Dummy /\ Last(M).role # "assistant"
            /\ Told(T, M) = Told(T, h)
        BY <3>1, UserLast
      <3>3. M = ret.messages
        BY <2>2, <2>5, <2>10, <3>1, Zenon
      <3>4. Matches(Told(T, M), s.ids)
        BY <2>7, <3>2, Zenon
      <3> QED BY <1>1, <1>3, <2>10, <3>2, <3>3, <3>4
    <2>11. CASE scheduler # "chat"
      <3>1. h = ret.messages
        BY <2>2, <2>5, <2>11, Zenon
      <3> QED BY <1>1, <1>3, <2>7, <2>8, <2>9, <3>1
    <2> QED BY <2>10, <2>11
  <1> QED BY <1>6, <1>7

LEMMA TurnedFits ==
  ASSUME NEW d \in Dialogues, NEW c \in Conv(Own(d)), Kept(c), Fits(Own(d), c),
         ~c.done, NEW m \in Moves, Possible(c, m), scheduler \in Schedulers,
         ~Uncollected
  PROVE  Fits(Own(d), Turned(c, d, m))
  <1> DEFINE T == Own(d)
             S == ByTurn(d, c.turn)
             ms == Undummied(c.messages)
             toks == Answer(d, c.turn, m.o)
             continues == Last(ms).role = "assistant"
             told == [c EXCEPT !.messages = Heard(ms, toks)]
             hint == <<Token(d, c.turn, Added)>>
             ret == Stepped(told.messages, toks, hint, m.o, m.cut)
  <1>1. Turned(c, d, m) = IF Finished(c, m) THEN Stopped(told, toks, continues)
                          ELSE GoesOn(told, ret, toks, continues)
    BY Zenon DEF Turned, Undummied
  <1>2. /\ m.o \in Outcomes /\ m.cut \in Nat
        /\ scheduler = "tips" => m.cut <= m.o.len
    BY DEF Moves, Possible
  <1>3. /\ c.turn \in 1..MaxTurns /\ c.turn \in Nat \ {0}
        /\ c.messages \in Seq(Msg(T)) /\ c.ids \in Seq(Seq(T))
    BY TurnsAssumption DEF Conv
  <1>4. /\ toks \in Seq(S) /\ toks # << >> /\ hint \in Seq(S) /\ S \subseteq T
        /\ m.o.len \in Nat /\ m.o.len <= Len(toks)
    <2>1. /\ toks \in Seq(S) /\ toks # << >> /\ hint \in Seq(S) /\ S \subseteq T
          /\ m.o.len \in Nat /\ Len(toks) >= m.o.len
      BY <1>2, <1>3, AnswerByTurn
    <2> HIDE DEF toks, hint, S, T
    <2> QED BY <2>1
  <1>5. hint # << >>
    OBVIOUS
  <1>6. \A x \in Seq(S) : x # << >> => TurnsOf(x) = {c.turn}
    BY OneTurn
  <1>7. ms \in Seq(Msg(T))
    <2>1. Front(c.messages) \in Seq(Msg(T))
      BY <1>3, FrontType
    <2> QED BY <1>3, <2>1 DEF Undummied
  <1>8. /\ ms # << >> /\ Matches(Told(T, ms), c.ids)
        /\ continues => c.ids # << >> /\ c.turn > 1
        /\ scheduler \in {"tips", "tools"} /\ c.ids # << >> => continues
    BY Zenon DEF Fits
  <1>9. PICK h : h = Heard(ms, toks)
    OBVIOUS
  <1>10. /\ told.messages = h /\ told.ids = c.ids /\ told.turn = c.turn
         /\ told.done = c.done
    BY <1>9 DEF Conv
  <1> HIDE DEF ms, toks, hint, S, T
  <1>11. ASSUME Finished(c, m)
         PROVE  Fits(T, Stopped(told, toks, continues))
    <2>1. ~Skips(told, continues)
      <3>1. scheduler = "plain" => c.ids = << >>
        BY Zenon DEF Kept
      <3>2. scheduler \in {"tips", "tools", "chat", "plain"}
        BY SchedulerAssumption
      <3>3. CASE scheduler \in {"tips", "tools"}
        BY <1>8, <1>10, <3>3, Zenon DEF Skips
      <3>4. CASE scheduler = "plain"
        BY <1>10, <3>1, <3>4, Zenon DEF Skips
      <3>5. CASE scheduler = "chat"
        BY <3>5, Zenon DEF Skips, Uncollected
      <3> QED BY <3>2, <3>3, <3>4, <3>5
    <2>2. PICK t : t = told
      OBVIOUS
    <2>3. /\ t.messages = Heard(ms, toks) /\ t.ids \in Seq(Seq(T))
          /\ Matches(Told(T, ms), t.ids)
          /\ Last(ms).role = "assistant" => t.ids # << >>
          /\ ~Skips(t, continues)
      BY <1>3, <1>8, <1>9, <1>10, <2>1, <2>2, Zenon
    <2>4. PICK b : b = continues
      OBVIOUS
    <2>5. toks \in Seq(T)
      BY <1>4
    <2> HIDE DEF told, continues
    <2>6. b = (Last(ms).role = "assistant") /\ ~Skips(t, b)
      BY <2>3, <2>4, Zenon DEF continues
    <2>7. Fits(T, Stopped(t, toks, b))
      BY <1>4, <1>7, <1>8, <2>3, <2>5, <2>6, StoppedFits
    <2> QED BY <2>2, <2>4, <2>7, Zenon
  <1>12. ASSUME ~Finished(c, m)
         PROVE  Fits(T, GoesOn(told, ret, toks, continues))
    <2>1. IF scheduler = "plain"
          THEN /\ c.ids = << >> /\ ret.ids = << >>
               /\ ret.messages = Append(Heard(ms, toks), User)
          ELSE Telling(S, ms, ret)
      <3>1. CASE scheduler = "plain"
        <4>1. c.ids = << >>
          BY <3>1, Zenon DEF Kept
        <4>2. ret.ids = << >> /\ ret.messages = Append(told.messages, User)
          BY <3>1 DEF Stepped
        <4> QED BY <1>9, <1>10, <3>1, <4>1, <4>2, Zenon
      <3>2. CASE scheduler # "plain"
        <4>1. scheduler = "tips" => Last(ms).role # "assistant"
          <5>1. scheduler = "tips" => ~(c.turn > 1)
            BY <1>12 DEF Finished
          <5> QED BY <1>8, <5>1, Zenon
        <4>2. PICK o : o = m.o
          OBVIOUS
        <4>3. PICK cut \in Nat : cut = m.cut
          BY <1>2
        <4>4. /\ o.len \in Nat /\ o.len <= Len(toks)
              /\ scheduler = "tips" => cut <= o.len
          BY <1>2, <1>4, <4>2, <4>3, Zenon
        <4>5. Telling(S, ms, Stepped(Heard(ms, toks), toks, hint, o, cut))
          BY <1>4, <1>5, <1>7, <1>8, <3>2, <4>1, <4>4, SteppedTells
        <4> QED BY <1>9, <1>10, <3>2, <4>2, <4>3, <4>5, Zenon
      <3> QED BY <3>1, <3>2
    <2>2. PICK t : t = told
      OBVIOUS
    <2>3. PICK r : r = ret
      OBVIOUS
    <2>4. PICK b : b = continues
      OBVIOUS
    <2> HIDE DEF ret
    <2>5. /\ t.ids \in Seq(Seq(T)) /\ t.turn = c.turn /\ ~t.done
          /\ Matches(Told(T, ms), t.ids)
          /\ Last(ms).role = "assistant" => t.ids # << >>
          /\ IF scheduler = "plain"
             THEN /\ t.ids = << >> /\ r.ids = << >>
                  /\ r.messages = Append(Heard(ms, toks), User)
             ELSE Telling(S, ms, r)
      BY <1>3, <1>8, <1>10, <2>1, <2>2, <2>3, Zenon
    <2> HIDE DEF told, continues
    <2>6. b = (Last(ms).role = "assistant")
      BY <2>4, Zenon DEF continues
    <2>7. PICK n \in Nat \ {0} : n = c.turn
      BY <1>3
    <2>8. t.turn = n /\ \A x \in Seq(S) : x # << >> => TurnsOf(x) = {n}
      BY <1>6, <2>5, <2>7
    <2>9. Fits(T, GoesOn(t, r, toks, b))
      BY <1>4, <1>7, <1>8, <2>5, <2>6, <2>8, GoesOnFits
    <2> QED BY <2>2, <2>3, <2>4, <2>9, Zenon
  <1> QED BY <1>1, <1>11, <1>12, Zenon DEF T

LEMMA TInit == Init => TInv
  <1> SUFFICES ASSUME Init
               PROVE  TInv
    OBVIOUS
  <1>1. MInv
    BY MInit
  <1>2. ASSUME NEW d \in Dialogues
        PROVE  Fits(Own(d), conv[d])
    <2>1. conv[d] = New
      BY DEF Init
    <2>2. PICK T : T = Own(d)
      OBVIOUS
    <2>3. /\ New.messages = <<User>> /\ New.ids = << >> /\ ~New.done
      BY DEF New
    <2>4. PICK e \in Seq(Msg(T)) : e = << >>
      <3>1. << >> \in Seq(Msg(T))
        OBVIOUS
      <3> QED BY <3>1, Zenon
    <2>5. PICK ms \in Seq(Msg(T)) : ms = Append(e, User)
      BY UserLast
    <2>6. ms # << >> /\ Last(ms) # Dummy /\ Last(ms).role # "assistant"
      BY <2>5, UserLast
    <2>7. New.messages = ms
      BY <2>3, <2>4, <2>5
    <2>8. Undummied(ms) = ms
      BY <2>6, Zenon DEF Undummied
    <2>9. Matches(Told(T, ms), << >>)
      BY MatchesNone, ThoseType DEF Told
    <2>10. Fits(T, New)
      BY <2>3, <2>6, <2>7, <2>8, <2>9, Zenon DEF Fits
    <2> QED BY <2>1, <2>2, <2>10, Zenon
  <1> QED BY <1>1, <1>2 DEF TInv

LEMMA TServe ==
  ASSUME TInv, NEW d \in Dialogues, Serve(d), ~Uncollected, NEW e \in Dialogues
  PROVE  Fits(Own(e), conv'[e])
  <1>1. PICK m \in Moves : /\ Possible(conv[d], m)
                           /\ conv' = [conv EXCEPT ![d] = Turned(@, d, m)]
    BY DEF Serve
  <1>2. ~conv[d].done
    BY DEF Serve
  <1>3. PICK c : c = Turned(conv[d], d, m)
    OBVIOUS
  <1>4. /\ conv[d] \in Conv(Own(d)) /\ Kept(conv[d]) /\ Fits(Own(d), conv[d])
        /\ Fits(Own(e), conv[e]) /\ scheduler \in Schedulers
    BY DEF TInv, MInv, IInv
  <1>5. Fits(Own(d), c)
    BY <1>1, <1>2, <1>3, <1>4, TurnedFits
  <1>6. conv' = [conv EXCEPT ![d] = c]
    BY <1>1, <1>3, Zenon
  <1>7. conv'[e] = IF e = d THEN c ELSE conv[e]
    BY <1>6 DEF TInv, MInv, IInv
  <1> QED BY <1>4, <1>5, <1>7, Zenon

LEMMA TTurn ==
  ASSUME TInv, NEW r \in Ranks, Turn(r), ~Uncollected, NEW d \in Dialogues
  PROVE  Fits(Own(d), conv'[d])
  <1> DEFINE Place(x) == CHOOSE i \in DOMAIN live[r] : live[r][i] = x
  <1>1. PICK m \in [Range(live[r]) -> Moves] :
          /\ \A x \in Range(live[r]) : Possible(conv[x], m[x])
          /\ conv' = [x \in Dialogues |->
                        IF x \notin Range(live[r]) THEN conv[x]
                        ELSE Turned(conv[x], out[r][Place(x)], m[x])]
    BY Zenon DEF Turn
  <1>2. pc[r] = "turn"
    BY DEF Turn
  <1>3. out[r] = live[r] /\ loop # "server"
    BY <1>2 DEF TInv, MInv, IInv, Lined, Live
  <1>4. ASSUME NEW x \in Range(live[r])
        PROVE  out[r][Place(x)] = x
    <2>1. \E i \in DOMAIN live[r] : live[r][i] = x
      BY DEF Range
    <2>2. live[r][Place(x)] = x
      BY <2>1
    <2> QED BY <1>3, <2>2
  <1> HIDE DEF Place
  <1>5. /\ conv[d] \in Conv(Own(d)) /\ Kept(conv[d]) /\ Fits(Own(d), conv[d])
        /\ scheduler \in Schedulers
    BY DEF TInv, MInv, IInv
  <1>6. CASE d \notin Range(live[r])
    <2>1. conv'[d] = conv[d]
      BY <1>1, <1>6, Zenon
    <2> QED BY <1>5, <2>1, Zenon
  <1>7. CASE d \in Range(live[r])
    <2>1. conv'[d] = Turned(conv[d], out[r][Place(d)], m[d])
      BY <1>1, <1>7, Zenon
    <2>2. conv'[d] = Turned(conv[d], d, m[d])
      BY <1>4, <1>7, <2>1, Zenon
    <2>3. m[d] \in Moves /\ Possible(conv[d], m[d])
      BY <1>1, <1>7, Zenon
    <2>4. ~conv[d].done
      BY <1>3, <1>7, Zenon DEF TInv, MInv, Live
    <2>5. Fits(Own(d), Turned(conv[d], d, m[d]))
      BY <1>5, <2>3, <2>4, TurnedFits
    <2> QED BY <2>2, <2>5, Zenon
  <1> QED BY <1>6, <1>7

LEMMA TNext == TInv /\ [Next]_vars => TInv'
  <1> SUFFICES ASSUME TInv, [Next]_vars
               PROVE  TInv'
    OBVIOUS
  <1>1. MInv'
    BY MNext DEF TInv
  <1>2. loop' = loop /\ scheduler' = scheduler
    BY DEF Next, Gather, Rollout, Serve, Turn, vars
  <1>3. ASSUME ~Uncollected, NEW e \in Dialogues
        PROVE  Fits(Own(e), conv'[e])
    <2>1. CASE UNCHANGED conv
      BY <1>3, <2>1 DEF TInv
    <2>2. ASSUME NEW d \in Dialogues, Serve(d)
          PROVE  Fits(Own(e), conv'[e])
      BY <1>3, <2>2, TServe
    <2>3. ASSUME NEW r \in Ranks, Turn(r)
          PROVE  Fits(Own(e), conv'[e])
      BY <1>3, <2>3, TTurn
    <2>4. CASE Gather \/ Rollout \/ UNCHANGED vars
      <3>1. UNCHANGED conv
        BY <2>4 DEF Gather, Rollout, vars
      <3> QED BY <2>1, <3>1
    <2> QED BY <2>2, <2>3, <2>4 DEF Next
  <1>4. ASSUME NEW e \in Dialogues, Fits(Own(e), conv'[e])
        PROVE  Fits(Own(e), conv[e])'
    BY <1>2, <1>4, Zenon DEF Fits, Own, Told, Says, Msg
  <1>5. Uncollected' <=> Uncollected
    BY <1>2 DEF Uncollected
  <1> QED BY <1>1, <1>3, <1>4, <1>5 DEF TInv

(* What a dialogue is trained on, when it fits.                             *)
LEMMA ThoseAgree ==
  ASSUME NEW T, NEW S, NEW R, T \cap S = T \cap R
  PROVE  \A s \in Seq(T) : Those(s, S) = Those(s, R)
  <1> DEFINE P == {s \in Seq(T) : Those(s, S) = Those(s, R)}
  <1>1. << >> \in P
    <2>1. << >> \in Seq(T)
      OBVIOUS
    <2> QED BY <2>1, ThoseEmpty
  <1>2. ASSUME NEW s \in Seq(T), NEW x \in T, s \in P
        PROVE  Append(s, x) \in P
    <2>1. x \in S <=> x \in R
      OBVIOUS
    <2>2. Those(s, S) = Those(s, R)
      BY <1>2
    <2>3. Those(Append(s, x), S) = Those(Append(s, x), R)
      <3>1. Those(Append(s, x), S) = IF x \in S THEN Append(Those(s, S), x)
                                     ELSE Those(s, S)
        BY ThoseAppend
      <3>2. Those(Append(s, x), R) = IF x \in R THEN Append(Those(s, R), x)
                                     ELSE Those(s, R)
        BY ThoseAppend
      <3> QED BY <2>1, <2>2, <3>1, <3>2, Zenon
    <2>4. Append(s, x) \in Seq(T)
      OBVIOUS
    <2> QED BY <2>3, <2>4
  <1> HIDE DEF P
  <1>3. \A s \in Seq(T) : s \in P
    BY <1>1, <1>2, SeqInduction
  <1> QED BY <1>3 DEF P

LEMMA FitsTrains ==
  ASSUME NEW T, NEW c, c.messages \in Seq(Msg(T)), c.ids \in Seq(Seq(T)),
         Fits(T, c), c.done
  PROVE  OwnWords(c)
  <1>1. PICK ms \in Seq(Msg(T)) : ms = c.messages
    OBVIOUS
  <1>2. PICK ids \in Seq(Seq(T)) : ids = c.ids
    OBVIOUS
  <1>3. Matches(Told(T, ms), ids)
    BY <1>1, <1>2, Zenon DEF Fits
  <1>4. Spoken(c) = Told(T, ms)
    <2>1. PICK R : R = Range(ms)
      OBVIOUS
    <2>2. ms \in Seq(R) /\ R \subseteq Msg(T)
      BY <2>1 DEF Range
    <2>3. R \cap {m \in R : m.role = "assistant"} = R \cap Says(T)
      BY <2>2 DEF Says
    <2>4. Those(ms, {m \in R : m.role = "assistant"}) = Those(ms, Says(T))
      <3>1. PICK Q : Q = {m \in R : m.role = "assistant"}
        OBVIOUS
      <3>2. R \cap Q = R \cap Says(T)
        BY <2>3, <3>1, Zenon
      <3>3. Those(ms, Q) = Those(ms, Says(T))
        BY <2>2, <3>2, ThoseAgree
      <3> QED BY <3>1, <3>3, Zenon
    <2> QED BY <1>1, <2>1, <2>4, Zenon DEF Spoken, Told
  <1>5. PICK said \in Seq(Msg(T)) : said = Told(T, ms)
    BY ThoseType DEF Told
  <1>6. PICK a \in Nat, b \in Nat : a = Len(said) /\ b = Len(ids)
    OBVIOUS
  <1>7. DOMAIN said = 1..a /\ DOMAIN ids = 1..b
    BY <1>6
  <1>8. /\ b <= a
        /\ \A k \in 1..b : TurnsOf(ids[k]) = TurnsOf(said[a - b + k].content)
    BY <1>3, <1>5, <1>6, <1>7, Zenon DEF Matches
  <1>9. Replaced(c) = [i \in 1..a |-> IF i > a - b THEN ids[i - (a - b)]
                                      ELSE said[i].content]
    BY <1>2, <1>4, <1>5, <1>6, <1>7, Zenon DEF Replaced
  <1>10. ASSUME NEW i \in 1..a
         PROVE  TurnsOf(Replaced(c)[i]) = TurnsOf(said[i].content)
    <2>1. CASE i > a - b
      <3>1. i - (a - b) \in 1..b /\ a - b + (i - (a - b)) = i
        BY <2>1
      <3>2. Replaced(c)[i] = ids[i - (a - b)]
        BY <1>9, <2>1
      <3> QED BY <1>8, <3>1, <3>2, Zenon
    <2>2. CASE ~(i > a - b)
      <3>1. Replaced(c)[i] = said[i].content
        BY <1>9, <2>2
      <3> QED BY <3>1
    <2> QED BY <2>1, <2>2
  <1> QED BY <1>4, <1>5, <1>7, <1>10, Zenon DEF OwnWords

LEMMA IsTrained == TInv => TrainedOnOwnWords
  <1> SUFFICES ASSUME TInv, NEW d \in Dialogues, conv[d].done, ~Uncollected
               PROVE  OwnWords(conv[d])
    BY Zenon DEF TrainedOnOwnWords, Uncollected
  <1>1. conv[d] \in Conv(Own(d)) /\ Fits(Own(d), conv[d])
    BY DEF TInv, MInv, IInv
  <1>2. conv[d].messages \in Seq(Msg(Own(d))) /\ conv[d].ids \in Seq(Seq(Own(d)))
    BY <1>1 DEF Conv
  <1> QED BY <1>1, <1>2, FitsTrains

(* Whatever the answers, the scheduler and the loop, but for a server's     *)
(* scheduler that adds user messages: when a dialogue ends, each of its     *)
(* messages is trained on with ids of just the turns it is made of.         *)
THEOREM TrainingIsRight == Spec => []TrainedOnOwnWords
  <1> QED BY TInit, TNext, IsTrained, PTL DEF Spec
==============================================================================

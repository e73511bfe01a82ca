------------------------------ MODULE MultiTurn ------------------------------
(***************************************************************************)
(* Multi-turn rollouts: a dialogue goes on as long as a scheduler's step   *)
(* adds something to it. Beside the messages the loop collects, per turn,  *)
(* the token ids, a mask of those the model is trained on and their        *)
(* log-probabilities, which the trainer puts in place of the messages.     *)
(* The loop exists twice: for one dialogue on the rollout server, and for  *)
(* the batches of all ranks in a colocated trainer.                        *)
(*                                                                         *)
(* rollout/multi_turn.py (MultiTurnScheduler.run, MathTipsScheduler),      *)
(* rlhf_trainers/rollout_mixin.py (_colocate_multi_turn_infer),            *)
(* rlhf_trainers/utils.py (replace_assistant_response_with_ids).           *)
(***************************************************************************)
EXTENDS Integers, Sequences, SequencesExt, Sublists

CONSTANTS
    Batch,          \* the dialogues of each rank, ranks being 1, 2, ...
    MaxTurns,       \* max_turns
    Outcomes,       \* what the model may answer: lengths and finish reasons
    Loops,          \* which of the loops: "server", "colocate"
    Schedulers      \* which kinds of scheduler, see Stepped

Ranks == DOMAIN Batch
Dialogues == UNION {Range(Batch[r]) : r \in Ranks}

(* Each entry of a batch is a dialogue of its own. *)
ASSUME BatchAssumption ==
    /\ Batch \in Seq(Seq(Dialogues)) /\ Batch # << >>
    /\ \A r, s \in Ranks : \A i \in DOMAIN Batch[r], j \in DOMAIN Batch[s] :
           Batch[r][i] = Batch[s][j] => r = s /\ i = j
ASSUME TurnsAssumption == MaxTurns \in Nat \ {0}
ASSUME LoopAssumption == Loops \subseteq {"server", "colocate"}
ASSUME SchedulerAssumption ==
    Schedulers \subseteq {"tips", "tools", "chat", "plain"}
(* A completion of no text still ends with the end-of-sequence token. *)
ASSUME OutcomeAssumption ==
    \A o \in Outcomes : \/ o.finish = "stop" /\ o.len \in Nat
                        \/ o.finish = "length" /\ o.len \in Nat \ {0}

(* A token: of which dialogue, of which turn, and its place in the answer, *)
(* the end-of-sequence token or what a scheduler added.                    *)
Eos == 0
Added == -1
Words == [of : Dialogues, turn : 1..MaxTurns, at : Nat]
Token(d, t, n) == [of |-> d, turn |-> t, at |-> n]
Answer(d, t, o) ==
    [i \in 1..o.len |-> Token(d, t, i)]
        \o (IF o.finish = "stop" THEN <<Token(d, t, Eos)>> ELSE << >>)
Ones(toks) == [i \in DOMAIN toks |-> 1]
Zeros(toks) == [i \in DOMAIN toks |-> 0]

User == [role |-> "user", content |-> << >>]
Assistant(toks) == [role |-> "assistant", content |-> toks]
Dummy == Assistant(<< >>)

VARIABLES
    loop,           \* the loop of this behaviour
    scheduler,      \* its scheduler
    logprobs,       \* whether log-probabilities are asked for
    conv,           \* the dialogues and what was collected of them
    pc, live, out   \* colocated ranks: index_to_infer and outputs

vars == <<loop, scheduler, logprobs, conv, pc, live, out>>

New == [messages |-> <<User>>, turn |-> 1, done |-> FALSE,
        ids |-> << >>, mask |-> << >>, lps |-> << >>]

Init ==
    /\ loop \in Loops /\ scheduler \in Schedulers /\ logprobs \in BOOLEAN
    /\ conv = [d \in Dialogues |-> New]
    /\ pc = [r \in Ranks |-> "gather"]
    /\ live = Batch
    /\ out = Batch

-----------------------------------------------------------------------------
(* One turn of one dialogue.                                               *)

(* What is collected extends the entry of the message that is continued,   *)
(* or is an entry of its own.                                              *)
Collected(list, continues, new) ==
    IF new = << >> THEN list
    ELSE IF continues /\ list # << >>
    THEN [list EXCEPT ![Len(list)] = @ \o new]
    ELSE Append(list, new)

Lps(toks) == IF logprobs THEN toks ELSE << >>

(* The answer continues an assistant message or is a message of its own.   *)
Heard(messages, toks) ==
    IF Last(messages).role = "assistant"
    THEN [messages EXCEPT ![Len(messages)].content = @ \o toks]
    ELSE Append(messages, Assistant(toks))

(* Faulty variant: tokens that are not trained on are counted. *)
CheckedLpsAll(ids, mask, lps) ==
    IF Len(FlattenSeq(lps)) = Len(FlattenSeq(ids)) THEN lps ELSE << >>

(* The log-probabilities are dropped if they are not one for each token    *)
(* that the mask has.                                                      *)
CheckedLps(ids, mask, lps) ==
    LET counted == IF mask # << >> THEN Those(FlattenSeq(mask), {1})
                   ELSE FlattenSeq(ids)
    IN  IF Len(FlattenSeq(lps)) = Len(counted) THEN lps ELSE << >>

(* Faulty variant: in neither loop the last answer has an entry of its own.*)
SkipsAny(c, continues) == c.ids # << >> /\ ~continues

(* The server's loop has no branch for a last answer that continues no     *)
(* message while earlier ones have been collected.                         *)
Skips(c, continues) == loop = "server" /\ c.ids # << >> /\ ~continues

(* The last turn of a dialogue. If it is the first that is collected, it   *)
(* is all there is.                                                        *)
Stopped(c, toks, continues) ==
    LET first == c.ids = << >>
        skip == Skips(c, continues)
        ids == IF first THEN <<toks>> ELSE IF skip THEN c.ids
               ELSE Collected(c.ids, continues, toks)
        mask == IF first THEN <<Ones(toks)>>
                ELSE IF skip \/ (continues /\ c.mask = << >>) THEN c.mask
                ELSE Collected(c.mask, continues, Ones(toks))
        lps == IF first /\ logprobs THEN <<toks>>
               ELSE IF first \/ skip \/ (continues /\ c.lps = << >>) THEN c.lps
               ELSE Collected(c.lps, continues, Lps(toks))
    IN  [messages |-> c.messages, turn |-> c.turn, done |-> TRUE,
         ids |-> ids, mask |-> mask, lps |-> CheckedLps(ids, mask, lps)]

(* Faulty variant: the mask covers the hint as well. *)
ReturnedAllOnes(messages, added, toks, keptLps) ==
    [messages |-> messages, ids |-> toks \o added,
     mask |-> Ones(toks \o added), lps |-> keptLps]

(* What the schedulers' step makes of an answer: the messages, and the     *)
(* ids, mask and log-probabilities it returns, if any.                     *)
(*   tips   cuts the answer at cut and adds a hint, for once (MathTips);   *)
(*   tools  adds a tool's result to the answer;                            *)
(*   chat   adds a user message and returns the ids of the answer;         *)
(*   plain  adds a user message and returns nothing more.                  *)
Returned(messages, added, toks, keptLps) ==
    [messages |-> messages, ids |-> toks \o added,
     mask |-> Ones(toks) \o Zeros(added), lps |-> keptLps]

(* "tips" puts the hint where the answer ends; at least one token is kept. *)
Tips(messages, toks, hint, o, cut) ==
    LET whole == cut = o.len
        text == IF whole THEN toks ELSE SubSeq(toks, 1, cut)
        kept == IF whole THEN toks
                ELSE SubSeq(toks, 1, IF cut = 0 THEN 1 ELSE cut)
    IN  Returned([messages EXCEPT ![Len(messages)].content = text \o hint],
                 hint, kept, Lps(kept))

Stepped(messages, toks, added, o, cut) ==
    CASE scheduler = "tips" -> Tips(messages, toks, added, o, cut)
      [] scheduler = "tools" ->
           Returned([messages EXCEPT ![Len(messages)].content = @ \o added],
                    added, toks, << >>)
      [] scheduler = "chat" ->
           Returned(Append(messages, User), << >>, toks, << >>)
      [] scheduler = "plain" ->
           [messages |-> Append(messages, User),
            ids |-> << >>, mask |-> << >>, lps |-> << >>]

(* A dummy answer makes the engine continue an assistant message. *)
WithDummy(messages) ==
    IF Last(messages).role = "assistant" THEN Append(messages, Dummy)
    ELSE messages

GoesOn(c, ret, toks, continues) ==
    [messages |-> WithDummy(ret.messages), turn |-> c.turn + 1, done |-> c.done,
     ids |-> Collected(c.ids, continues, ret.ids),
     mask |-> Collected(c.mask, continues, ret.mask),
     lps |-> Collected(c.lps, continues, IF ret.lps # << >> THEN ret.lps
                                         ELSE Lps(toks))]

(* Faulty variant: only the scheduler counts the turns. *)
FinishedByScheduler(c, m) == m.o.finish = "length" \/ m.stop

(* check_finished and max_turns; a hint is given once, other schedulers    *)
(* stop when they like, which m.stop says.                                 *)
Finished(c, m) == \/ m.o.finish = "length" \/ c.turn >= MaxTurns
                  \/ IF scheduler = "tips" THEN c.turn > 1 \/ m.stop
                     ELSE m.stop

Moves == {[o |-> o, stop |-> s, cut |-> n] : o \in Outcomes, s \in BOOLEAN,
                                            n \in 0..2}
(* MathTips is modelled for a first answer that has text. *)
Possible(c, m) ==
    IF scheduler = "tips" THEN m.cut <= m.o.len /\ (c.turn = 1 => m.o.len > 0)
    ELSE m.cut = 0

(* The turn of c in which the engine answered with tokens of dialogue d.   *)
Turned(c, d, m) ==
    LET before == IF Last(c.messages) = Dummy THEN Front(c.messages)
                  ELSE c.messages
        toks == Answer(d, c.turn, m.o)
        continues == Last(before).role = "assistant"
        told == [c EXCEPT !.messages = Heard(before, toks)]
    IN  IF Finished(c, m) THEN Stopped(told, toks, continues)
        ELSE GoesOn(told, Stepped(told.messages, toks,
                                  <<Token(d, c.turn, Added)>>, m.o, m.cut),
                    toks, continues)

-----------------------------------------------------------------------------
(* MultiTurnScheduler.run: the server has a coroutine for each dialogue.   *)
Serve(d) ==
    /\ loop = "server"
    /\ ~conv[d].done
    /\ \E m \in Moves : /\ Possible(conv[d], m)
                        /\ conv' = [conv EXCEPT ![d] = Turned(@, d, m)]
    /\ UNCHANGED <<loop, scheduler, logprobs, pc, live, out>>

(* Faulty variant: a rank ends when it has no dialogues itself. *)
GatherOwn ==
    /\ loop = "colocate"
    /\ \A r \in Ranks : pc[r] \in {"gather", "end"}
    /\ \E r \in Ranks : pc[r] = "gather"
    /\ pc' = [r \in Ranks |-> IF live[r] # << >> THEN "turn" ELSE "end"]
    /\ UNCHANGED <<loop, scheduler, logprobs, conv, live, out>>

(* _colocate_multi_turn_infer: the ranks tell one another whether they     *)
(* have dialogues left, and end together.                                  *)
Gather ==
    /\ loop = "colocate"
    /\ \A r \in Ranks : pc[r] = "gather"
    /\ pc' = [r \in Ranks |-> IF \E s \in Ranks : live[s] # << >>
                              THEN "turn" ELSE "end"]
    /\ UNCHANGED <<loop, scheduler, logprobs, conv, live, out>>

(* The dialogues of a list that are not done, in order.                    *)
GoOn(list, convs) == Those(list, {d \in Dialogues : ~convs[d].done})

(* A rank goes through its outputs and keeps the dialogues that go on.     *)
Turn(r) ==
    /\ pc[r] = "turn"
    /\ \E m \in [Range(live[r]) -> Moves] :
          /\ \A d \in Range(live[r]) : Possible(conv[d], m[d])
          /\ conv' = [d \in Dialogues |->
                        IF d \notin Range(live[r]) THEN conv[d]
                        ELSE LET i == CHOOSE i \in DOMAIN live[r] :
                                          live[r][i] = d
                             IN  Turned(conv[d], out[r][i], m[d])]
    /\ live' = [live EXCEPT ![r] = GoOn(live[r], conv')]
    /\ pc' = [pc EXCEPT ![r] = "rollout"]
    /\ UNCHANGED <<loop, scheduler, logprobs, out>>

(* Faulty variant: each rank takes the slice from the beginning. *)
StartFirst(r) == 0

(* Where the requests of a rank begin among those of its group: behind     *)
(* those of the ranks before it.                                           *)
Before[n \in 0..Len(Batch)] ==
    IF n = 0 THEN 0 ELSE Before[n - 1] + Len(live[n])
Start(r) == Before[r - 1]

(* _colocate_rollout: the group's engine answers all requests, and each    *)
(* rank takes its slice.                                                   *)
Rollout ==
    /\ \A r \in Ranks : pc[r] = "rollout"
    /\ LET all == FlattenSeq(live)
       IN  out' = [r \in Ranks |->
                     SubSeq(all, Start(r) + 1, Start(r) + Len(live[r]))]
    /\ pc' = [r \in Ranks |-> "gather"]
    /\ UNCHANGED <<loop, scheduler, logprobs, conv, live>>

Next == Gather \/ Rollout \/ (\E d \in Dialogues : Serve(d))
            \/ (\E r \in Ranks : Turn(r))

Spec == Init /\ [][Next]_vars
(* Every step is a call that returns: the engine answers each request.     *)
FairSpec == Spec /\ WF_vars(Next)

-----------------------------------------------------------------------------
(* replace_assistant_response_with_ids puts the ids in place of the        *)
(* assistant messages, from the last one back.                             *)
Spoken(c) ==
    Those(c.messages, {m \in Range(c.messages) : m.role = "assistant"})
Replaced(c) ==
    LET missing == Len(Spoken(c)) - Len(c.ids)
    IN  [i \in DOMAIN Spoken(c) |-> IF i > missing THEN c.ids[i - missing]
                                    ELSE Spoken(c)[i].content]

TurnsOf(toks) == {t.turn : t \in Range(toks)}
OwnWords(c) == \A i \in DOMAIN Spoken(c) :
                   TurnsOf(Replaced(c)[i]) = TurnsOf(Spoken(c)[i].content)

(* Types of the dialogues and of the ranks' progress.                      *)
TypeOK ==
    LET Toks == Seq([of : Dialogues, turn : 1..MaxTurns, at : Int])
    IN  /\ loop \in Loops /\ scheduler \in Schedulers /\ logprobs \in BOOLEAN
        /\ \A d \in Dialogues :
              /\ conv[d].turn \in 1..MaxTurns /\ conv[d].done \in BOOLEAN
              /\ conv[d].messages \in
                    Seq([role : {"user", "assistant"}, content : Toks])
              /\ conv[d].ids \in Seq(Toks) /\ conv[d].lps \in Seq(Toks)
              /\ conv[d].mask \in Seq(Seq({0, 1}))
        /\ pc \in [Ranks -> {"gather", "turn", "rollout", "end"}]
        /\ live \in [Ranks -> Seq(Dialogues)]
        /\ out \in [Ranks -> Seq(Dialogues)]

(* Whatever turns a batch's dialogues stop in, a dialogue is made of its   *)
(* own answers: requests, outputs and slices stay aligned over the turns.  *)
OwnAnswers ==
    TypeOK /\ \A d \in Dialogues :
        \A i \in DOMAIN conv[d].messages :
            \A t \in Range(conv[d].messages[i].content) : t.of = d

(* Every assistant message is trained on with the tokens of the turns it   *)
(* is made of. (Not so for a server's scheduler that adds user messages,   *)
(* whose last turn no branch collects.)                                    *)
TrainedOnOwnWords ==
    \A d \in Dialogues :
        conv[d].done /\ ~(loop = "server" /\ scheduler = "chat")
            => OwnWords(conv[d])

(* The mask has a place for each token and is 1 on those of the model; the *)
(* log-probabilities, if asked for, are never given up, and are those of   *)
(* the tokens the mask has, in that order.                                 *)
MaskMarksAnswers ==
    \A d \in Dialogues :
        LET c == conv[d]
        IN  c.done =>
              /\ c.mask = [i \in DOMAIN c.ids |->
                             [j \in DOMAIN c.ids[i] |->
                                IF c.ids[i][j].at = Added THEN 0 ELSE 1]]
              /\ logprobs =>
                    FlattenSeq(c.lps) = Those(FlattenSeq(c.ids), Words)

(* All dialogues end, and all ranks leave the loop together.               *)
AllEnd == <>[](/\ \A d \in Dialogues : conv[d].done
               /\ loop = "colocate" => \A r \in Ranks : pc[r] = "end")
=============================================================================

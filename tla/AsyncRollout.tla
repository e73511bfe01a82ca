---------------------------- MODULE AsyncRollout ----------------------------
(***************************************************************************)
(* GRPO training with async_generate: every trainer rank has a main thread *)
(* (the HF training loop, with evaluation loops between optimizer steps)   *)
(* and a one-thread executor that asks the vLLM server for completions.    *)
(* A generation batch is submitted to the executor and the result of the   *)
(* PREVIOUS one is taken from a queue, so sampling overlaps training.      *)
(* Only the main rank talks to the server: it pushes the policy weights    *)
(* and sends the gathered prompts; the other ranks' tasks return [] and    *)
(* their share comes from gather_object.                                   *)
(*                                                                         *)
(* rlhf_trainers/rollout_mixin.py and rlhf_trainers/grpo_trainer.py.       *)
(***************************************************************************)
EXTENDS Integers, Sequences

CONSTANTS
    Ranks,          \* the processes of the training job
    Main,           \* accelerator.is_main_process
    MaxStep,        \* state.max_steps: optimizer steps of the run
    GradAccum,      \* gradient_accumulation_steps
    GenEvery,       \* generate_every: micro steps fed by one generation
    EvalBatches,    \* length of the evaluation dataloader
    EvalsAfter,     \* evaluations the flow control runs after each step
    SkipSync,       \* GEOBENCH_SKIP_VLLM_SYNC_AFTER_STEP0
    InferMayFail    \* an infer call in the executor may raise

ASSUME MainAssumption == Main \in Ranks
ASSUME StepAssumption == /\ MaxStep \in Nat
                         /\ GradAccum \in Nat \ {0}
                         /\ GenEvery \in Nat \ {0}
ASSUME EvalAssumption == /\ EvalBatches \in Nat
                         /\ EvalsAfter \in [0..MaxStep -> Nat]
ASSUME FlagAssumption == SkipSync \in BOOLEAN /\ InferMayFail \in BOOLEAN

Modes == {"train", "eval"}
Version == 0..MaxStep       \* weights are named by the global_step they had
Mixed == -1                 \* sampled from, or holding, more than one version
NotLoaded == -1             \* _last_loaded_step before the first load
Idle == -2                  \* no call of the executor is on the wire
Nothing == [seq |-> -1, ver |-> -1, asked |-> -1, of |-> -1]

(***************************************************************************)
(* A batch of prompts handed to the rollout: its number in its queue, the  *)
(* weights its asker believes loaded, and the dataloader batch it is about.*)
(* A result adds the version it was really sampled from.                   *)
(***************************************************************************)
Task == [mode : Modes, seq : Nat, asked : Int, of : Nat]
Result == [seq : Nat, ver : Int, asked : Int, of : Nat]

VARIABLES
    pc,             \* where the main thread of each rank is
    step,           \* state.global_step
    micro,          \* self._step
    lastLoaded,     \* self._last_loaded_step
    shouldEval,     \* control.should_evaluate
    inEval,         \* the rank is inside evaluate(): not model.training
    evalFlag,       \* self.eval_flag
    evalsLeft,      \* evaluations still to run before the next step
    evalIdx,        \* batches of the current evaluation already scored
    asks,           \* batches handed to the rollout so far, per queue
    tasks,          \* submitted to the one-thread executor, head running
    queue,          \* train_queue and eval_queue
    got,            \* data_cache taken by _fast_infer, before the gather
    buffer,         \* self._buffered_inputs
    scored,         \* the completions of the current evaluation batch
    started,        \* weights on the server when the executor's call began
    weights,        \* policy weights on the vLLM server
    cache           \* versions whose KV blocks the prefix cache may hold

clock == <<step, micro>>
flow == <<shouldEval, inEval, evalFlag, evalsLeft>>
data == <<got, buffer, scored>>
server == <<started, weights, cache>>
vars == <<pc, clock, lastLoaded, flow, evalIdx, asks, tasks, queue, data,
          server>>

Init ==
    /\ pc = [r \in Ranks |-> "prefetchGather"]
    /\ step = [r \in Ranks |-> 0]
    /\ micro = [r \in Ranks |-> 0]
    /\ lastLoaded = [r \in Ranks |-> NotLoaded]
    /\ shouldEval = [r \in Ranks |-> FALSE]
    /\ inEval = [r \in Ranks |-> FALSE]
    /\ evalFlag = [r \in Ranks |-> FALSE]
    /\ evalsLeft = [r \in Ranks |-> EvalsAfter[0]]
    /\ evalIdx = [r \in Ranks |-> 0]
    /\ asks = [r \in Ranks |-> [m \in Modes |-> 0]]
    /\ tasks = [r \in Ranks |-> << >>]
    /\ queue = [r \in Ranks |-> [m \in Modes |-> << >>]]
    /\ got = [r \in Ranks |-> Nothing]
    /\ buffer = [r \in Ranks |-> Nothing]
    /\ scored = [r \in Ranks |-> Nothing]
    /\ started = Idle
    /\ weights = 0
    /\ cache = {}

-----------------------------------------------------------------------------
(* The _queue property: chosen by control.should_evaluate when it is read. *)
Mode(r) == IF shouldEval[r] THEN "eval" ELSE "train"
Queue(r) == queue[r][Mode(r)]

(* _fast_infer and _prefetch reload when the policy moved since last time. *)
MustLoad(r) == step[r] # lastLoaded[r]

(* The batch the dataloader is at: the evaluation's own, or the next       *)
(* generation batch of the training dataloader.                            *)
CurrentBatch(r) == IF inEval[r] THEN evalIdx[r] ELSE micro[r] \div GenEvery

(* Where the flow control goes once the step, or an evaluation, is over.   *)
AfterStep(s, evals) == IF evals > 0 THEN "evalWait"
                       ELSE IF s = MaxStep THEN "done" ELSE "stepWait"

(* What a call sampled: one version only if the weights stood still under  *)
(* it and no KV block of older weights was left to be reused.              *)
SampledFrom(v) == IF weights = v /\ cache \subseteq {v} THEN v ELSE Mixed

(* Faulty variant: the other ranks' tasks put nothing usable. *)
AnswerNone(r, t, v) == IF r = Main THEN [seq |-> t.seq, ver |-> v,
                                         asked |-> t.asked, of |-> t.of]
                       ELSE << >>

(* Ranks other than the main one return [] from _server_rollout.           *)
Answer(r, t, v) == [seq |-> t.seq, ver |-> IF r = Main THEN v ELSE t.asked,
                    asked |-> t.asked, of |-> t.of]

NewTask(r) == [mode |-> Mode(r), seq |-> asks[r][Mode(r)],
               asked |-> lastLoaded[r], of |-> CurrentBatch(r)]

-----------------------------------------------------------------------------
(* gather_object is one primitive wherever it is called: it fires when     *)
(* every rank is in some gather_object, and each goes on from its own.     *)
GatherPoints == {"prefetchGather", "genGather", "resGather"}

AfterGather(r) ==
    CASE pc[r] = "prefetchGather" ->
            IF MustLoad(r) THEN "prefetchLoad" ELSE "prefetchInfer"
      [] pc[r] = "genGather" -> "genGet"
      [] pc[r] = "resGather" -> IF inEval[r] THEN "evalNext" ELSE "backward"

GatherObject ==
    /\ \A r \in Ranks : pc[r] \in GatherPoints
    /\ pc' = [r \in Ranks |-> AfterGather(r)]
    /\ tasks' = [r \in Ranks |-> IF pc[r] = "genGather"
                                 THEN Append(tasks[r], NewTask(r))
                                 ELSE tasks[r]]
    /\ asks' = [r \in Ranks |->
                  IF pc[r] = "genGather"
                  THEN [asks[r] EXCEPT ![Mode(r)] = @ + 1] ELSE asks[r]]
    /\ buffer' = [r \in Ranks |-> IF pc[r] = "resGather" /\ ~inEval[r]
                                  THEN got[Main] ELSE buffer[r]]
    /\ scored' = [r \in Ranks |-> IF pc[r] = "resGather" /\ inEval[r]
                                  THEN got[Main] ELSE scored[r]]
    /\ evalIdx' = [r \in Ranks |-> IF pc[r] = "resGather" /\ inEval[r]
                                   THEN evalIdx[r] + 1 ELSE evalIdx[r]]
    /\ UNCHANGED <<clock, lastLoaded, flow, queue, got, server>>

(* Faulty variant: the load does not wait for the queue. *)
MayLoadNoWait(r) == pc[r] \in {"genLoad", "prefetchLoad"}

(* _move_model_to_vllm. genLoad first waits for the queue (_wait_queue);   *)
(* the prefetch passes skip_async_check. The main rank alone sends the     *)
(* weights, tensor after tensor: until EndLoad the server holds a mixture. *)
MayLoad(r) == \/ pc[r] = "genLoad" /\ Queue(r) # << >>
              \/ pc[r] = "prefetchLoad"

AfterLoad(r) == IF pc[r] \in {"genLoad", "genLoading"}
                THEN "genGather" ELSE "prefetchInfer"

(* Faulty variant: off by one in the switch. *)
SkipsLoadLate(r) == SkipSync /\ step[r] > 1

SkipsLoad(r) == SkipSync /\ step[r] > 0

BeginLoad ==
    /\ MayLoad(Main)
    /\ ~SkipsLoad(Main)
    /\ pc' = [pc EXCEPT ![Main] = IF @ = "genLoad" THEN "genLoading"
                                  ELSE "prefetchLoading"]
    /\ weights' = Mixed
    /\ UNCHANGED <<clock, lastLoaded, flow, evalIdx, asks, tasks, queue, data,
                   started, cache>>

(* Faulty variant: the prefix cache is not reset. *)
EndLoadKeepCache ==
    /\ pc[Main] \in {"genLoading", "prefetchLoading"}
    /\ pc' = [pc EXCEPT ![Main] = AfterLoad(Main)]
    /\ weights' = step[Main]
    /\ lastLoaded' = [lastLoaded EXCEPT ![Main] = step[Main]]
    /\ UNCHANGED <<clock, flow, evalIdx, asks, tasks, queue, data, started,
                   cache>>

EndLoad ==
    /\ pc[Main] \in {"genLoading", "prefetchLoading"}
    /\ pc' = [pc EXCEPT ![Main] = AfterLoad(Main)]
    /\ weights' = step[Main]
    /\ cache' = {}
    /\ lastLoaded' = [lastLoaded EXCEPT ![Main] = step[Main]]
    /\ UNCHANGED <<clock, flow, evalIdx, asks, tasks, queue, data, started>>

(* The early return of the environment switch: only the cache is reset. *)
SkipLoad ==
    /\ MayLoad(Main)
    /\ SkipsLoad(Main)
    /\ pc' = [pc EXCEPT ![Main] = AfterLoad(Main)]
    /\ cache' = {}
    /\ lastLoaded' = [lastLoaded EXCEPT ![Main] = step[Main]]
    /\ UNCHANGED <<clock, flow, evalIdx, asks, tasks, queue, data, started,
                   weights>>

(* A rank that is not the main one waits and records, but sends nothing. *)
FollowLoad(r) ==
    /\ r # Main
    /\ MayLoad(r)
    /\ pc' = [pc EXCEPT ![r] = AfterLoad(r)]
    /\ lastLoaded' = [lastLoaded EXCEPT ![r] = step[r]]
    /\ UNCHANGED <<clock, flow, evalIdx, asks, tasks, queue, data, server>>

-----------------------------------------------------------------------------
(* _prefetch: inference in the main thread, result put on the queue. *)
PrefetchInfer(r) ==
    /\ pc[r] = "prefetchInfer"
    /\ cache' = IF r = Main THEN cache \union {weights} ELSE cache
    /\ queue' = [queue EXCEPT ![r][Mode(r)] =
                    Append(@, Answer(r, NewTask(r), SampledFrom(weights)))]
    /\ asks' = [asks EXCEPT ![r][Mode(r)] = @ + 1]
    /\ pc' = [pc EXCEPT ![r] = IF inEval[r] THEN "evalNext"
                               ELSE AfterStep(step[r], evalsLeft[r])]
    /\ UNCHANGED <<clock, lastLoaded, flow, evalIdx, tasks, data, started,
                   weights>>

(* The executor: the main rank's call is on the wire from StartInfer to    *)
(* FinishInfer; done() puts the result on the queue captured at submit.    *)
StartInfer ==
    /\ tasks[Main] # << >>
    /\ started = Idle
    /\ started' = weights
    /\ cache' = cache \union {weights}
    /\ UNCHANGED <<pc, clock, lastLoaded, flow, evalIdx, asks, tasks, queue, data,
                   weights>>

PutResult(r, v) ==
    LET t == Head(tasks[r])
    IN  /\ queue' = [queue EXCEPT ![r][t.mode] = Append(@, Answer(r, t, v))]
        /\ tasks' = [tasks EXCEPT ![r] = Tail(@)]

(* Faulty variant: the answer of a call is dropped. *)
FinishInferDropped ==
    /\ started # Idle
    /\ tasks' = [tasks EXCEPT ![Main] = Tail(@)]
    /\ started' = Idle
    /\ UNCHANGED <<pc, clock, lastLoaded, flow, evalIdx, asks, queue, data,
                   weights, cache>>

FinishInfer ==
    /\ started # Idle
    /\ PutResult(Main, SampledFrom(started))
    /\ started' = Idle
    /\ UNCHANGED <<pc, clock, lastLoaded, flow, evalIdx, asks, data, weights,
                   cache>>

(* An exception is logged by done() and nothing is put on the queue. *)
FailInfer ==
    /\ InferMayFail
    /\ started # Idle
    /\ tasks' = [tasks EXCEPT ![Main] = Tail(@)]
    /\ started' = Idle
    /\ UNCHANGED <<pc, clock, lastLoaded, flow, evalIdx, asks, queue, data,
                   weights, cache>>

FollowInfer(r) ==
    /\ r # Main
    /\ tasks[r] # << >>
    /\ PutResult(r, Mixed)
    /\ UNCHANGED <<pc, clock, lastLoaded, flow, evalIdx, asks, data, server>>

-----------------------------------------------------------------------------
(* Faulty variant: no wait for the evaluation's rollout. *)
StartMicroStepNoWait(r) ==
    /\ pc[r] = "stepWait"
    /\ pc' = [pc EXCEPT ![r] =
                IF micro[r] % GenEvery # 0 /\ buffer[r] # Nothing
                THEN "backward"
                ELSE IF MustLoad(r) THEN "genLoad" ELSE "genGather"]
    /\ UNCHANGED <<clock, lastLoaded, flow, evalIdx, asks, tasks, queue, data,
                   server>>

(* training_step waits for the evaluation's last rollout, then             *)
(* _prepare_inputs generates on every GenEvery-th micro step.              *)
StartMicroStep(r) ==
    /\ pc[r] = "stepWait"
    /\ evalFlag[r] => queue[r]["eval"] # << >>
    /\ pc' = [pc EXCEPT ![r] =
                IF micro[r] % GenEvery # 0 /\ buffer[r] # Nothing
                THEN "backward"
                ELSE IF MustLoad(r) THEN "genLoad" ELSE "genGather"]
    /\ UNCHANGED <<clock, lastLoaded, flow, evalIdx, asks, tasks, queue, data,
                   server>>

(* Faulty variant: the newest result is taken and the older one dropped. *)
GetNewest(r) ==
    /\ pc[r] = "genGet"
    /\ Queue(r) # << >>
    /\ got' = [got EXCEPT ![r] = Queue(r)[Len(Queue(r))]]
    /\ queue' = [queue EXCEPT ![r][Mode(r)] = << >>]
    /\ pc' = [pc EXCEPT ![r] = "resGather"]
    /\ UNCHANGED <<clock, lastLoaded, flow, evalIdx, asks, tasks, buffer,
                   scored, server>>

(* data_cache = self._queue.get() *)
GetResult(r) ==
    /\ pc[r] = "genGet"
    /\ Queue(r) # << >>
    /\ got' = [got EXCEPT ![r] = Head(Queue(r))]
    /\ queue' = [queue EXCEPT ![r][Mode(r)] = Tail(@)]
    /\ pc' = [pc EXCEPT ![r] = "resGather"]
    /\ UNCHANGED <<clock, lastLoaded, flow, evalIdx, asks, tasks, buffer,
                   scored, server>>

(* The backward pass ends in a collective of all ranks. On the last micro  *)
(* step of an accumulation the optimizer steps and on_step_end decides     *)
(* whether to evaluate.                                                    *)
EndsStep(r) == (micro[r] + 1) % GradAccum = 0

Backward ==
    /\ \A r \in Ranks : pc[r] = "backward"
    /\ micro' = [r \in Ranks |-> micro[r] + 1]
    /\ step' = [r \in Ranks |-> IF EndsStep(r) THEN step[r] + 1 ELSE step[r]]
    /\ evalsLeft' = [r \in Ranks |-> IF EndsStep(r) THEN EvalsAfter[step'[r]]
                                     ELSE 0]
    /\ shouldEval' = [r \in Ranks |-> evalsLeft'[r] > 0]
    /\ pc' = [r \in Ranks |-> AfterStep(step'[r], evalsLeft'[r])]
    /\ UNCHANGED <<lastLoaded, inEval, evalFlag, evalIdx, asks, tasks, queue,
                   data, server>>

(* evaluation_loop up to super(): wait for the training rollout, prefetch  *)
(* when the queue is empty.                                                *)
BeginEval(r) ==
    /\ pc[r] = "evalWait"
    /\ queue[r]["train"] # << >>
    /\ inEval' = [inEval EXCEPT ![r] = TRUE]
    /\ evalIdx' = [evalIdx EXCEPT ![r] = 0]
    /\ pc' = [pc EXCEPT ![r] = IF Queue(r) = << >> THEN "prefetchGather"
                               ELSE "evalNext"]
    /\ UNCHANGED <<clock, lastLoaded, shouldEval, evalFlag, evalsLeft, asks,
                   tasks, queue, data, server>>

EvalBatch(r) ==
    /\ pc[r] = "evalNext"
    /\ evalIdx[r] < EvalBatches
    /\ pc' = [pc EXCEPT ![r] = IF MustLoad(r) THEN "genLoad" ELSE "genGather"]
    /\ UNCHANGED <<clock, lastLoaded, flow, evalIdx, asks, tasks, queue, data,
                   server>>

(* evaluation_loop returns; on_evaluate clears should_evaluate, and a      *)
(* second evaluation (epoch end) sets it again.                            *)
EndEval(r) ==
    /\ pc[r] = "evalNext"
    /\ evalIdx[r] = EvalBatches
    /\ evalFlag' = [evalFlag EXCEPT ![r] = TRUE]
    /\ inEval' = [inEval EXCEPT ![r] = FALSE]
    /\ evalsLeft' = [evalsLeft EXCEPT ![r] = @ - 1]
    /\ shouldEval' = [shouldEval EXCEPT ![r] = evalsLeft[r] > 1]
    /\ pc' = [pc EXCEPT ![r] = AfterStep(step[r], evalsLeft[r] - 1)]
    /\ UNCHANGED <<clock, lastLoaded, evalIdx, asks, tasks, queue, data,
                   server>>

(* Training is over and the executor has drained: the processes exit. *)
Exit ==
    /\ \A r \in Ranks : pc[r] = "done" /\ tasks[r] = << >>
    /\ UNCHANGED vars

-----------------------------------------------------------------------------
RankStep(r) ==
    \/ FollowLoad(r) \/ PrefetchInfer(r) \/ StartMicroStep(r) \/ GetResult(r)
    \/ BeginEval(r) \/ EvalBatch(r) \/ EndEval(r)

MainLoad == BeginLoad \/ EndLoad \/ SkipLoad

Executor == StartInfer \/ FinishInfer \/ FailInfer
            \/ \E r \in Ranks : FollowInfer(r)

Next == \/ GatherObject \/ Backward \/ MainLoad \/ Executor \/ Exit
        \/ \E r \in Ranks : RankStep(r)

Spec == Init /\ [][Next]_vars

(* Threads that can run are scheduled, and the server answers a call that  *)
(* does not fail.                                                          *)
Fairness ==
    /\ WF_vars(GatherObject) /\ WF_vars(Backward) /\ WF_vars(MainLoad)
    /\ WF_vars(StartInfer) /\ WF_vars(FinishInfer \/ FailInfer)
    /\ \A r \in Ranks : WF_vars(RankStep(r)) /\ WF_vars(FollowInfer(r))

FairSpec == Spec /\ Fairness

-----------------------------------------------------------------------------
(* Type invariant: the trainer's state has the shape of its fields.        *)
TypeOK ==
    /\ pc \in [Ranks -> GatherPoints \union
                 {"prefetchLoad", "prefetchLoading", "prefetchInfer",
                  "genLoad", "genLoading", "genGet", "stepWait", "backward",
                  "evalWait", "evalNext", "done"}]
    /\ step \in [Ranks -> Version] /\ micro \in [Ranks -> Nat]
    /\ lastLoaded \in [Ranks -> Int]
    /\ shouldEval \in [Ranks -> BOOLEAN] /\ inEval \in [Ranks -> BOOLEAN]
    /\ evalFlag \in [Ranks -> BOOLEAN]
    /\ evalsLeft \in [Ranks -> Nat] /\ evalIdx \in [Ranks -> Nat]
    /\ asks \in [Ranks -> [Modes -> Nat]]
    /\ tasks \in [Ranks -> Seq(Task)]
    /\ queue \in [Ranks -> [Modes -> Seq(Result)]]
    /\ got \in [Ranks -> Result \union {Nothing}]
    /\ buffer \in [Ranks -> Result \union {Nothing}]
    /\ scored \in [Ranks -> Result \union {Nothing}]
    /\ started \in Int /\ weights \in Int /\ cache \subseteq Int

(* Where the training loop and an evaluation can be with respect to the    *)
(* step counter and to the evaluations the flow control still owes; a call *)
(* on the wire is the head of the executor's tasks.                        *)
InGeneration == {"genLoad", "genLoading", "genGather", "genGet", "resGather"}

FlowOK ==
    /\ started # Idle => tasks[Main] # << >>
    /\ \A r \in Ranks :
        /\ inEval[r] \/ pc[r] = "evalWait" => evalsLeft[r] > 0
        /\ pc[r] = "evalNext" => inEval[r]
        /\ pc[r] \in {"stepWait", "backward", "evalWait", "done"} => ~inEval[r]
        /\ ~inEval[r] /\ pc[r] \in InGeneration \union {"stepWait", "backward"}
              => step[r] < MaxStep

(* At most one evaluation follows a step.                                  *)
OneEvaluation == \A s \in Version : EvalsAfter[s] \in {0, 1}

(* How many batches the main rank's rollout may owe it, place by place:    *)
(* the executor holds batches of one mode only, and with the queue of that *)
(* mode at most one outside a generation, two between submit and get.      *)
Owes(m, n) ==
    /\ \A i \in 1..Len(tasks[Main]) : tasks[Main][i].mode = m
    /\ Len(tasks[Main]) + Len(queue[Main][m]) <= n
    /\ \A o \in Modes : o # m => Len(queue[Main][o]) <= 1

OneAhead ==
    /\ evalsLeft[Main] <= 1
    /\ pc[Main] \in {"prefetchGather", "prefetchLoad", "prefetchLoading",
                     "prefetchInfer"} =>
          /\ tasks[Main] = << >>
          /\ queue[Main]["eval"] = << >>
          /\ Len(queue[Main]["train"]) <= 1
          /\ inEval[Main] \/ queue[Main]["train"] = << >>
          /\ inEval[Main] <=> shouldEval[Main]
    /\ pc[Main] \in InGeneration \union {"evalNext", "backward"} =>
          /\ Owes(Mode(Main), IF pc[Main] = "genGet" THEN 2 ELSE 1)
          /\ shouldEval[Main] => inEval[Main]
    /\ pc[Main] = "genLoading" => tasks[Main] = << >>
    /\ pc[Main] = "evalWait" => Owes("train", 1)
    /\ pc[Main] = "stepWait" =>
          /\ ~shouldEval[Main]
          /\ Owes("train", 1) \/ (evalFlag[Main] /\ Owes("eval", 1))

(* While the main rank pushes weights to the server (_move_model_to_vllm)  *)
(* no rollout is on the wire or waiting in its executor: _wait_queue and   *)
(* the two waits around an evaluation are enough to make sure of it.       *)
NoLoadInFlight ==
    pc[Main] \in {"genLoading", "prefetchLoading"} =>
        started = Idle /\ tasks[Main] = << >>

(* Completions come from one version of the weights, the one the trainer   *)
(* believed loaded when it asked (_last_loaded_step): never from a mixture *)
(* of two versions, never over prefix-cache blocks of older weights.       *)
SampledAsAsked ==
    /\ \A m \in Modes : \A i \in 1..Len(queue[Main][m]) :
          queue[Main][m][i].ver = queue[Main][m][i].asked
    /\ \A r \in Ranks : buffer[r].ver = buffer[r].asked
                        /\ scored[r].ver = scored[r].asked

(* This generation began under the optimizer step of the one before it, so *)
(* that no push, and no _wait_queue of a push, lies between the two.       *)
SameStep(r) ==
    LET g == micro[r] \div GenEvery
    IN  g > 0 /\ (g * GenEvery) \div GradAccum
                 = ((g - 1) * GenEvery) \div GradAccum

(* A training batch is used exactly one generation after it was asked for: *)
(* what _buffered_inputs holds is the last but one batch submitted. Where  *)
(* a rollout raised, the one just asked for can take its place, but only   *)
(* before the next optimizer step: the push after it waits for the result  *)
(* that is missing, and the two are never shifted over a step.             *)
TrainsOnPrevious ==
    \A r \in Ranks : pc[r] = "backward" =>
        \/ buffer[r].seq = asks[r]["train"] - 2
        \/ InferMayFail /\ SameStep(r) /\ buffer[r].seq = asks[r]["train"] - 1

(* All ranks take part in the same gather_object, and when results are     *)
(* gathered they all hold the answer to the same batch: the main rank's    *)
(* list is never cut up against another batch's inputs.                    *)
CollectivesAligned ==
    (\A r \in Ranks : pc[r] \in GatherPoints) =>
        \A r, s \in Ranks :
            /\ pc[r] = pc[s]
            /\ pc[r] = "resGather" => got[r].seq = got[s].seq

(* With GEOBENCH_SKIP_VLLM_SYNC_AFTER_STEP0 every completion, of training  *)
(* and of evaluation, comes from the weights the server started with.      *)
FrozenPolicy ==
    \A r \in Ranks :
        /\ buffer[r] # Nothing => buffer[r].ver = 0
        /\ scored[r] # Nothing => scored[r].ver = 0

(* Training reaches max_steps with every evaluation run, and every process *)
(* exits, when no rollout fails.                                           *)
Finishes == <>(\A r \in Ranks : pc[r] = "done" /\ tasks[r] = << >>)

-----------------------------------------------------------------------------
(* The rollout of the main rank as a RolloutPipeline. A load takes effect  *)
(* there when it begins, for nothing is asked before it ends; a line is    *)
(* what the queue holds followed by what the executor still owes it (it    *)
(* holds batches of one mode only: OneAhead).                              *)
OwedTo(m) == IF tasks[Main] # << >> /\ Head(tasks[Main]).mode = m
             THEN tasks[Main] ELSE << >>

Versions(m) ==
    [i \in 1..(Len(queue[Main][m]) + Len(OwedTo(m))) |->
        IF i <= Len(queue[Main][m]) THEN queue[Main][m][i].ver
        ELSE OwedTo(m)[i - Len(queue[Main][m])].asked]

Pipeline == INSTANCE RolloutPipeline WITH
    Lines <- Modes,
    policy <- IF weights = Mixed THEN step[Main] ELSE weights,
    line <- [m \in Modes |-> Versions(m)],
    answered <- [m \in Modes |-> Len(queue[Main][m])]

(* Executor, queues and waits together implement the pipeline: in-order    *)
(* answers, one version per batch, no update over an unanswered batch, and *)
(* every batch asked for is answered (_fast_infer, async_generate_rollout).*)
ImplementsPipeline == Pipeline!PipelineSpec
=============================================================================

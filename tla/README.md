# A verification project for Geobench

Geobench trains and evaluates multi-modal models, among them models that name
the place where a photograph was taken. It is a fork of ms-swift: most of its
1306 files are model registrations, prompt templates, dataset descriptions,
launch scripts and documentation. What can go wrong in ways a test would hardly
reach sits in few places: where a reinforcement-learning trainer overlaps
sampling with training, where several processes or threads share a queue, a
pipe or a file, and where what a dialogue consists of is collected piece by
piece. This directory has TLA+ models of those places, the configurations that
check them with TLC, and proofs checked by TLAPS.

    tlc -workers 2 -config AsyncRollout.cfg MCAsyncRollout.tla
    tlapm AsyncRolloutProofs.tla

`PROJECT.json` lists components, runs, mutants, the source lines behind each
definition, the hazards and the theorems. All source paths below are relative
to `src/swift/` unless they begin with `src/`.

## 1. Inventory

### Parts that keep state between steps of several actors

| Part | State | Operations | Speaks with |
|---|---|---|---|
| Asynchronous rollout (`rlhf_trainers/rollout_mixin.py`, `grpo_trainer.py`) | per rank: `train_queue`, `eval_queue`, `_buffered_inputs`, `_step`, `_last_loaded_step`, `eval_flag`, a one-thread executor | `_prefetch`, `_generate_completions`, `_fast_infer`, `async_generate_rollout`, `_wait_queue`, `_move_model_to_vllm`, `evaluation_loop`, `training_step` | other ranks by collectives; the rollout server by HTTP |
| Rollout server and its client (`pipelines/infer/rollout.py`, `rlhf_trainers/vllm_client.py`) | per engine process: pipe, communicator, weights, prefix cache; per server: a handler that may wait; the client's threads | `init_communicator`, `update_flattened_params`, `reset_prefix_cache`, `infer`, `close_communicator`, `llm_worker` | trainer by HTTP and NCCL, engines by pipes |
| Multi-turn rollout (`rollout/multi_turn.py`, `_colocate_multi_turn_infer`) | messages, token ids, loss mask and log-probabilities of each dialogue; `index_to_infer` of each rank | `run`, `step`, `check_finished`, the colocated loop, `_colocate_rollout`, `replace_assistant_response_with_ids` | an inference engine, the trainer |
| Batching of the transformers engine (`infer_engine/transformers_engine.py`, `infer_engine.py`) | `_queue`, `_task_pool`, the worker thread, `_adapters_pool`, a queue per caller | `infer_async`, `_fetch_infer_requests`, `_infer_worker`, `_infer`, `_add_error_list` | coroutines that call it |
| Batching of the evaluation model (`pipelines/eval/utils.py`) | `batch_queue`, `batch_thread`, futures | `generate`, `_process_batches` | EvalScope's threads |
| Geocoding of the geoscore reward (`rewards/orm.py`) | `self.cache`, the JSON file, its lock | `_call_opencage_geocoding`, `_get_cached_geocoding`, `_write_cache_once` | the web service; all ranks through the file |
| Packing (`dataset/packing.py`, `indexed_dataset.py`) | worker processes, two queues shared by all rounds, packs carried from round to round, `packed_idx` | `__iter__`, `_processor`, `_put_data_in_queue`, `_fetch_data_out_queue`, `create_packed_idx`, `calculate_matched_group` | data set, data loader |
| Data loaders (`dataloader/dispatcher.py`, `shard.py`, `trainers/mixin.py`) | per rank: place in the epoch, `skip_batches`, the sampler's seed | `_skip_batches`, `_scatter_object_list`, `BatchSamplerShard.__iter__`, `set_epoch`, `get_train_dataloader` | packing, the training loop |
| Flash checkpoints (`trainers/mixin.py`, `trainers/utils.py`, `pipelines/train/sft.py`, `callbacks/deepspeed_elastic.py`) | checkpoint directories in one directory for each start, `dlrover_latest.txt`, what is being persisted | `_save_flash_checkpoint`, `_rotate_flash_checkpoints`, `wait_latest_checkpoint`, `get_resume_checkpoint`, graceful exit | a persisting agent, the restarted job |
| Generation buffer and dynamic sampling (`rlhf_trainers/grpo_trainer.py`, `rollout_mixin.py`) | `_buffered_inputs`, `_step`, the resampling iterator, samples and reward rows of each rank | `_prepare_inputs`, `resample_encode_failed_inputs`, `_dynamic_sampling`, `_compute_advantages`, `split_by_mini_batches` | rollout, rewards |

What makes each correct, and what is hard about it:

- **Asynchronous rollout.** A batch of completions comes from one policy, the
  one the trainer believes is loaded, and is trained on exactly one generation
  later. Sampling, weight pushes and training overlap; two queues are chosen
  by a flag that changes; ranks decide alone whether to enter a collective.
- **Rollout server.** What `infer` returns was computed everywhere with the
  last push of weights, in the order of the requests. Updates are not
  acknowledged; the trainer may be killed in the middle of one.
- **Multi-turn rollout.** Each assistant message is trained on with the tokens
  the model sampled for it. Three lists are kept in step over continuations and
  new messages, in two copies of the loop; ranks finish in different turns.
- **Transformers engine, evaluation model.** Each caller gets its own answer,
  once, or an error. One thread serves all, and an exception may end it.
- **Geocoding.** All ranks score the same place alike; what one rank found out
  is not lost; a usage limit does not turn into a wrong reward. Processes race
  on a file that is replaced as a whole, are killed, and retry.
- **Packing and data loaders.** Every sample of a pass is in one pack, every
  rank sees the same packs, and a job that is killed and resumed trains what it
  would have trained otherwise. Worker processes answer in any order, over
  queues that all rounds share and that number their items from 0.
- **Flash checkpoints.** The checkpoint a restarted job is sent to is on disk,
  whole, and the newest there is. Persisting lags behind training, a save finds
  the agent busy, rotation deletes meanwhile, and the job is killed anywhere.
- **Generation buffer.** Each sample is trained on with the advantage of its
  own reward in its own group. Samples and reward rows are filtered, cut,
  restored and sliced apart from one another; groups straddle ranks.

How they interact: the trainer's main thread (AsyncRollout) calls the client
(RolloutServer) for pushes and rollouts; on the server a rollout may be a
dialogue (MultiTurn); the answers are scored by reward functions, one of which
geocodes (GeoScoreCache), and become chunks of a buffer that training steps take
(DynamicSampling). A supervised training job draws packs from the packing data
sets through a data loader and skips what it has trained when it is resumed
(TrainData) from a checkpoint that FlashCheckpoint says is there. The two batching components serve `swift infer`,
`swift deploy` and `swift eval`, apart from the trainer.

### Parts that are not modelled, and why

`PROJECT.json` lists them one by one. Templates, agent templates, dataset
preprocessing, arguments: sequential conversions of strings and tables.
Models, tuners, optimizers, losses, metrics, sequence parallelism, Megatron:
numeric code whose state is tensors. Engines for vLLM, SGLang and LMDeploy:
adapters to schedulers that are third-party. Other RLHF trainers: losses on top
of `trl` with no protocol of their own. Web interface, launch tools, hub
access: processes started and files fetched. Data-cleaning and benchmark
scripts: each is run by one process.

## 2. Modules

| Module | Lines of code it stands for | Role |
|---|---|---|
| `RolloutPipeline` | none: abstract | what asynchronous rollout promises: two lines of batches, answered and taken in order, one policy each, no update over an unanswered batch |
| `AsyncRollout` | `rollout_mixin.py`, `grpo_trainer.py`, `trainers/patcher.py` | ranks, executors, queues, pushes, evaluations |
| `AsyncRolloutProofs` | | theorems about it, and the refinement |
| `RolloutServer` | `rollout.py`, `vllm_client.py`, `utils.py` | client threads, handlers, pipes, engines |
| `SequenceFacts`, `RolloutServerProofs` | | lemmas about sequences; theorems about it |
| `Sublists` | `utils.py` | `[x for x in s if x in S]`, written as a recursive function |
| `MultiTurn` | `multi_turn.py`, `rollout_mixin.py`, `utils.py` | both turn loops, and what is trained on |
| `MultiTurnProofs` | | theorems about it |
| `InferBatching` | `transformers_engine.py`, `infer_engine.py` | queue, pool, worker, streams, adapters |
| `EvalBatch` | `pipelines/eval/utils.py` | callers, background threads, futures |
| `EvalBatchProofs` | | theorems about it |
| `GeoScoreCache` | `rewards/orm.py` | processes, memory, file, lock, service |
| `GeoScoreCacheProofs` | | theorems about it |
| `BinPacking` | `packing.py` | samples, packs, `calculate_matched_group` and what calling it round after round gives; the bin-packing library is a parameter |
| `StreamPacking` | `packing.py` | `IterablePackingDataset`: worker processes, queues, rounds, passes |
| `IndexPacking` | `packing.py` | `PackingDataset`: packing processes, chunks, the master |
| `TrainData` | `dispatcher.py`, `shard.py`, `mixin.py`, `sft.py` | the two above composed with the loaders of all ranks, epochs, checkpoints and kills |
| `TrainDataProofs` | | theorems about `StreamPacking`, `IndexPacking` and `TrainData` |
| `FlashCheckpoint` | `mixin.py`, `utils.py`, `sft.py`, `deepspeed_elastic.py` | the job, the agent, the disk, restarts |
| `FlashCheckpointProofs` | | theorems about it |
| `DynamicSampling` | `grpo_trainer.py`, `rollout_mixin.py` | fetch, replacement, scoring, resampling, advantages, buffer |
| `MC...` | | values of the constants for TLC |

### How state and actions correspond to the code

**AsyncRollout.** Each rank has a program counter (`pc`) that names the point
its main thread has reached; steps between two points touch nothing that other
ranks or the executor see. `tasks` is the executor's work queue, `queue` has the
two Python queues. Weights are named by the `global_step` they were pushed at;
a push takes two steps (`BeginLoad`, and `EndLoad`, where the prefix cache is
reset), so that a rollout running meanwhile would be seen to mix
versions (`Mixed`). A rollout starts (`StartInfer`) and ends (`FinishInfer`),
and its result notes the version it was sampled from and the version the
trainer thought was loaded. Collectives are single steps of all ranks that
require every rank to be at a gather (`GatherObject`, `Backward`).

**RolloutServer.** HTTP calls are threads of the client (`th`), one per server;
a handler occupies its server until it has read every pipe it needs (`busy`).
An engine executes the head of its pipe: an update is received in a broadcast
that client and engines enter together, then loaded in a later step, while the
client has gone on. `weights` holds a version for each bucket of parameters,
`cache` the versions that have blocks in the prefix cache. An answer carries
every version that had a part in it.

**MultiTurn.** A token records its dialogue, its turn and its place; a
scheduler's token is marked. `conv` has for each dialogue the messages and the
three lists. The server's loop is one action per turn and dialogue (`Serve`),
for its coroutines share nothing; the colocated loop has the collective
(`Gather`), a rank's pass over its outputs (`Turn`) and the rollout of the
group (`Rollout`). `Turned` is shared by both, and differs in the one branch
where the code does (`Skips`). Schedulers are of four kinds: *tips*
(`MathTipsScheduler`, in full), *tools* (the tool-calling one of
`src/examples/train/grpo/plugin/plugin.py`), *plain* (the one of
`deepeyes_plugin.py`), and *chat*, which adds a user message and returns its
token ids as the documentation advises.

**InferBatching.** Coroutines, the thread-safe queue, the pool with one entry
for each config, the worker and a queue for each caller. A batch may contain
rows that cannot be encoded; streams send `None` both for *nothing yet* and for
*the end*, as in the code.

**EvalBatch.** `generate` step by step, with the test of `batch_thread` and the
assignment to it apart, and any number of background threads that race may
create.

**GeoScoreCache.** An address is a list of parts, each a list of names; the
cache key is their concatenation, so that `A; B` and `A, B` share an entry as
they do in the code. The recursion over shortened addresses is a stack.
Exceptions inside and outside a handler are told apart (`handling`), because the
code calls `_write_cache_once` in its handlers.

**StreamPacking.** `gpc` says where `__iter__` is: it puts the items of a round
(`PutOne`, `PutOver`), fetches as many answers as it put (`FetchOne`) and packs
them (`Pack`). A worker takes an item, encodes it and answers (`Take`,
`Encode`), or dies of it when `strict` is set (`Die`). The answers of several
processes are a set: their feeder threads put them in any order. Answer 0 is the
empty one of a sample that cannot be encoded. `PassAgain` is the next call of
`iter`, with the same queues and workers.

**IndexPacking.** Each process's messages keep their order (`outQ[k]`), those of
different processes arrive in any. `Offset` is the arithmetic of `split_list`.

**TrainData.** A step of the job is a step of one of the data sets or of the
loader. `trained` records for each step the epoch, the seed its order was drawn
from, and every rank's pack. `OpenEpoch` has what `set_epoch` and
`skip_first_batches` do to seed and position: a loader that skips is a new one,
with a sampler that has the seed of epoch 0. `Kill` undoes the steps after the
last checkpoint.

**FlashCheckpoint.** A checkpoint is a version (one for each start) and a step.
`_save_flash_checkpoint` is `SaveFiles` (all files but the weights), `Store` or
`Skip` (the agent's answer), and the rotation: `ReadTracer`, `List` and
one `Delete` for each directory, between which the agent may `Persist`. `Rank`
is the order of `_sorted_checkpoints`, which moves the best checkpoint next to
the last; which directory is last depends on times of modification (`Latest`).

**DynamicSampling.** A sample is named by the fetch, its place and its prompt.
Rewards are not numbers: a row is the sample it is the reward of, and whether a
group's rewards differ is chosen when it is scored (`useful`). `Encode` is the
first round of `resample_encode_failed_inputs`, which keeps the inputs that
encode, and `Refill` a further one, in which each rank draws from its resample
iterator; how many of those encode is open. A rank that is still short after
`MaxRounds` of them raises `RuntimeError`, and the job ends (`"failed"`). `valid` and
`validRows`, `inputs` and `rows` are the pairs of lists that the code keeps apart.

## 3. Runs

Every constant that bounds a run is in its `.cfg`; bounds inside modules are
`Again` (EvalBatch), `MaxVersion` and `MaxClient` (RolloutServer), `MaxParts`
(InferBatching), `MaxTurns` (MultiTurn, where it is also `max_turns`),
`MaxKills` (TrainData), `MaxStarts` (FlashCheckpoint), `MaxSteps`
(DynamicSampling).

| Run | Distinct states | Bounds, and why they are enough |
|---|---|---|
| `async_rollout` | 3,490 | three ranks (a main one and two that follow, so that followers may disagree); six steps, generations of three micro steps against optimizer steps of two, so that both kinds of boundary fall apart; evaluations after steps 2, 3 and 6: two in a row, one last |
| `async_fail` | 7,472 | the same ranks and evaluations, with `GEOBENCH_SKIP_VLLM_SYNC_AFTER_STEP0` and rollouts that raise; generations of two micro steps against optimizer steps of three, so that a generation begins now under the optimizer step of the one before it, now under a new one |
| `rollout_server` | 264,189 | two servers of two engines, two pushes of two buckets, calls of one request (all but one chunk empty) and of five (uneven chunks), one restart |
| `multi_turn` | 397,660 | three turns, three dialogues, a rank with two and one with one; answers with no text, with text, cut off |
| `infer_batching` | 697,401 | three callers, two configs, batches of one and of two: one entry can be split while another waits |
| `eval_batch` | 153,659 | three threads, one calling twice, batches of two: a batch can be full, partial or shared by two background threads |
| `train_data` | 6,896 | six samples of one to three tokens in packs of three, one that breaks its encoding and one that is too long; rounds of two, so that packs are carried over, and a last round that is empty; two workers, two packing processes with chunks that are not a multiple of a round, two ranks, two epochs, up to two kills |
| `flash_checkpoint` | 1,115,719 | four steps, each saved: one persisted, one skipped, one rotated away and one in the agent's hands at once; limits of one and two, with and without a best checkpoint; two starts |
| `dynamic_sampling` | 534,369 | two ranks of three samples, groups of two: the second lies on both ranks; chunks of one sample used twice; prompts that do not encode in first or last place, two further rounds to replace their two samples, so that one may find none, one or both; two tries of resampling |
| `geo_cache` | 36,444 | two processes; a place known after shortening, the same with a comma, a number; one retry |

What they show:

- `async_rollout`: weights are never pushed under a rollout
  (`NoLoadInFlight`); a batch is sampled from the weights it was asked with, old
  prefix-cache blocks included (`SampledAsAsked`); it is trained on one
  generation later (`TrainsOnPrevious`); the ranks meet in the
  same collective about the same batch (`CollectivesAligned`); training ends,
  so every batch that is waited for, after an evaluation too, was asked for
  (`Finishes`); and the main rank's rollout implements `RolloutPipeline`
  (`ImplementsPipeline`).
- `async_fail`: with the skip switch all completions come from the first
  weights (`FrozenPolicy`). A rollout that raised puts nothing on the queue.
  If the next generation begins under the same optimizer step
  (`steps_per_generation` below `gradient_accumulation_steps`) there is no push
  and no `_wait_queue` in between, and `self._queue.get()`
  (`rollout_mixin.py:1069`) then takes the result that was only just asked for
  in place of the missing one: it is trained on at once. `TrainsOnPrevious`
  names this case (`SameStep`) and claims that it is the only one, so that
  batches are not shifted over an optimizer step: the wait before the next push
  never ends (which is why this run does not look for deadlocks).
- `rollout_server`: an answer comes from one push everywhere, the last one
  (`AnswersFromLastPush`), stands at the place of its request and is no reply to
  an earlier call (`AnswersInOrder`), and every call of the client ends
  (`CallsEnd`). Each says under which faults it is claimed.
- `multi_turn`: a dialogue consists of answers to itself (`OwnAnswers`), each
  message is trained on with its own tokens (`TrainedOnOwnWords`), mask and
  log-probabilities are those of the tokens they stand beside
  (`MaskMarksAnswers`), and the ranks leave the loop together (`AllEnd`).
- `infer_batching`: an answer is that to the caller's own request, config and
  adapter (`OwnAnswer`); a request is in one place until it is answered, and
  requests of a config are served in the order they came in (`WholeAndInOrder`);
  a stream that is not batched with others is complete and in order
  (`StreamWhole`); a call ends unless the worker thread did
  (`AnsweredUnlessRaised`).
- `eval_batch`: no call gets another one's result (`OwnResult`); a request that
  is waited for is in the queue or with one background thread, also when the
  race on `batch_thread` has created two (`SomeoneHolds`); a call ends unless a
  thread died (`EveryCallEndsUnlessDead`).
- `geo_cache`: `WriteOnce`, `MemoryAgrees`, `KnownNeverZero`, `EveryCallEnds`.
- `train_data`: rounds and passes leave nothing in the queues for the next
  (`NothingOutstanding`); no sample is lost or packed twice (`EverySampleOnce`);
  the index of packs is the same whatever order the processes run in, no pack is
  too long (`PackedIdxWhole`); a killed and resumed job trains the packs an
  uninterrupted one does, in order and on the same ranks
  (`SameAsUninterrupted`, which leaves out the steps of a loader that was seeded
  for another epoch, see below); training ends unless a strict worker died
  (`TrainingEnds`).
- `flash_checkpoint`: the checkpoint a tracer names stays on disk
  (`TracerOnDisk`, unless `save_total_limit` is one and a best checkpoint is
  tracked); so does the best one (`BestStays`); a restarted job resumes from the
  newest whole checkpoint of the version before (`ResumesLastComplete`); the last
  step is reached (`TrainingFinishes`).
- `dynamic_sampling`: `OwnAdvantage`, `OnlyUsefulGroups` (groups without reward
  variance are not trained on unless the tries ran out, and no group is put
  together from two fetches) and `StepsEnd`: the steps come to their end, or a
  rank has found too few samples that encode in all its rounds and the job ends
  with an error. Resampling alone never keeps it going for ever.

### Where code and words disagree

Two runs are expected to find a counterexample:

- `flash_rotated`: with `save_total_limit` 1 and a best checkpoint, the
  checkpoint that `dlrover_latest.txt` names is deleted while the next one is
  being persisted. `_sorted_checkpoints` puts the best one next to the last, so
  the best one is the last *valid* one, and the test that would keep two
  (`trainers/mixin.py:418`) fails. A job killed then does not start again. The
  comment above that test promises the opposite.
- `sampling_groups`: a sample that cannot be encoded is replaced alone, by one
  of another prompt, and later samples of the rank move up. Rewards are grouped
  by place, so groups mix prompts, against the docstring of
  `_compute_advantages`.

Met while modelling; the models have these behaviours, and the properties say
where they exclude them:

- With `async_generate` an evaluation batch is scored with the completions of
  the batch before it, and the first one twice (`rollout_mixin.py:1067`).
- When converting the second or a later completion of a batch raises, the error
  handler meets a future that is already resolved, and its own exception ends
  the background thread of the evaluation (`pipelines/eval/utils.py:211`).
- The pool of the transformers engine is keyed by the config alone; a request
  for another adapter that joins an entry is computed with the first one's
  (`transformers_engine.py:129`); and in a strict engine, the default, one input
  that cannot be encoded ends the worker thread for good.
- On the rollout server, a scheduler that adds user messages and returns token
  ids loses the ids of the last answer; the remaining ones are assigned from the
  last message back (`multi_turn.py:266`; the colocated loop has the branch that
  is missing here). `TrainedOnOwnWords` leaves out this scheduler on the server.
- A job resumed in a later epoch skips over, and trains on, a permutation drawn
  with the seed of epoch 0: `skip_first_batches` makes a new sampler, which
  never gets `set_epoch` (`trainers/mixin.py:1160`). Samples are then trained
  twice or not at all in that epoch.
- A streamed data set has no length; resumed at or past the end of its first
  pass, a job fails in `_skip_batches` or ends early
  (`dataloader/dispatcher.py:38`).
- Two starts that were killed before their first whole checkpoint, and training
  begins from scratch although an older version has one: only the version just
  before is looked at (`pipelines/train/sft.py:249`). The run has two starts.
- Nothing writes the `ucp.txt` by which universal checkpoints are found.
- The last resampled batch of dynamic sampling is never judged: with
  `max_resample_times` 1 a batch is fetched, generated, scored and dropped
  (`grpo_trainer.py:844`).
- `load_weights` of a fire-and-forget update that raises in one engine is only
  logged there (`rollout.py:314`), and of a failed `reset_prefix_cache` the
  client reads only the HTTP status: the trainer goes on and samples from two
  pushes. `AnswersFromLastPush` is stated for behaviours where neither happened.

## 4. Fairness

- AsyncRollout: weak fairness of each rank's main thread, of each executor and
  of the collectives: Python threads are scheduled by the OS, and a collective
  whose participants all arrived completes. Busy waits end when their queue
  fills, so no stronger fairness is needed.
- RolloutServer: weak fairness of the client's main thread, of its threads and
  of the engine processes. Nothing is assumed of faults.
- MultiTurn: every step is a call that returns (`WF_vars(Next)`); the engine
  answers each request.
- InferBatching: weak fairness of the event loop's callbacks and of the worker
  thread, for every caller. A coroutine is resumed when its queue has an item.
- EvalBatch: weak fairness of callers and of background threads.
- TrainData: weak fairness of the packing processes and of the generator
  (`Prepare`) and of each step of the trainer; none of kills and checkpoints.
- FlashCheckpoint: weak fairness of the job's steps and of the agent, which is
  another process that persists what it was given; and of restarting a job that
  was stopped or failed to start, which the elastic launcher does. None of kills
  and of requests to stop.
- DynamicSampling: the ranks are in lockstep and every stage is a call that
  returns or, when samples that encode run out, raises (`WF_vars(Next)`).
  Nothing is assumed of what the resample iterator brings: that is why
  `StepsEnd` allows the job to end in that error.
- GeoScoreCache: weak fairness of each process, and strong fairness of getting
  the lock (a `flock` is granted in the end, although others take it and give
  it back), of the service answering (limits are lifted some day) and of a write
  succeeding (there are finitely many tries of an address on the call stack).

## 5. Theorems

TLC's runs cover the instances above; these hold for all values of the
constants that satisfy the named assumptions of the modules.

**AsyncRolloutProofs.** `TypeCorrect` proves `TypeOK` for any number of ranks,
steps, evaluations and any generation length, also if rollouts fail. `TypeOK`
alone is not inductive: which `pc` allows `step + 1` or `evalsLeft - 1` depends
on where the thread is, which `FlowOK` says.
`LoadsOnlyWhenIdle` proves `NoLoadInFlight`, provided a step is followed by at
most one evaluation (`OneEvaluation`). The argument: before a push
`_move_model_to_vllm` is preceded by a wait on one of two queues, chosen by a
flag. `OneAhead` says, place by place, how many batches the executor and the
queues may owe and of which mode: one outside a generation, two between
submission and `get`, never of two modes in the executor. So the queue that is
tested is that of the only outstanding batch, and when it is filled the executor
is empty.

`SampledFromBelieved` proves `SampledAsAsked` from the
invariant above, provided a step is followed by at most one evaluation
(`OneEvaluation`) and weights are pushed after every step (`~SkipSync`). The
invariant `SInv` adds two facts. `Believed`: but during a push, the server's
weights are of the version the trainer thinks it has, its prefix cache has
blocks of no other, the call on the wire began with it, and all that the
executor holds was asked for under it. `Answered`: what has left the executor
was sampled as it was asked for. A push makes `Believed` false for what is in
flight, and nothing is (`LoadsOnlyWhenIdle`); at its end the cache is reset
before `_last_loaded_step` moves on. `PolicyStaysFrozen` proves `FrozenPolicy`
when the skip switch is set (`SkipSync`), also if rollouts raise: the only push
is that of step 0, the server starts with the same weights, and the push meets no
call on the wire.

`TrainsOneGenerationBehind` proves `TrainsOnPrevious` and
`GathersMatch` proves `CollectivesAligned`, provided a step is followed by at
most one evaluation and no rollout raises (`~InferMayFail`). Two facts are
invariant together (`AInv`). `RankOK`: of the batches a rank asked for under a
mode, its executor and its queue hold the last ones, in order (`InLine`), one or
between `submit` and `get` two of them (`Due`); so the head of a queue is the
generation asked for before the last, and the buffer holds that one, too.
`Aligned`: let each rank go on by itself to its next collective (`Here`,
`AtGather`); all of them arrive at the same one with the same counters. Ranks may
be anywhere on that way, so their states are never compared directly.
The two need each other, for which way a rank takes depends on its buffer and
queue (`grpo_trainer.py:2031`).
The hypothesis is needed: when rollouts may raise, one rank can lack a batch
that the others have, and if a generation is shorter than an optimizer step
(`steps_per_generation` below `gradient_accumulation_steps`,
`grpo_trainer.py:2087`), ranks then wait in different collectives: TLC finds
this with generations of one micro step (`GenEvery`) and steps of two. Such a job hangs anyway: the rank waits for the batch
for ever, at the latest before the next push. Without failures the second case
of `TrainsOnPrevious` cannot arise, and the theorem says that the batch is always
the one asked for before the last.
`RolloutIsPipeline` proves the safety part of the refinement
(`Pipeline!PipelineSafe`), provided besides that weights are pushed after every
step (`~SkipSync`): a submission maps to `Ask`, the executor's answer to
`Answer`, a prefetch to `AskAnswered`, `get` to `Take` and the beginning of a push
to `Update`; by `NoLoadInFlight` nothing is unanswered then.

**RolloutServerProofs.** `AnswersAreFresh` proves `AnswersFromLastPush` and
`AnswersAreInOrder` proves `AnswersInOrder`, for any numbers of servers, engines,
buckets, pushes, requests and restarts, and any set of faults, without further
hypotheses. The invariant speaks of one engine at a time:

- `OneReply`: a handler that waits has one command behind all others at the
  engine, or one reply, and nothing else; a free server has no reply anywhere.
  That is why the handler must read every pipe also when one engine raised.
- `Handshake`: what an older client left in a pipe stands before the live one's
  `init_communicator`. When client and engine meet in the rendezvous the pipe is
  that one command, so an engine that has joined holds only what this client
  sent (`OnlyOurs`), at most two commands: the push it is loading and the next.
- `OnlyOurs` also says, for each state of the client's thread, what those are
  (`Updating`, `Resetting`, `Inferring`), and that a reply and a server's part
  spell the chunk they were asked for.
- `Fresh`: unless something raised where nobody is told, every bucket pushed so
  far is loaded or about to be, and the cache is empty after a reset, so that
  what is computed then is computed by the latest version.

That the chunks of all engines of a server, put together, spell its chunk, and
those of all servers the call, is a fact about `FlattenSeq`: `FlattenPlaces` in
**SequenceFacts** says where each element of a flattened sequence comes from. It
is proved by induction over a set of numbers (`SetInduction`, from the
well-foundedness of `<`).

**MultiTurnProofs.** `DialoguesAreOwn` proves `OwnAnswers` (and the `TypeOK` in
it) for any number of ranks with any lists of dialogues (`BatchAssumption`: each
entry of a batch is a dialogue of its own), any bound on turns, both loops and
all schedulers. The inductive invariant adds
`Lined`: but between a pass and the next rollout, a rank's outputs are those of
the dialogues it has left, in their order. Hence the answer at a dialogue's place
is its own, and `OneOutputEach` says so of the pass
(`rollout_mixin.py:897` asserts the lengths). After a rollout `Lined` holds again,
because the slice a rank takes begins where the requests of the ranks before it
end (`BeforeEnds`), and such a slice of a flattened sequence is the part it came
from (`SliceOfFlat`). The rest is that a turn adds nothing to a dialogue, its ids
and its log-probabilities but tokens of that dialogue (`TurnedType`).

`MaskIsRight` proves `MaskMarksAnswers` in the same generality. What a turn keeps
of a dialogue is `Kept`: the mask has a 1 for each token of the model and a 0 for
each that a scheduler added (`Marks`), so it has as many ones as there are tokens
of the model, and the log-probabilities are those of the latter (`Model`). Hence
the test that drops incomplete log-probabilities never drops any
(`CheckedKept`). The one exception is a scheduler that returns no ids: the
log-probabilities of its earlier turns stay behind, until the last turn, whose
ids are the first collected, puts its own in their place. `Live` adds that the
dialogues a colocated rank has left are of its own batch and not done; without it
a finished dialogue could be given another turn, or two ranks could take a turn
of one. What a filter keeps of sequences put together are the parts it keeps of
each (`ThoseConcat`), which is why the filter is a function here (`Sublists`) and
not `SelectSeq`.

`TrainingIsRight` proves `TrainedOnOwnWords`. `Fits` relates the ids collected to
the assistant messages of a dialogue, without the dummy that may stand last:
counted from the end, the ids are of the turns of the messages, one by one
(`Matches`). A turn keeps that because a continued message has ids that are
extended with it, and a new one gets ids of its own. This needs that a message
which is continued has ids already, and that schedulers which continue messages
always do; on the server the second is what keeps the last turn from being lost,
since its loop has no branch for an answer that continues nothing. The tips
scheduler, which writes over the last message, does so in the first turn only,
when there is nothing before the answer to lose.

**EvalBatchProofs.** `ResultsAreOwn` proves `OwnResult` and `HeldOnce` proves
`SomeoneHolds`, for any number of threads, any batch size, and any outcome of
the race on `batch_thread`. A request is put once (`Issued`), so it is in the
queue at most once and never both there and with a thread, nor with two
(`OnePlace`); a request that is waited for is in one of these places
(`Waited`), for a thread that delivers lets go of its batch only when all of it
is resolved (`Shape`). `OwnResult` follows from `Own`: position by position, a
batch and its completions belong together.

**GeoScoreCacheProofs.** `MemoriesAgree` proves `MemoryAgrees` and
`FileOnlyGrows` proves `WriteOnce`, for any number of processes, places,
retries and any combination of faults but unreadable files. The inductive
invariant adds to `MemoryAgrees` that only the holder of the lock is between
reading and replacing (`LockHeld`) and that its copy is then still the file's
contents (`SnapFresh`): a replacement then keeps every entry, and what memory
holds is always the file's. Crashes and failed writes keep it because they
give back only the lock the process had.

`KnownPlacesNeverZero` proves `KnownNeverZero`, for any
number of processes, places and retries: usage limits, kills and unreadable
files alone never make a place that the service knows an error. The invariant
(`KInv`) says that all addresses on the stack of calls but the last are unknown
to the service (`StacksUnknown`), so that the result a longer address gets from
a shorter one is never one for a known place; that what is about to be written
is right (`ResultsGood`); and that so are the file and all copies of it
(`FilesGood`). It rests on `AddressAssumption` (an address is a list of at least
one part: `split` returns one) and `KnownAssumption` (no place has an empty
name). `CallsNest` proves `TypeOK`, which says besides the types that a process is
idle just when its stack of calls is empty.

**TrainDataProofs.** `RoundsApart` proves `NothingOutstanding` and
`SamplesOnce` proves `EverySampleOnce`, for any number of samples and worker
processes, any interval, any set of samples that do not encode, and any packing
algorithm that puts each sample into one bin (`BinsAssumption`). The argument
for the first: the index of an item of the round is in exactly one place, the
input queue, a worker, the answers or `got`, and it is one below `sent`; so when
as many answers are fetched as items were put, all places but `got` are empty.
For the second, an answer that was fetched is that of the sample at its index,
so a round packs what it carried over and its own encodable samples.

`ImplementsStream`: the training job, with its epochs,
checkpoints and kills, implements `StreamPacking`; so the two facts above hold of
it (`JobRoundsApart`, `JobSamplesOnce`).

`JobIndexWhole` proves `PackedIdxWhole` and `JobAsUninterrupted` proves
`SameAsUninterrupted`, of the whole job: both kinds of data set, any number of
ranks, epochs, worker and packing processes, checkpoints and kills. Both compare
what the processes did, in whatever order, with a function of the data alone.
That function is `PackRounds(rounds)` of BinPacking: `calculate_matched_group`
called on one round after the other. `PassRounds` are the rounds of a stream when
its samples are encoded in order, `ChunkRounds` those of one packing process.
The inductive invariant `Fine` joins `IInv` with three parts that are of no use
without each other:

- `AsReference`: the generator is some number of rounds into
  `PackRounds(PassRounds)`; what it has yielded and what it carries over are what
  that function gives there. For a round this needs `IInv`: the answers fetched,
  sorted by index, are the round's samples in order.
- `IndexOK`: every packing process is some number of rounds *r* into its chunk
  and the master has put together the packs of the first *c* of them; its queue
  holds exactly the rounds between, in order, and at the end the message that
  closes it. A chunk is therefore right whichever process is ahead, and the
  chunks are put together by their numbers.
- `JobOK`: where the trainer is. What rank 0 has drawn and what waits for it are
  the last packs yielded (`Taken`). For a stream the number of groups of packs
  drawn since the restart, with the steps that are still to be skipped, is the number
  of steps trained within the epoch (`StreamPlace`); for an index, the steps
  trained are the full epochs and the place in this one (`IndexPlace`). A kill cuts
  the steps back to the checkpoint, and everything else starts anew.

Of the bin-packing library they use what `BinsAssumption` says, that it puts each
sample into one bin and fills no bin over its volume, as `to_constant_volume` is
called for, and that it is a function: equal calls have equal results. Nothing is assumed of `Shuffle`. An index of fewer packs than
ranks has no step in an epoch; transformers counts one all the same
(`UpdateSteps`), and the theorem covers this case too.

**FlashCheckpointProofs.** `TracerStays` proves `TracerOnDisk`, `BestIsKept`
proves `BestStays` and `ResumesFromLast` proves `ResumesLastComplete`, for any
number of steps, saves and starts and any limits. The inductive invariant
(`IInv`) says how old the checkpoints of a version may be (`Ages`: whole ones
are not newer than the tracer, what is being persisted is) and what a rotation
may mean to delete (`Rotating`: nothing newer than the tracer it read, neither
the best one nor, unless one is kept and a best one is tracked, the tracer's).
The lemma behind it, `AboveTracer`: in the rotation's order only the best
checkpoint can stand above the one the tracer named.

The hypotheses. `OneEvaluation` excludes only what section 6 names, two
evaluations after one step; `SkipSync` is the switch of the code, and each side of it
has its theorem; `~InferMayFail` is needed as said above, and the theorems that
hold without it do not have it. All are met by a run that checks the property.

Only model-checked are:

- all liveness (`Finishes`, `CallsEnd`, `AllEnd`, `AnsweredUnlessRaised`,
  `EveryCallEnds...`, `TrainingEnds`, `TrainingFinishes`, `StepsEnd`) and the fair
  part of `ImplementsPipeline`, for TLAPS has no proofs under fairness here;
- the safety properties of InferBatching, of which no proof is written yet;
- the safety properties of DynamicSampling: they are about sublists of those
  elements that satisfy a condition (`SelectSeq`), of which the prover has neither
  a definition it can expand nor a theorem.

## 6. Limits of the models

- AsyncRollout: server mode with synchronous engines and `async_generate`; one
  training and one evaluation data loader; rewards and losses are not
  modelled. Two evaluations after one step would put two evaluation results
  on the queue and are excluded by `OneEvaluation`, which is assumed where
  it is needed and met by the runs.
- RolloutServer: the asyncio variant of the worker, adapter pushes and the
  transport of NCCL are outside. A lost peer may be noticed or not: both happen.
- MultiTurn: all ranks share one engine (one tensor-parallel group). Left out:
  gym environments, schedulers that override `run`, multi-modal
  data. *tips* is modelled for a first answer that has text: an empty one is
  taken for the dummy message of a continuation, removed, and the hint is
  written over the user's message (`multi_turn.py:666`). When the text is cut
  at its very beginning one token whose text is gone is still kept; the model
  does so, too (`Tips`).
- InferBatching: the stream path of `infer` (a thread that feeds a queue,
  `infer_engine.py:86`) and its strict mode, which leaves the consumer waiting.
- TrainData: one pack is a batch, without gradient accumulation; a group of
  packs that is short of one for each rank is dropped, as in the code;
  `torch.randperm` and the bin-packing library are parameters, the loop of
  transformers is modelled from how the code extends it. Left out: cyclic
  iteration, `group_by_length`, the on-disk `IndexedDataset`, `LazyLLMDataset`.
- FlashCheckpoint: the agent is DLRover's; that it answers a save with *busy*,
  and writes the tracer after the weights, is how `mixin.py` uses it.
  After a skipped save `best_model_checkpoint` may name a directory
  that was removed; `BestStays` claims nothing of it.
- DynamicSampling: the default, grouped mode. With request-aware grouping
  (`dynamic_num_samples`) the number of samples differs from rank to rank and
  the slices are computed from each rank's own. The rounds that replace samples
  are counted for all ranks at once, though each rank has its own loop: nothing
  is exchanged in it. Ten rounds (`max_resample_rounds`, which no caller
  changes) are two in the run and one in `sampling_groups`. When one rank
  raises, the launcher ends the others, which is the end of the model.
- EvalBatch: the config and engine of a batch are those of its first request;
  all models of one evaluation have the same.
- GeoScoreCache: an unreadable file counts as empty, and the next write then
  replaces all of it: `WriteOnce`, `MemoryAgrees` are stated for files that can
  be read. Waits for usage limits and retries of network errors share
  `retry_count`, so after a few waits a single network error is final: the model
  has it, and `KnownNeverZero` claims nothing of behaviours with network errors.
  A failed write is cached as an error of its own. Without a cache file there is
  no sharing and nothing to check.

## 7. Plan

Modelled first is what decides which policy a completion comes from, then what
a completion consists of, then what serves or scores it, then what training
reads and what it survives. Done: the modules above. Left, in this order:

1. An abstract memo table that `GeoScoreCache` implements (a place gets one
   result, for good), and a composition of `AsyncRollout` with the client's side
   of `RolloutServer`.
2. `IndexedDataset` with a reader that opens while the builder writes and a
   builder killed before its index is complete; `LazyLLMDataset`'s retries.
3. The stream path of `InferBatching` (`async_iter_to_iter`), several
   evaluations after a step in `AsyncRollout`, gym environments in `MultiTurn`.
4. The batch timeouts of the data-cleaning selector
   (`src/data_clean/geo_data_selector.py`).

Theorems left, in this order: `OwnAnswer` and
`WholeAndInOrder` of InferBatching; `OwnAdvantage` of DynamicSampling, which needs
its sublists written with `Those` first, the way `GoOn` of MultiTurn is.

Of the lines of the repository these models stand for a small part, and most
of the rest has nothing a state machine would tell: registrations of models,
templates and data sets, conversions of strings and tables, tensor code, and
adapters to other libraries.

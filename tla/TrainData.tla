------------------------------ MODULE TrainData ------------------------------
(***************************************************************************)
(* The packs of a training job on their way to the ranks, over epochs,     *)
(* checkpoints, kills and resumptions: a streamed data set is packed by    *)
(* StreamPacking and scattered by rank 0 (DataLoaderDispatcher), any other *)
(* is packed once by IndexPacking and sampled by every rank for itself     *)
(* (BatchSamplerShard).  One pack is one batch.  The training loop is the  *)
(* Trainer of transformers, which the code extends.                        *)
(*                                                                         *)
(* dataloader/dispatcher.py, dataloader/shard.py, trainers/mixin.py,       *)
(* pipelines/train/sft.py.                                                 *)
(***************************************************************************)
EXTENDS StreamPacking, IndexPacking

CONSTANTS
    WorldSize,      \* the data-parallel ranks
    Shuffle(_, _),  \* torch.randperm of a seed, from 1 on
    Epochs,         \* max_epochs
    MaxKills        \* bound: how often the job is killed

ASSUME TrainAssumption ==
    WorldSize \in Nat \ {0} /\ Epochs \in Nat \ {0} /\ MaxKills \in Nat

Ranks == 1..WorldSize

VARIABLES
    streaming,  \* args.streaming
    tpc,        \* where the trainer is: "start", "open", "train", "done", "failed"
    epoch,
    skip,       \* batches the next loader has to skip
    seed,       \* curr_seed of the loader's sampler, as the epoch it belongs to
    nth,        \* the batches of this epoch that are behind its sampler
    stepped,    \* the trainer made a step with this loader
    drawn,      \* the packs rank 0 has drawn for the next scatter
    trained,    \* every step the weights stand for: epoch, seed and packs
    saved,      \* the steps of the last checkpoint
    kills

trainVars == <<streaming, tpc, epoch, skip, seed, nth, stepped, drawn, trained,
               saved, kills>>
vars == <<streamVars, indexVars, trainVars>>

Init ==
    /\ StreamInit /\ IndexInit
    /\ streaming \in BOOLEAN
    /\ tpc = "start" /\ epoch = 0 /\ skip = 0 /\ seed = 0 /\ nth = 0
    /\ stepped = FALSE /\ drawn = << >>
    /\ trained = << >> /\ saved = 0 /\ kills = 0

(* len of the sampler: what every rank can be given in an epoch; the       *)
(* trainer counts at least one step in it.                                 *)
Batches == Len(PackedIdx) \div WorldSize
UpdateSteps == Max({Batches, 1})

(* total_idx[rank::world_size]: the i-th batch of each rank. *)
Shard(s, i) ==
    [r \in Ranks |->
        PackedIdx[Shuffle(s, Batches * WorldSize)[i * WorldSize + r]]]

-----------------------------------------------------------------------------
(* Either data set, until it is a source of packs (sft.py:152).            *)

Prepare ==
    /\ tpc # "done"
    /\ \/ streaming /\ tpc = "train" /\ Encoding /\ UNCHANGED indexVars
       \/ ~streaming /\ tpc = "start" /\ Indexing /\ UNCHANGED streamVars
    /\ UNCHANGED trainVars

(* Faulty variant: an epoch that was begun is taken for one that is over.  *)
ResumeAtNextEpoch ==
    /\ tpc = "start"
    /\ streaming \/ IndexReady
    /\ epoch' = IF streaming THEN 0 ELSE Ceil(saved, UpdateSteps)
    /\ skip' = IF streaming THEN saved ELSE 0
    /\ tpc' = IF ~streaming /\ epoch' = Epochs THEN "done" ELSE "open"
    /\ UNCHANGED <<streamVars, indexVars, streaming, seed, nth, stepped, drawn,
                   trained, saved, kills>>

(* _inner_training_loop: where a resumed run goes on.  A streamed data set *)
(* has no length: all its steps are taken for steps of the first epoch.    *)
Resume ==
    /\ tpc = "start"
    /\ streaming \/ IndexReady
    /\ epoch' = IF streaming THEN 0 ELSE saved \div UpdateSteps
    /\ skip' = IF streaming THEN saved ELSE saved % UpdateSteps
    /\ tpc' = IF ~streaming /\ epoch' = Epochs THEN "done" ELSE "open"
    /\ UNCHANGED <<streamVars, indexVars, streaming, seed, nth, stepped, drawn,
                   trained, saved, kills>>

(* Faulty variant: the skipping loader forgets to skip. *)
OpenEpochWithoutSkip ==
    /\ tpc = "open"
    /\ tpc' = "train" /\ stepped' = FALSE
    /\ seed' = epoch
    /\ nth' = 0 /\ skip' = 0
    /\ UNCHANGED <<streamVars, indexVars, streaming, epoch, drawn, trained,
                   saved, kills>>

(* set_epoch seeds the sampler of the trainer's loader; when batches are   *)
(* to be skipped, skip_first_batches then makes another loader, whose      *)
(* sampler has the seed of epoch 0, and skips by a SkipBatchSampler or     *)
(* leaves it to the dispatcher.                                            *)
OpenEpoch ==
    /\ tpc = "open"
    /\ tpc' = "train" /\ stepped' = FALSE
    /\ seed' = IF skip > 0 THEN 0 ELSE epoch
    /\ IF streaming THEN nth' = 0 /\ UNCHANGED skip
       ELSE nth' = skip /\ skip' = 0
    /\ UNCHANGED <<streamVars, indexVars, streaming, epoch, drawn, trained,
                   saved, kills>>

Trained(packs) ==
    /\ trained' = Append(trained, [epoch |-> epoch, seed |-> seed, packs |-> packs])
    /\ nth' = nth + 1 /\ stepped' = TRUE

(* The epoch is over; an epoch without a step stops the training.          *)
EpochOver(any) ==
    /\ epoch' = epoch + 1
    /\ tpc' = IF ~any \/ epoch' = Epochs THEN "done" ELSE "open"

-----------------------------------------------------------------------------
(* DataLoaderDispatcher.                                                   *)

(* Rank 0 draws one pack of the next world_size. *)
Draw ==
    /\ streaming /\ tpc = "train"
    /\ Len(drawn) < WorldSize
    /\ DrawPack
    /\ drawn' = Append(drawn, Head(ready))
    /\ UNCHANGED <<indexVars, streaming, tpc, epoch, skip, seed, nth, stepped,
                   trained, saved, kills>>

(* Faulty variant: one batch is skipped, not one for every rank. *)
SkipGroupOfOne ==
    /\ streaming /\ tpc = "train" /\ skip > 0 /\ drawn # << >>
    /\ skip' = skip - 1 /\ drawn' = Tail(drawn)
    /\ UNCHANGED <<streamVars, indexVars, streaming, tpc, epoch, seed, nth,
                   stepped, trained, saved, kills>>

(* _skip_batches. *)
SkipGroup ==
    /\ streaming /\ tpc = "train" /\ skip > 0 /\ Len(drawn) = WorldSize
    /\ skip' = skip - 1 /\ drawn' = << >>
    /\ UNCHANGED <<streamVars, indexVars, streaming, tpc, epoch, seed, nth,
                   stepped, trained, saved, kills>>

SourceEnded == gpc = "end" /\ ready = << >> /\ Len(drawn) < WorldSize

(* StopIteration inside _skip_batches, which a generator turns into a      *)
(* RuntimeError of rank 0; the other ranks wait in their first scatter.    *)
SkipFails ==
    /\ streaming /\ tpc = "train" /\ skip > 0 /\ SourceEnded
    /\ tpc' = "failed"
    /\ UNCHANGED <<streamVars, indexVars, streaming, epoch, skip, seed, nth,
                   stepped, drawn, trained, saved, kills>>

(* scatter_object_list and the training step every rank makes with it.     *)
Scatter ==
    /\ streaming /\ tpc = "train" /\ skip = 0 /\ Len(drawn) = WorldSize
    /\ Trained(drawn)
    /\ drawn' = << >>
    /\ UNCHANGED <<streamVars, indexVars, streaming, tpc, epoch, skip, seed,
                   saved, kills>>

(* The source has ended: what was drawn is dropped, every rank gets None.  *)
ScatterNone ==
    /\ streaming /\ tpc = "train" /\ skip = 0 /\ SourceEnded
    /\ PassAgain
    /\ drawn' = << >>
    /\ EpochOver(stepped)
    /\ UNCHANGED <<indexVars, streaming, skip, seed, nth, stepped, trained,
                   saved, kills>>

-----------------------------------------------------------------------------
(* DataLoaderShard over a BatchSamplerShard.                               *)

TrainShard ==
    /\ ~streaming /\ tpc = "train" /\ nth < Batches
    /\ Trained(Shard(seed, nth))
    /\ UNCHANGED <<streamVars, indexVars, streaming, tpc, epoch, skip, seed,
                   drawn, saved, kills>>

ShardOver ==
    /\ ~streaming /\ tpc = "train" /\ nth = Batches
    /\ EpochOver(stepped)
    /\ UNCHANGED <<streamVars, indexVars, streaming, skip, seed, nth, stepped,
                   drawn, trained, saved, kills>>

-----------------------------------------------------------------------------
Save ==
    /\ tpc = "train" /\ stepped /\ saved # Len(trained)
    /\ saved' = Len(trained)
    /\ UNCHANGED <<streamVars, indexVars, streaming, tpc, epoch, skip, seed,
                   nth, stepped, drawn, trained, kills>>

(* The job is killed and started again from its last checkpoint.           *)
Kill ==
    /\ tpc # "done" /\ kills < MaxKills
    /\ kills' = kills + 1
    /\ StreamRestart /\ IndexRestart
    /\ tpc' = "start" /\ epoch' = 0 /\ skip' = 0 /\ seed' = 0 /\ nth' = 0
    /\ stepped' = FALSE /\ drawn' = << >>
    /\ trained' = SubSeq(trained, 1, saved)
    /\ UNCHANGED <<streaming, saved>>

Next == Prepare \/ Resume \/ OpenEpoch \/ Draw \/ SkipGroup \/ SkipFails
            \/ Scatter \/ ScatterNone \/ TrainShard \/ ShardOver \/ Save \/ Kill

Spec == Init /\ [][Next]_vars

(* The processes run, and the trainer steps as long as it is not waiting.  *)
FairSpec ==
    /\ Spec
    /\ WF_vars(Prepare) /\ WF_vars(Resume) /\ WF_vars(OpenEpoch)
    /\ WF_vars(Draw) /\ WF_vars(SkipGroup) /\ WF_vars(SkipFails)
    /\ WF_vars(Scatter) /\ WF_vars(ScatterNone)
    /\ WF_vars(TrainShard) /\ WF_vars(ShardOver)

-----------------------------------------------------------------------------
TypeOK ==
    /\ StreamTypeOK /\ IndexTypeOK
    /\ tpc \in {"start", "open", "train", "done", "failed"}
    /\ epoch \in 0..Epochs /\ seed \in 0..Epochs /\ saved <= Len(trained)
    /\ Len(drawn) <= WorldSize /\ Packed(drawn) \subseteq Packed(yielded)

(* The steps a pass over a streamed data set gives.                        *)
PassSteps == Len(PassPacks) \div WorldSize

(* The n-th step, from 0, of a run that is not killed. *)
Uninterrupted(n) ==
    IF streaming
    THEN [r \in Ranks |-> PassPacks[(n % PassSteps) * WorldSize + r]]
    ELSE Shard(n \div Batches, n % Batches)

(* A killed and resumed run trains the packs an uninterrupted one does, in *)
(* the same order and on the same ranks, whatever order the workers answer *)
(* in, except where a loader that skips was seeded for another epoch.  It  *)
(* ends before its last epoch, or fails, only when it was resumed at or    *)
(* past the end of the first pass over a streamed data set.                *)
EndedShort ==
    tpc = "failed" \/ (tpc = "done" /\ Len(trained) < Epochs *
                          (IF streaming THEN PassSteps ELSE Batches))

SameAsUninterrupted ==
    /\ streaming \/ IndexReady =>
           \A n \in DOMAIN trained :
               trained[n].seed = trained[n].epoch =>
                   trained[n].packs = Uninterrupted(n - 1)
    /\ EndedShort => streaming /\ kills > 0 /\ saved >= PassSteps

(* No pack is longer than packing_length, and the index of packs is what   *)
(* each chunk gives on its own, with every sample in one pack.             *)
PackedIdxWhole ==
    /\ TypeOK /\ Fit(yielded)
    /\ IndexReady => /\ PackedIdx = AllChunks /\ Fit(PackedIdx)
                     /\ Once(PackedIdx) /\ Packed(PackedIdx) = Samples

(* Training comes to an end unless a strict worker died of a sample.       *)
TrainingEnds ==
    <>[](tpc \in {"done", "failed"} \/ (streaming /\ strict /\ dead # {}))
==============================================================================

--------------------------- MODULE FlashCheckpoint ---------------------------
(***************************************************************************)
(* Flash checkpoints: a training job writes the files of a checkpoint into *)
(* a directory of its version, hands the weights to the DLRover agent,     *)
(* which persists them while training goes on and then names the step in   *)
(* dlrover_latest.txt, and rotates older checkpoints away.  A job that was *)
(* killed, or stopped gracefully, is started again in a new version        *)
(* directory and resumes from the checkpoint its predecessor's tracer      *)
(* names.                                                                  *)
(*                                                                         *)
(* trainers/mixin.py, trainers/utils.py, pipelines/train/sft.py,           *)
(* callbacks/deepspeed_elastic.py, utils/shutdown_manager.py.              *)
(***************************************************************************)
EXTENDS Integers, FiniteSets

CONSTANTS
    MaxStep,        \* max_steps of the training
    SaveSteps,      \* save_steps
    Limits,         \* values of save_total_limit, 0 for None
    MaxStarts       \* bound: the versions, one for each start of the job

ASSUME CountAssumption ==
    /\ MaxStep \in Nat \ {0} /\ SaveSteps \in Nat \ {0}
    /\ Limits \subseteq Nat /\ MaxStarts \in Nat \ {0}

Versions == 1..MaxStarts
Steps == 1..MaxStep
Dir == Versions \X Steps
NoDir == <<0, 0>>

VARIABLES
    limit,      \* save_total_limit
    tracked,    \* evaluations look for a best checkpoint
    ver,        \* the version directory of the running job
    pc,         \* where it is
    step,       \* global_step
    bestStep,   \* best_global_step, 0 for None
    bestDir,    \* best_model_checkpoint
    dirs,       \* the checkpoint directories
    complete,   \* those whose weights are persisted
    state,      \* trainer_state.json: the best step and directory it tells
    tracer,     \* dlrover_latest.txt of each version, 0 when there is none
    pending,    \* what the agent is persisting
    lastStep,   \* the tracer's step as read by _rotate_flash_checkpoints
    toDelete,   \* checkpoints_to_be_deleted
    asked,      \* should_shutdown
    stopping    \* _pending_stop, from on_step_end to on_save

vars == <<limit, tracked, ver, pc, step, bestStep, bestDir, dirs, complete,
          state, tracer, pending, lastStep, toDelete, asked, stopping>>
disk == <<dirs, complete, state, tracer>>
best == <<bestStep, bestDir>>
config == <<limit, tracked>>

Init ==
    /\ limit \in Limits /\ tracked \in BOOLEAN
    /\ ver = 1 /\ pc = "resume" /\ step = 0
    /\ bestStep = 0 /\ bestDir = NoDir
    /\ dirs = {} /\ complete = {}
    /\ state = [d \in Dir |-> <<0, NoDir>>]
    /\ tracer = [v \in Versions |-> 0]
    /\ pending = NoDir /\ lastStep = 0 /\ toDelete = {}
    /\ asked = FALSE /\ stopping = FALSE

-----------------------------------------------------------------------------
(* Starting: get_resume_checkpoint and Trainer.train.                      *)

Previous == <<ver - 1, IF ver = 1 THEN 0 ELSE tracer[ver - 1]>>

(* There is no previous version, it has no tracer, or it had finished.     *)
StartFromScratch ==
    /\ pc = "resume"
    /\ Previous[2] = 0 \/ (Previous \in dirs /\ Previous[2] = MaxStep)
    /\ pc' = "train" /\ step' = 0 /\ bestStep' = 0 /\ bestDir' = NoDir
    /\ UNCHANGED <<config, ver, disk, pending, lastStep, toDelete, asked,
                   stopping>>

(* Faulty variant: the newest directory of the previous version is taken.  *)
ResumeNewest ==
    /\ pc = "resume" /\ ver > 1
    /\ \E d \in dirs :
           /\ d[1] = ver - 1 /\ d[2] # MaxStep
           /\ \A e \in dirs : e[1] = ver - 1 => e[2] <= d[2]
           /\ step' = d[2] /\ bestStep' = state[d][1] /\ bestDir' = state[d][2]
    /\ pc' = "train"
    /\ UNCHANGED <<config, ver, disk, pending, lastStep, toDelete, asked,
                   stopping>>

Resume ==
    /\ pc = "resume" /\ Previous \in dirs /\ Previous[2] # MaxStep
    /\ pc' = "train" /\ step' = Previous[2]
    /\ bestStep' = state[Previous][1] /\ bestDir' = state[Previous][2]
    /\ UNCHANGED <<config, ver, disk, pending, lastStep, toDelete, asked,
                   stopping>>

(* The directory the tracer names is gone: FileNotFoundError. *)
ResumeFails ==
    /\ pc = "resume" /\ Previous[2] # 0 /\ Previous \notin dirs
    /\ pc' = "broken"
    /\ UNCHANGED <<config, ver, step, best, disk, pending, lastStep, toDelete,
                   asked, stopping>>

-----------------------------------------------------------------------------
(* The training loop.                                                      *)

(* SIGTERM, or the stop file: noticed at the end of the step. *)
AskToStop ==
    /\ pc = "train" /\ ~asked /\ ver < MaxStarts
    /\ asked' = TRUE
    /\ UNCHANGED <<config, ver, pc, step, best, disk, pending, lastStep,
                   toDelete, stopping>>

Train ==
    /\ pc = "train" /\ step < MaxStep
    /\ step' = step + 1
    /\ stopping' = asked
    /\ pc' = IF asked \/ step' % SaveSteps = 0 \/ step' = MaxStep
             THEN "files" ELSE "train"
    /\ UNCHANGED <<config, ver, best, disk, pending, lastStep, toDelete, asked>>

Here == <<ver, step>>

(* _save_flash_checkpoint up to the agent: the directory with all but the  *)
(* weights.  The step may be the best so far; the best step's directory is *)
(* looked for in this version.                                             *)
SaveFiles ==
    /\ pc = "files"
    /\ pc' = "store"
    /\ dirs' = dirs \cup {Here}
    /\ bestStep' \in IF tracked THEN {bestStep, step} ELSE {0}
    /\ bestDir' = IF <<ver, bestStep'>> \in dirs' THEN <<ver, bestStep'>>
                  ELSE bestDir
    /\ state' = [state EXCEPT ![Here] = <<bestStep', bestDir'>>]
    /\ UNCHANGED <<config, ver, step, complete, tracer, pending, lastStep,
                   toDelete, asked, stopping>>

(* save_checkpoint_to_storage: the agent takes it unless it is busy; the   *)
(* last step waits until it is not.                                        *)
Store ==
    /\ pc = "store" /\ pending = NoDir
    /\ pending' = Here
    /\ pc' = "rotate"
    /\ UNCHANGED <<config, ver, step, best, disk, lastStep, toDelete, asked,
                   stopping>>

(* Faulty variant: the unfinished older checkpoint is removed instead. *)
SkipOlder ==
    /\ pc = "store" /\ pending # NoDir /\ step < MaxStep
    /\ dirs' = dirs \ {pending}
    /\ pc' = "rotate"
    /\ UNCHANGED <<config, ver, step, best, complete, state, tracer, pending,
                   lastStep, toDelete, asked, stopping>>

(* It is busy: the new checkpoint is dropped. *)
Skip ==
    /\ pc = "store" /\ pending # NoDir /\ step < MaxStep
    /\ dirs' = dirs \ {Here}
    /\ pc' = "rotate"
    /\ UNCHANGED <<config, ver, step, best, complete, state, tracer, pending,
                   lastStep, toDelete, asked, stopping>>

(* The save is over: on_save stops the training that was asked to stop.    *)
AfterSave ==
    /\ pc' = IF stopping \/ step = MaxStep THEN "wait" ELSE "train"
    /\ stopping' = FALSE

(* Faulty variant: the step being saved counts as the last complete one.   *)
ReadStep ==
    /\ pc = "rotate"
    /\ IF limit = 0 THEN AfterSave /\ UNCHANGED lastStep
       ELSE /\ lastStep' = step /\ pc' = "list"
            /\ UNCHANGED stopping
    /\ UNCHANGED <<config, ver, step, best, disk, pending, toDelete, asked>>

(* _rotate_flash_checkpoints reads the tracer before it lists the disk.    *)
ReadTracer ==
    /\ pc = "rotate"
    /\ IF limit = 0 THEN AfterSave /\ UNCHANGED lastStep
       ELSE /\ lastStep' = tracer[ver] /\ pc' = "list"
            /\ UNCHANGED stopping
    /\ UNCHANGED <<config, ver, step, best, disk, pending, toDelete, asked>>

Listed == {d \in dirs : d[1] = ver}
Valid == {d \in Listed : d[2] <= lastStep}

(* The directory modified last: the newest one, or the one the agent has   *)
(* just finished to write while the newest was there already.              *)
Latest == {d \in Listed : d[2] = lastStep \/ \A e \in Listed : e[2] <= d[2]}

(* Where _sorted_checkpoints puts a directory: by age, but the best one    *)
(* just before the last.                                                   *)
Rank(d, last) ==
    IF d = bestDir /\ d # last THEN 2 * last[2] - 1 ELSE 2 * d[2]

Above(d, last) == {e \in Valid : Rank(e, last) > Rank(d, last)}

(* Faulty variant: a limit of one is always one. *)
KeptLimit(last) == limit

(* With a limit of one, one more is kept when the last is not the best.    *)
Kept(last) ==
    IF limit = 1 /\ bestDir # NoDir
         /\ \E d \in Valid : d # bestDir /\ Above(d, last) = {}
    THEN 2 ELSE limit

(* All but the last save_total_limit of the valid ones. *)
List ==
    /\ pc = "list"
    /\ \/ Listed = {} /\ toDelete' = {}
       \/ \E last \in Latest :
              toDelete' = {d \in Valid :
                              Cardinality(Above(d, last)) >= Kept(last)}
    /\ pc' = "delete"
    /\ UNCHANGED <<config, ver, step, best, disk, pending, lastStep, asked,
                   stopping>>

Delete ==
    /\ pc = "delete" /\ toDelete # {}
    /\ \E d \in toDelete :
           /\ dirs' = dirs \ {d} /\ complete' = complete \ {d}
           /\ toDelete' = toDelete \ {d}
    /\ UNCHANGED <<config, ver, pc, step, best, state, tracer, pending,
                   lastStep, asked, stopping>>

Rotated ==
    /\ pc = "delete" /\ toDelete = {}
    /\ AfterSave
    /\ UNCHANGED <<config, ver, step, best, disk, pending, lastStep, toDelete,
                   asked>>

(* wait_latest_checkpoint after training: until the step is persisted, or  *)
(* FLASH_CKPT_WAIT_TIMEOUT is over while it is not.                        *)
WaitLatest ==
    /\ pc = "wait"
    /\ pc' = IF step = MaxStep THEN "done" ELSE "stopped"
    /\ UNCHANGED <<config, ver, step, best, disk, pending, lastStep, toDelete,
                   asked, stopping>>

-----------------------------------------------------------------------------
(* The agent, and the end of a job.                                        *)

(* Faulty variant: the tracer is written before the weights are there.     *)
PersistTracerFirst ==
    /\ pending # NoDir
    /\ IF tracer[pending[1]] = pending[2]
       THEN /\ complete' = complete \cup {pending} /\ pending' = NoDir
            /\ UNCHANGED tracer
       ELSE /\ tracer' = [tracer EXCEPT ![pending[1]] = pending[2]]
            /\ UNCHANGED <<complete, pending>>
    /\ UNCHANGED <<config, ver, pc, step, best, dirs, state, lastStep, toDelete,
                   asked, stopping>>

Persist ==
    /\ pending # NoDir
    /\ complete' = complete \cup {pending}
    /\ tracer' = [tracer EXCEPT ![pending[1]] = pending[2]]
    /\ pending' = NoDir
    /\ UNCHANGED <<config, ver, pc, step, best, dirs, state, lastStep, toDelete,
                   asked, stopping>>

(* The job, stopped, failed or killed at any point, is started again in    *)
(* the next version; the agent has survived it or not.                     *)
Restart ==
    /\ pc # "done" /\ ver < MaxStarts
    /\ ver' = ver + 1
    /\ pc' = "resume" /\ step' = 0 /\ bestStep' = 0 /\ bestDir' = NoDir
    /\ pending' \in {NoDir, pending}
    /\ lastStep' = 0 /\ toDelete' = {} /\ asked' = FALSE /\ stopping' = FALSE
    /\ UNCHANGED <<config, disk>>

Next == StartFromScratch \/ Resume \/ ResumeFails \/ AskToStop \/ Train
            \/ SaveFiles \/ Store \/ Skip \/ ReadTracer \/ List \/ Delete
            \/ Rotated \/ WaitLatest \/ Persist \/ Restart

Spec == Init /\ [][Next]_vars

(* The job runs, the agent persists, and a job that ended short of its     *)
(* last step is started again.                                             *)
FairSpec ==
    /\ Spec
    /\ WF_vars(StartFromScratch) /\ WF_vars(Resume) /\ WF_vars(ResumeFails)
    /\ WF_vars(Train) /\ WF_vars(SaveFiles) /\ WF_vars(Store) /\ WF_vars(Skip)
    /\ WF_vars(ReadTracer) /\ WF_vars(List) /\ WF_vars(Delete)
    /\ WF_vars(Rotated) /\ WF_vars(WaitLatest) /\ WF_vars(Persist)
    /\ WF_vars(pc \in {"stopped", "broken"} /\ Restart)

-----------------------------------------------------------------------------
TypeOK ==
    /\ limit \in Limits /\ tracked \in BOOLEAN
    /\ ver \in Versions /\ step \in 0..MaxStep
    /\ pc \in {"resume", "train", "files", "store", "rotate", "list", "delete",
               "wait", "stopped", "broken", "done"}
    /\ bestStep \in 0..MaxStep /\ bestDir \in Dir \cup {NoDir}
    /\ complete \subseteq dirs /\ dirs \subseteq Dir
    /\ state \in [Dir -> (0..MaxStep) \X (Dir \cup {NoDir})]
    /\ tracer \in [Versions -> 0..MaxStep]
    /\ pending \in dirs \cup {NoDir} /\ toDelete \subseteq dirs
    /\ lastStep \in 0..MaxStep /\ asked \in BOOLEAN /\ stopping \in BOOLEAN

Named == {<<v, tracer[v]>> : v \in {u \in Versions : tracer[u] # 0}}

(* The checkpoint that dlrover_latest.txt names is on disk and whole, while*)
(* others are persisted, skipped and rotated away.                         *)
TracerAlwaysOnDisk == Named \subseteq complete

(* With a limit of one, and a best checkpoint to keep, it may be deleted   *)
(* while the next one is being persisted.                                  *)
TracerOnDisk == TypeOK /\ (~(limit = 1 /\ tracked) => TracerAlwaysOnDisk)

(* The best checkpoint of a job is not rotated away once it is whole.      *)
BestStays ==
    [][ver' = ver /\ bestDir' = bestDir /\ bestDir \in complete
           => bestDir \in complete']_vars

(* A job whose predecessor completed checkpoints starts from the last of   *)
(* them, never from one that is not whole.                                 *)
ResumesLastComplete ==
    [][pc = "resume" /\ pc' = "train" =>
           \A s \in Steps : <<ver - 1, s>> \in complete =>
               \/ tracer[ver - 1] = MaxStep /\ step' = 0
               \/ s <= step' /\ <<ver - 1, step'>> \in complete]_vars

(* Training reaches its last step, however often it is killed or stopped.  *)
TrainingFinishes ==
    <>(pc = "done" \/ (pc = "broken" /\ limit = 1 /\ tracked))
==============================================================================

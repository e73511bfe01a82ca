-------------------------- MODULE RolloutPipeline --------------------------
(***************************************************************************)
(* What asynchronous rollout promises the training loop, with no ranks,    *)
(* threads or executors: two lines of batches (training and evaluation),   *)
(* each answered and taken in the order asked, every batch sampled from    *)
(* the weights the server had when it was asked for, and no weight update  *)
(* while a batch is unanswered.                                            *)
(***************************************************************************)
EXTENDS Integers, Sequences

CONSTANT Lines      \* the names of the lines: "train" and "eval"

VARIABLES
    policy,         \* version of the weights the server samples from
    line,           \* per line, the versions of the batches not yet taken
    answered        \* per line, how many of them (from the front) are ready

pipeline == <<policy, line, answered>>

PipelineInit ==
    /\ policy = 0
    /\ line = [m \in Lines |-> << >>]
    /\ answered = [m \in Lines |-> 0]

Ask(m) ==
    /\ line' = [line EXCEPT ![m] = Append(@, policy)]
    /\ UNCHANGED <<policy, answered>>

Answer(m) ==
    /\ answered[m] < Len(line[m])
    /\ answered' = [answered EXCEPT ![m] = @ + 1]
    /\ UNCHANGED <<policy, line>>

(* A prefetched batch is asked and answered in one go, behind no other. *)
AskAnswered(m) ==
    /\ answered[m] = Len(line[m])
    /\ line' = [line EXCEPT ![m] = Append(@, policy)]
    /\ answered' = [answered EXCEPT ![m] = @ + 1]
    /\ UNCHANGED policy

Take(m) ==
    /\ answered[m] > 0
    /\ line' = [line EXCEPT ![m] = Tail(@)]
    /\ answered' = [answered EXCEPT ![m] = @ - 1]
    /\ UNCHANGED policy

Update ==
    /\ \A m \in Lines : answered[m] = Len(line[m])
    /\ policy' \in Nat /\ policy' > policy
    /\ UNCHANGED <<line, answered>>

PipelineNext ==
    \/ Update
    \/ \E m \in Lines : Ask(m) \/ Answer(m) \/ AskAnswered(m) \/ Take(m)

PipelineSafe == PipelineInit /\ [][PipelineNext]_pipeline

(* Every batch asked for is answered. *)
PipelineSpec ==
    /\ PipelineSafe
    /\ \A m \in Lines : WF_pipeline(Answer(m))
=============================================================================

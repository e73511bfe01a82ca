--------------------------- MODULE DynamicSampling ---------------------------
(***************************************************************************)
(* The generation buffer of the GRPO trainer: a generation batch is        *)
(* fetched, samples that cannot be encoded are replaced (or the job ends), *)
(* completions are scored, groups without reward variance are replaced by resampled ones,  *)
(* advantages are computed group by group over all ranks, and the batch is *)
(* split into the chunks that the next training steps take in turn.        *)
(*                                                                         *)
(* rlhf_trainers/grpo_trainer.py, rlhf_trainers/rollout_mixin.py.  The     *)
(* ranks run in lockstep (every stage ends in a gather); each generation   *)
(* returns one completion for each sample (dynamic_num_samples is False).  *)
(***************************************************************************)
EXTENDS Integers, Sequences, FiniteSets, SequencesExt

CONSTANTS
    R,              \* ranks
    L,              \* samples of a rank: batch size times steps_per_generation
    K,              \* num_generations
    Spg,            \* steps_per_generation
    Iterations,     \* num_iterations
    MaxResample,    \* max_resample_times
    MaxRounds,      \* max_resample_rounds of resample_encode_failed_inputs
    Prompts,
    Failing,        \* the prompts that do not encode
    Orders,         \* the batches of prompts that the samplers bring
    MaxSteps        \* bound on the training steps

ASSUME SizeAssumption ==
    /\ {R, L, K, Spg, Iterations} \subseteq Nat \ {0}
    /\ {MaxResample, MaxRounds} \subseteq Nat /\ MaxSteps \in Nat
    /\ (R * L) % K = 0
    /\ Failing \subseteq Prompts /\ Failing # Prompts

G == R * L                      \* generation_batch_size
Ranks == 1..R
Groups == 1..(G \div K)

(* RepeatSampler goes through a permutation of the data. *)
ASSUME OrdersAssumption ==
    /\ Orders \subseteq [Groups -> Prompts]
    /\ \A ps \in Orders : IsInjective(ps)

Every == Spg * Iterations       \* generate_every

(* A sample of the count-th fetch; slots above G are replacements. *)
Sample == [fetch : 0..MaxResample, slot : 1..2 * G, prompt : Prompts]

VARIABLES
    pc,
    step,           \* _step
    count,          \* resample_count
    round,          \* rounds done while samples are being replaced
    inputs,         \* the samples of each rank
    rows,           \* rewards_per_func: whose reward each global row is
    valid,          \* valid_samples
    validRows,      \* valid_rewards_per_func
    origin,         \* origin_data
    buffer,         \* _buffered_inputs: the chunks of each rank
    useful          \* the samples of groups whose rewards differ

vars == <<pc, step, count, round, inputs, rows, valid, validRows, origin,
          buffer, useful>>

Nothing == [r \in Ranks |-> <<>>]

Init ==
    /\ pc = "step" /\ step = 0 /\ count = 0 /\ round = 0
    /\ inputs = Nothing /\ rows = <<>>
    /\ valid = <<>> /\ validRows = <<>>
    /\ origin = [inputs |-> Nothing, rows |-> <<>>]
    /\ buffer = Nothing
    /\ useful = {}

-----------------------------------------------------------------------------
(* gather: the samples of all ranks, rank by rank. *)
Gather(f) == [i \in 1..G |-> f[((i - 1) \div L) + 1][((i - 1) % L) + 1]]

(* A rank's slice of a global sequence. *)
Slices(s) == [r \in Ranks |-> SubSeq(s, (r - 1) * L + 1, r * L)]

(* Each prompt comes num_generations times in a row. *)
Fetched(n, ps) ==
    Slices([i \in 1..G |->
        [fetch |-> n, slot |-> i, prompt |-> ps[((i - 1) \div K) + 1]]])

(* _prepare_inputs finds that the buffer is used up. *)
Due == step % Every = 0 \/ buffer = Nothing

(* The old buffer is not read again before it is replaced: it is dropped.  *)
Fetch ==
    /\ pc = "step" /\ step < MaxSteps /\ Due
    /\ \E ps \in Orders : inputs' = Fetched(0, ps)
    /\ pc' = "encode" /\ count' = 0
    /\ valid' = <<>> /\ validRows' = <<>> /\ useful' = {}
    /\ buffer' = Nothing
    /\ UNCHANGED <<step, round, rows, origin>>

(* resample_encode_failed_inputs. The first round tries the inputs: each   *)
(* rank keeps the samples that encode, in order.                           *)
Encoding(r) == SelectSeq(inputs[r], LAMBDA s : s.prompt \notin Failing)

(* A rank that is still short when its rounds are used up raises           *)
(* RuntimeError, and the job ends.                                         *)
AfterRound(f, n) ==
    IF \A r \in Ranks : Len(f[r]) = L THEN "generate"
    ELSE IF n < MaxRounds THEN "refill" ELSE "failed"

Encode ==
    /\ pc = "encode"
    /\ inputs' = [r \in Ranks |-> Encoding(r)]
    /\ pc' = AfterRound(inputs', 0)
    /\ UNCHANGED <<step, count, round, rows, valid, validRows, origin, buffer,
                   useful>>

(* A further round: each rank draws at least as many samples of its own    *)
(* resample iterator as it misses and keeps those that encode, which may   *)
(* be any number of them, until it misses none.                            *)
Missing(r) == L - Len(inputs[r])

Replacements(r, ps) ==
    [i \in 1..Len(ps) |->
        [fetch |-> count, slot |-> G + (r - 1) * L + Len(inputs[r]) + i,
         prompt |-> ps[i]]]

Found == {ps \in [Ranks -> SeqOf(Prompts \ Failing, L)] :
              \A r \in Ranks : Len(ps[r]) <= Missing(r)}

(* Faulty variant: the rounds begin again when they are used up. *)
RefillForever ==
    /\ pc = "refill"
    /\ \E ps \in Found :
           inputs' = [r \in Ranks |-> inputs[r] \o Replacements(r, ps[r])]
    /\ pc' = AfterRound(inputs', 0)
    /\ round' = IF pc' = "refill" THEN (round + 1) % MaxRounds ELSE 0
    /\ UNCHANGED <<step, count, rows, valid, validRows, origin, buffer, useful>>

Refill ==
    /\ pc = "refill"
    /\ \E ps \in Found :
           inputs' = [r \in Ranks |-> inputs[r] \o Replacements(r, ps[r])]
    /\ pc' = AfterRound(inputs', round + 1)
    /\ round' = IF pc' = "refill" THEN round + 1 ELSE 0
    /\ UNCHANGED <<step, count, rows, valid, validRows, origin, buffer, useful>>

Members(s, g) == {s[i] : i \in (g - 1) * K + 1..g * K}

(* _generate_completions and _score_completions, with the groups whose     *)
(* rewards turn out to differ.                                             *)
Score ==
    /\ pc = "generate"
    /\ rows' = Gather(inputs)
    /\ \E gs \in SUBSET Groups :
           useful' = useful \cup UNION {Members(rows', g) : g \in gs}
    /\ origin' = IF count = 0 THEN [inputs |-> inputs, rows |-> rows']
                 ELSE origin
    /\ pc' = "judge"
    /\ UNCHANGED <<step, count, round, inputs, valid, validRows, buffer>>

-----------------------------------------------------------------------------
(* _dynamic_sampling.                                                      *)

(* Faulty variant: the rewards of all groups are kept. *)
JudgeKeepingRows ==
    /\ pc = "judge" /\ count < MaxResample
    /\ valid' = valid \o SelectSeq(Gather(inputs), LAMBDA s : s \in useful)
    /\ validRows' = validRows \o rows
    /\ pc' = IF Len(valid') >= G THEN "slice" ELSE "resample"
    /\ UNCHANGED <<step, count, round, inputs, rows, origin, buffer, useful>>

(* Faulty variant: the mask is not applied. *)
JudgeUnmasked ==
    /\ pc = "judge" /\ count < MaxResample
    /\ valid' = valid \o Gather(inputs)
    /\ validRows' = validRows \o rows
    /\ pc' = IF Len(valid') >= G THEN "slice" ELSE "resample"
    /\ UNCHANGED <<step, count, round, inputs, rows, origin, buffer, useful>>

(* compute_std: the samples of groups whose rewards differ are kept.       *)
Judge ==
    /\ pc = "judge" /\ count < MaxResample
    /\ valid' = valid \o SelectSeq(Gather(inputs), LAMBDA s : s \in useful)
    /\ validRows' = validRows \o SelectSeq(rows, LAMBDA s : s \in useful)
    /\ pc' = IF Len(valid') >= G THEN "slice" ELSE "resample"
    /\ UNCHANGED <<step, count, round, inputs, rows, origin, buffer, useful>>

(* Faulty variant: the try is not counted. *)
ResampleUncounted ==
    /\ pc = "resample"
    /\ \E ps \in Orders : inputs' = Fetched(count, ps)
    /\ pc' = "encode"
    /\ UNCHANGED <<step, count, round, rows, valid, validRows, origin, buffer,
                   useful>>

(* The next batch of the resample iterator, whose order is another seed's. *)
Resample ==
    /\ pc = "resample"
    /\ count' = count + 1
    /\ \E ps \in Orders : inputs' = Fetched(count', ps)
    /\ pc' = "encode"
    /\ UNCHANGED <<step, round, rows, valid, validRows, origin, buffer,
                   useful>>

(* Enough: the first generation_batch_size samples, sliced over the ranks. *)
Slice ==
    /\ pc = "slice"
    /\ inputs' = Slices(valid) /\ rows' = SubSeq(validRows, 1, G)
    /\ pc' = "advantages"
    /\ UNCHANGED <<step, count, round, valid, validRows, origin, buffer,
                   useful>>

(* Faulty variant: only the samples go back to the original ones. *)
GiveUpKeepingRows ==
    /\ pc = "judge" /\ count = MaxResample
    /\ inputs' = origin.inputs
    /\ pc' = "advantages"
    /\ UNCHANGED <<step, count, round, rows, valid, validRows, origin, buffer,
                   useful>>

(* The tries are used up; the last batch is not judged any more. *)
GiveUp ==
    /\ pc = "judge" /\ count = MaxResample
    /\ inputs' = origin.inputs /\ rows' = origin.rows
    /\ pc' = "advantages"
    /\ UNCHANGED <<step, count, round, valid, validRows, origin, buffer,
                   useful>>

-----------------------------------------------------------------------------
(* _compute_advantages: a row against the rows of its group, by place.     *)
Advantage(i) ==
    [row |-> rows[i], base |-> Members(rows, ((i - 1) \div K) + 1)]

(* split_by_mini_batches: the first chunks get the remainder.              *)
ChunkStart(c) ==
    LET more == L % Spg
    IN  (c - 1) * (L \div Spg) + IF c - 1 < more THEN c - 1 ELSE more

Split(s) == [c \in 1..Spg |-> SubSeq(s, ChunkStart(c) + 1, ChunkStart(c + 1))]

Buffer ==
    /\ pc = "advantages"
    /\ buffer' = [r \in Ranks |-> Split([i \in 1..L |->
           [sample |-> inputs[r][i]] @@ Advantage((r - 1) * L + i)])]
    /\ pc' = "take"
    /\ inputs' = Nothing /\ rows' = <<>> /\ valid' = <<>> /\ validRows' = <<>>
    /\ origin' = [inputs |-> Nothing, rows |-> <<>>]
    /\ UNCHANGED <<step, count, round, useful>>

Reuse ==
    /\ pc = "step" /\ step < MaxSteps /\ ~Due
    /\ pc' = "take"
    /\ UNCHANGED <<step, count, round, inputs, rows, valid, validRows, origin,
                   buffer, useful>>

(* A training step takes the chunk its number falls on. *)
Take ==
    /\ pc = "take"
    /\ step' = step + 1 /\ pc' = "step"
    /\ UNCHANGED <<count, round, inputs, rows, valid, validRows, origin,
                   buffer, useful>>

Next == Fetch \/ Encode \/ Refill \/ Score \/ Judge \/ Resample \/ Slice \/ GiveUp
            \/ Buffer \/ Reuse \/ Take

Spec == Init /\ [][Next]_vars
FairSpec == Spec /\ WF_vars(Next)

-----------------------------------------------------------------------------
Stages == {"step", "encode", "refill", "failed", "generate", "judge", "slice",
           "resample", "advantages", "take"}

TypeOK ==
    /\ pc \in Stages /\ step \in 0..MaxSteps /\ count \in 0..MaxResample
    /\ round \in 0..MaxRounds
    /\ \A r \in Ranks : Range(inputs[r]) \subseteq Sample
    /\ Range(rows) \cup Range(valid) \cup Range(validRows) \subseteq Sample
    /\ useful \subseteq Sample

Buffered == UNION {UNION {Range(buffer[r][c]) : c \in DOMAIN buffer[r]} : r \in Ranks}

(* Each sample in the buffer is there once, has the advantage of its own   *)
(* reward against the num_generations rewards it was grouped with, on      *)
(* whatever rank it was generated and after whatever resampling.           *)
OwnAdvantage ==
    /\ TypeOK
    /\ \A e \in Buffered : /\ e.row = e.sample /\ e.sample \in e.base
                           /\ Cardinality(e.base) = K
    /\ buffer # Nothing =>
           /\ Cardinality({e.sample : e \in Buffered}) = G
           /\ \A r \in Ranks : FlattenSeq(buffer[r]) # <<>>

(* Unless the tries ran out, every group that is trained on was judged to  *)
(* have reward variance, and no group is put together from two fetches.    *)
GaveUp == count = MaxResample
OnlyUsefulGroups ==
    pc \in {"take", "step"} => \A e \in Buffered :
        /\ ~GaveUp => e.base \subseteq useful
        /\ \A s, t \in e.base : s.fetch = t.fetch

(* A group is one of completions of one prompt.                            *)
OnePromptPerGroup == \A e \in Buffered : \A s, t \in e.base : s.prompt = t.prompt

(* The training steps come to their end, whatever the rewards: resampling  *)
(* is bounded, and so are the rounds that look for samples which encode. A *)
(* rank that did not find enough of them ends the job.                     *)
StepsEnd == <>(step = MaxSteps \/ pc = "failed")
==============================================================================

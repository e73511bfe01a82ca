---------------------------- MODULE IndexPacking -----------------------------
(***************************************************************************)
(* PackingDataset: the master splits the lengths into contiguous chunks,   *)
(* one process packs each chunk in rounds of PACKING_BATCH_SIZE, and the   *)
(* master collects the packs per chunk and concatenates the chunks.        *)
(*                                                                         *)
(* dataset/packing.py.                                                     *)
(***************************************************************************)
EXTENDS BinPacking

CONSTANTS
    Asked,          \* packing_num_proc
    RoundSize       \* PACKING_BATCH_SIZE

ASSUME IndexAssumption == Asked \in Nat \ {0} /\ RoundSize \in Nat \ {0}

Ceil(a, b) == (a + b - 1) \div b
NumProc == Min({Asked, Ceil(N, RoundSize)})
Procs == 1..NumProc

(* split_list: the samples from, inclusive, to, exclusive, of a chunk. *)
Offset(k) == ((k - 1) * N) \div NumProc
ChunkLen(k) == Offset(k + 1) - Offset(k)

VARIABLES
    at,         \* i of each process
    left,       \* input_data of each process
    ended,      \* the processes that have put their last message
    outQ,       \* _out_queue: what each process's feeder has put, in order
    parts,      \* packed_idx per process
    finishedWorkers

indexVars == <<at, left, ended, outQ, parts, finishedWorkers>>

IndexInit ==
    /\ at = [k \in Procs |-> 0] /\ left = [k \in Procs |-> << >>]
    /\ ended = {} /\ outQ = [k \in Procs |-> << >>]
    /\ parts = [k \in Procs |-> << >>] /\ finishedWorkers = 0

End == -1
Message(k, packs, len) == [rank |-> k, sequences |-> packs, len |-> len]

(* Faulty variant: the samples of a chunk are numbered from its start.     *)
NewDataFromZero(k) ==
    LET last == Min({at[k] + RoundSize, ChunkLen(k)})
    IN  [j \in 1..Max({last - at[k], 0}) |-> at[k] + j]

(* data[i:i + PACKING_BATCH_SIZE], numbered from the start of the data set. *)
NewData(k) ==
    LET last == Min({at[k] + RoundSize, ChunkLen(k)})
    IN  [j \in 1..Max({last - at[k], 0}) |-> Offset(k) + at[k] + j]

(* One round of create_packed_idx. *)
PackRound(k) ==
    LET input == left[k] \o NewData(k)
        m == Matched(input, at[k] + RoundSize >= ChunkLen(k))
    IN  /\ k \notin ended /\ input # << >>
        /\ at' = [at EXCEPT ![k] = @ + RoundSize]
        /\ left' = [left EXCEPT ![k] = m.rest]
        /\ outQ' = [outQ EXCEPT ![k] =
                        Append(@, Message(k, m.packs, Len(NewData(k))))]
        /\ UNCHANGED <<ended, parts, finishedWorkers>>

PackEnd(k) ==
    /\ k \notin ended /\ left[k] \o NewData(k) = << >>
    /\ ended' = ended \cup {k}
    /\ outQ' = [outQ EXCEPT ![k] = Append(@, Message(k, << >>, End))]
    /\ UNCHANGED <<at, left, parts, finishedWorkers>>

(* Faulty variant: the packs are appended as they arrive. *)
CollectPacksAsTheyArrive(k) ==
    /\ finishedWorkers < NumProc /\ outQ[k] # << >>
    /\ outQ' = [outQ EXCEPT ![k] = Tail(@)]
    /\ LET m == Head(outQ[k])
       IN  IF m.len = End
           THEN finishedWorkers' = finishedWorkers + 1 /\ UNCHANGED parts
           ELSE /\ parts' = [parts EXCEPT ![1] = @ \o m.sequences]
                /\ UNCHANGED finishedWorkers
    /\ UNCHANGED <<at, left, ended>>

(* The master: one message of the queue. *)
CollectPacks(k) ==
    /\ finishedWorkers < NumProc /\ outQ[k] # << >>
    /\ outQ' = [outQ EXCEPT ![k] = Tail(@)]
    /\ LET m == Head(outQ[k])
       IN  IF m.len = End
           THEN finishedWorkers' = finishedWorkers + 1 /\ UNCHANGED parts
           ELSE /\ parts' = [parts EXCEPT ![m.rank] = @ \o m.sequences]
                /\ UNCHANGED finishedWorkers
    /\ UNCHANGED <<at, left, ended>>

IndexRestart ==
    /\ at' = [k \in Procs |-> 0] /\ left' = [k \in Procs |-> << >>]
    /\ ended' = {} /\ outQ' = [k \in Procs |-> << >>]
    /\ parts' = [k \in Procs |-> << >>] /\ finishedWorkers' = 0

Indexing == \E k \in Procs : PackRound(k) \/ PackEnd(k) \/ CollectPacks(k)

(* packed_idx, once every process has put its last message; the other      *)
(* ranks get it by a broadcast.                                            *)
IndexReady == finishedWorkers = NumProc
PackedIdx == FlattenSeq(parts)

-----------------------------------------------------------------------------
IndexTypeOK ==
    /\ at \in [Procs -> 0..N + RoundSize] /\ left \in [Procs -> Seq(Samples)]
    /\ ended \subseteq Procs /\ finishedWorkers \in 0..NumProc
    /\ parts \in [Procs -> Seq(Seq(Samples))]

(* A chunk packed alone, round after round: what packed_idx must be made   *)
(* of, whatever order the processes ran in.                                *)
ChunkRounds(k) ==
    [r \in 1..Ceil(ChunkLen(k), RoundSize) |->
        LET done == (r - 1) * RoundSize
        IN  [j \in 1..Min({RoundSize, ChunkLen(k) - done}) |->
                Offset(k) + done + j]]
ChunkPacks(k) == PackRounds(ChunkRounds(k))[Len(ChunkRounds(k))].packs
AllChunks == FlattenSeq([k \in Procs |-> ChunkPacks(k)])
==============================================================================

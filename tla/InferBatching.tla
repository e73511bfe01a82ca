---------------------------- MODULE InferBatching ----------------------------
(***************************************************************************)
(* TransformersEngine.infer_async: coroutines of one event loop put their  *)
(* requests on a thread-safe queue and wait on an asyncio queue of their   *)
(* own; one worker thread drains the queue into a pool keyed by            *)
(* request_config, takes at most max_batch_size requests of the oldest     *)
(* key, runs the model on them and hands row i of the outcome to the i-th  *)
(* waiting coroutine, chunk by chunk when the config asks for a stream.    *)
(*                                                                         *)
(* infer_engine/transformers_engine.py and infer_engine/infer_engine.py.   *)
(***************************************************************************)
EXTENDS Integers, Sequences, FiniteSets, SequencesExt

CONSTANTS
    Callers,        \* coroutines, each of which calls infer_async once
    Requests,       \* what they may ask for: records [config, adapter]
    Streamed,       \* the configs with stream = True
    Settings,       \* engines: records [maxBatch, strict, mayRaise]
    Base,           \* the name under which no adapter is applied
    Untouched,      \* what the model applies when given no adapter name
    NoAdapter,      \* adapter_request is None
    MaxParts        \* printable chunks of a streamed answer before its last

(* maxBatch is max_batch_size, where 0 or less means no limit; strict: an  *)
(* input that cannot be encoded raises; mayRaise: so may the model.        *)
ASSUME SettingAssumption ==
    Settings \subseteq [maxBatch : Int, strict : BOOLEAN, mayRaise : BOOLEAN]
ASSUME BoundAssumption == MaxParts \in Nat

Configs == {q.config : q \in Requests}
Adapters == {q.adapter : q \in Requests} \ {NoAdapter}
Appliers == Adapters \cup {Base, Untouched}

(***************************************************************************)
(* What reaches a caller's queue: a whole answer or a chunk of one (of     *)
(* whose row, computed with which adapter, its number and whether it is    *)
(* the last), the exception of a row that could not be encoded, or the     *)
(* None that stands both for "nothing to print yet" and for the end.       *)
(***************************************************************************)
Text(c, by, n, last) == [kind |-> "text", of |-> c, by |-> by, part |-> n,
                         last |-> last]
Error(c) == [kind |-> "error", of |-> c, by |-> Base, part |-> 0, last |-> TRUE]
None(c) == [kind |-> "none", of |-> c, by |-> Base, part |-> 0, last |-> TRUE]
Item == [kind : {"text", "error", "none"}, of : Callers, by : Appliers,
         part : 0..MaxParts + 1, last : BOOLEAN]

VARIABLES
    self,       \* the engine's setting, which no step changes
    pc,         \* where each caller is in infer_async
    call,       \* its request, and whether the template can encode it
    order,      \* history: callers in the order of their put
    queue,      \* self._queue
    pool,       \* self._task_pool: oldest key first
    worker,     \* the worker thread: not started, where it is, or ended
    batch,      \* what _fetch_infer_requests returned
    loaded,     \* self._adapters_pool
    printed,    \* chunks printed so far for each row of a stream
    inbox,      \* the asyncio queue of each caller
    got         \* what each caller received

callers == <<pc, call, order>>
vars == <<self, callers, queue, pool, worker, batch, loaded, printed, inbox, got>>

NoRequest == [config |-> NoAdapter, adapter |-> NoAdapter, encodes |-> TRUE]
NoBatch == [config |-> NoAdapter, adapter |-> NoAdapter, data |-> << >>]
Asks == [config : Configs, adapter : Adapters \cup {NoAdapter},
         encodes : BOOLEAN]
Entry == [config : Configs, adapter : Adapters \cup {NoAdapter},
          data : Seq(Callers)]

Init ==
    /\ self \in Settings
    /\ pc = [c \in Callers |-> "idle"]
    /\ call = [c \in Callers |-> NoRequest]
    /\ order = << >>
    /\ queue = << >>
    /\ pool = << >>
    /\ worker = "none"
    /\ batch = NoBatch
    /\ loaded = {}
    /\ printed = [c \in Callers |-> 0]
    /\ inbox = [c \in Callers |-> << >>]
    /\ got = [c \in Callers |-> << >>]

IsStream(c) == call[c].config \in Streamed

-----------------------------------------------------------------------------
(* The callers.                                                            *)

(* infer_async up to its first await: the put precedes the thread's start. *)
Submit(c) ==
    /\ pc[c] = "idle"
    /\ \E q \in Requests, ok \in BOOLEAN :
           call' = [call EXCEPT ![c] = [config |-> q.config,
                                        adapter |-> q.adapter, encodes |-> ok]]
    /\ pc' = [pc EXCEPT ![c] = "resume"]
    /\ order' = Append(order, c)
    /\ queue' = Append(queue, c)
    /\ UNCHANGED <<self, pool, worker, batch, loaded, printed, inbox, got>>

(* Faulty variant: the thread is started before the await only by the      *)
(* caller that finds the queue empty, so a second one may find no thread.  *)
ResumeNoStart(c) ==
    /\ pc[c] = "resume"
    /\ worker' = IF worker = "none" /\ Len(queue) = 1 THEN "fetch" ELSE worker
    /\ pc' = [pc EXCEPT ![c] = "wait"]
    /\ UNCHANGED <<self, call, order, queue, pool, batch, loaded, printed, inbox, got>>

(* After the await: start the worker unless one was ever started. A worker *)
(* that ended on an exception is still in _task_thread.                    *)
Resume(c) ==
    /\ pc[c] = "resume"
    /\ worker' = IF worker = "none" THEN "fetch" ELSE worker
    /\ pc' = [pc EXCEPT ![c] = "wait"]
    /\ UNCHANGED <<self, call, order, queue, pool, batch, loaded, printed, inbox, got>>

(* await queue.get(): a stream goes on until the first None. *)
Receive(c) ==
    /\ pc[c] = "wait"
    /\ inbox[c] # << >>
    /\ LET item == Head(inbox[c])
           over == ~ IsStream(c) \/ item.kind = "none"
       IN  /\ pc' = IF over THEN [pc EXCEPT ![c] = "done"] ELSE pc
           /\ got' = IF IsStream(c) /\ over THEN got
                     ELSE [got EXCEPT ![c] = Append(@, item)]
    /\ inbox' = [inbox EXCEPT ![c] = Tail(@)]
    /\ UNCHANGED <<self, call, order, queue, pool, worker, batch, loaded, printed>>

-----------------------------------------------------------------------------
(* _fetch_infer_requests.                                                  *)

(* Faulty variant: the newest request of a key goes first. *)
AddFirst(p, c) ==
    LET at == {i \in DOMAIN p : p[i].config = call[c].config}
    IN  IF at = {}
        THEN Append(p, [config |-> call[c].config,
                        adapter |-> call[c].adapter, data |-> <<c>>])
        ELSE [i \in DOMAIN p |->
                 IF i \in at THEN [p[i] EXCEPT !.data = <<c>> \o @] ELSE p[i]]

(* Faulty variant: the pool is not keyed. *)
AddAnyConfig(p, c) ==
    IF p = << >>
    THEN <<[config |-> call[c].config, adapter |-> call[c].adapter,
            data |-> <<c>>]>>
    ELSE [p EXCEPT ![1].data = Append(@, c)]

(* A request joins the entry of its request_config; only the first request *)
(* of an entry leaves its other arguments, the adapter among them, in it.  *)
AddToPool(p, c) ==
    LET at == {i \in DOMAIN p : p[i].config = call[c].config}
    IN  IF at = {}
        THEN Append(p, [config |-> call[c].config,
                        adapter |-> call[c].adapter, data |-> <<c>>])
        ELSE [i \in DOMAIN p |->
                 IF i \in at THEN [p[i] EXCEPT !.data = Append(@, c)] ELSE p[i]]

BatchSize(data) == IF self.maxBatch <= 0 \/ Len(data) < self.maxBatch
                   THEN Len(data) ELSE self.maxBatch

Taken(p) == [p[1] EXCEPT !.data = SubSeq(@, 1, BatchSize(@))]

(* Faulty variant: the key is popped with the requests it still holds. *)
RestDropped(p) == Tail(p)

Rest(p) ==
    LET data == p[1].data
        left == SubSeq(data, BatchSize(data) + 1, Len(data))
    IN  IF left = << >> THEN Tail(p) ELSE [p EXCEPT ![1].data = left]

(* One round of the worker's loop: drain, then take a batch if there is one. *)
Fetch ==
    /\ worker = "fetch"
    /\ LET p == FoldLeft(AddToPool, pool, queue)
       IN  IF p = << >>
           THEN UNCHANGED <<self, pool, batch, worker>>
           ELSE /\ batch' = Taken(p)
                /\ pool' = Rest(p)
                /\ worker' = "infer"
    /\ queue' = << >>
    /\ UNCHANGED <<self, callers, loaded, printed, inbox, got>>

-----------------------------------------------------------------------------
(* _infer on a batch.                                                      *)
Encodes(c) == call[c].encodes
Good == SelectSeq(batch.data, Encodes)
Bad == {i \in DOMAIN batch.data : ~ Encodes(batch.data[i])}

(* _get_adapter_names, with the adapter pool as it is when it is called. *)
Applied(adapter) == IF adapter # NoAdapter THEN adapter
                    ELSE IF loaded # {} THEN Base ELSE Untouched

(* Faulty variant: exceptions are put after the answers. *)
ErrorsAtEnd(outs) ==
    outs \o [k \in 1..Cardinality(Bad) |->
                 Error(batch.data[SetToSortSeq(Bad, <)[k]])]

(* _add_error_list: the exceptions are inserted at their rows, in order. *)
AddErrors(outs) ==
    FoldLeft(LAMBDA s, i : InsertAt(s, i, Error(batch.data[i])),
             outs, SetToSortSeq(Bad, <))

(* Row i of the outcome goes to the i-th waiting caller. *)
Deliver(outs) ==
    inbox' = [c \in Callers |->
                 LET rows == {i \in DOMAIN batch.data \cap DOMAIN outs :
                                  batch.data[i] = c}
                 IN  IF rows = {} THEN inbox[c]
                     ELSE Append(inbox[c], outs[CHOOSE i \in rows : TRUE])]

LoadAdapter == loaded' = IF batch.adapter = NoAdapter \/ Good = << >>
                         THEN loaded ELSE loaded \cup {batch.adapter}

(* The exception leaves the loop of _infer_worker and ends its thread; a   *)
(* generate that raises in its own thread under a stream leaves the worker *)
(* waiting on the streamer, which is the same to everybody else.           *)
InferRaises ==
    /\ worker \in {"infer", "stream"}
    /\ \/ worker = "infer" /\ self.strict /\ Bad # {}
       \/ self.mayRaise /\ Good # << >>
    /\ worker' = "dead"
    /\ UNCHANGED <<self, callers, queue, pool, batch, loaded, printed, inbox, got>>

InferWhole ==
    /\ worker = "infer"
    /\ batch.config \notin Streamed
    /\ self.strict => Bad = {}
    /\ Deliver(AddErrors([i \in DOMAIN Good |->
                   Text(Good[i], Applied(batch.adapter), 1, TRUE)]))
    /\ LoadAdapter
    /\ worker' = "fetch"
    /\ batch' = NoBatch
    /\ UNCHANGED <<self, callers, queue, pool, printed, got>>

StartStream ==
    /\ worker = "infer"
    /\ batch.config \in Streamed
    /\ self.strict => Bad = {}
    /\ LoadAdapter
    /\ worker' = "stream"
    /\ UNCHANGED <<self, callers, queue, pool, batch, printed, inbox, got>>

(* Faulty variant: every row is counted as printed by every chunk. *)
ChunkAll(rows, last) ==
    AddErrors([i \in DOMAIN Good |->
        IF Good[i] \in rows
        THEN Text(Good[i], Applied(batch.adapter),
                  1 + FoldLeft(LAMBDA n, c : n + printed[c], 0, Good), last)
        ELSE None(Good[i])])

(* What the generator yields when these rows have new text to print. *)
Chunk(rows, last) ==
    AddErrors([i \in DOMAIN Good |->
        IF Good[i] \in rows
        THEN Text(Good[i], Applied(batch.adapter), printed[Good[i]] + 1, last)
        ELSE None(Good[i])])

(* Faulty variant: the closing chunk goes to rows that printed before. *)
LastChunkSome == Chunk({c \in ToSet(Good) : printed[c] > 0}, TRUE)

LastChunk == Chunk(ToSet(Good), TRUE)

(* A token step at which some rows, not all necessarily, print. *)
StreamChunk ==
    /\ worker = "stream"
    /\ \E rows \in SUBSET ToSet(Good) \ {{}} :
           /\ \A c \in rows : printed[c] < MaxParts
           /\ Deliver(Chunk(rows, FALSE))
           /\ printed' = [c \in Callers |->
                  IF c \in rows THEN printed[c] + 1 ELSE printed[c]]
    /\ UNCHANGED <<self, callers, queue, pool, worker, batch, loaded, got>>

(* Generation is over: every row prints the rest of its text. *)
StreamLast ==
    /\ worker = "stream"
    /\ Deliver(LastChunk)
    /\ worker' = "close"
    /\ UNCHANGED <<self, callers, queue, pool, batch, loaded, printed, got>>

(* StopIteration: a None for every caller of the batch. *)
CloseStream ==
    /\ worker = "close"
    /\ Deliver([i \in DOMAIN batch.data |-> None(batch.data[i])])
    /\ worker' = "fetch"
    /\ batch' = NoBatch
    /\ UNCHANGED <<self, callers, queue, pool, loaded, printed, got>>

Worker == Fetch \/ InferRaises \/ InferWhole \/ StartStream
          \/ StreamChunk \/ StreamLast \/ CloseStream

Next == \/ \E c \in Callers : Submit(c) \/ Resume(c) \/ Receive(c)
        \/ Worker

Spec == Init /\ [][Next]_vars

(* The event loop runs every coroutine that can run; the worker polls.     *)
FairSpec == /\ Spec
            /\ \A c \in Callers : WF_vars(Resume(c)) /\ WF_vars(Receive(c))
            /\ WF_vars(Worker)

-----------------------------------------------------------------------------
(* Types of the engine's state. *)
TypeOK ==
    /\ self \in Settings
    /\ pc \in [Callers -> {"idle", "resume", "wait", "done"}]
    /\ call \in [Callers -> Asks \cup {NoRequest}]
    /\ order \in Seq(Callers) /\ queue \in Seq(Callers)
    /\ pool \in Seq(Entry)
    /\ worker \in {"none", "fetch", "infer", "stream", "close", "dead"}
    /\ batch \in Entry \cup {NoBatch}
    /\ loaded \subseteq Adapters
    /\ printed \in [Callers -> 0..MaxParts]
    /\ inbox \in [Callers -> Seq(Item)] /\ got \in [Callers -> Seq(Item)]

Seen(c) == got[c] \o inbox[c]

Wanted(c) == IF call[c].adapter = NoAdapter THEN Base ELSE call[c].adapter

(* zip(queue_list, res_list) pairs rows by position: after the exceptions  *)
(* of rows that failed to encode are put back at their rows, no caller is  *)
(* ever handed another caller's answer, chunk or exception, and a text was *)
(* computed with the adapter its request names, over a plain model if it   *)
(* names none. (True where a config is used with one adapter only.)        *)
OwnAnswer ==
    \A c \in Callers : \A i \in DOMAIN Seen(c) :
        /\ Seen(c)[i].of = c
        /\ Seen(c)[i].kind = "text" => Seen(c)[i].by = Wanted(c)

Places(c) ==
    Cardinality({i \in DOMAIN queue : queue[i] = c})
    + Cardinality({<<i, j>> \in (DOMAIN pool) \X (1..Cardinality(Callers)) :
                       j \in DOMAIN pool[i].data /\ pool[i].data[j] = c})
    + Cardinality({i \in DOMAIN batch.data : batch.data[i] = c})

(* A request that was put and not yet answered is in exactly one of the    *)
(* queue, the pool and the running batch; an answered one is in none, or   *)
(* in the batch whose stream still runs: splitting an entry by             *)
(* max_batch_size neither loses nor repeats a request.                     *)
InOnePlace ==
    \A c \in Callers :
        IF pc[c] = "idle" THEN Places(c) = 0
        ELSE IF Seen(c) = << >> /\ pc[c] # "done" THEN Places(c) = 1
        ELSE Places(c) <= 1

Served(c) == pc[c] = "done" \/ Seen(c) # << >>

(* Requests with the same config are served in the order of their put,     *)
(* however they are batched.                                               *)
SameConfigInOrder ==
    \A i, j \in DOMAIN order :
        /\ i < j
        /\ call[order[i]].config = call[order[j]].config
        /\ Served(order[j])
        => Served(order[i])

(* Both, whatever the worker has collected, split and run.                 *)
WholeAndInOrder == TypeOK /\ InOnePlace /\ SameConfigInOrder

(* What a streaming caller holds is the beginning of its own answer:       *)
(* chunks 1, 2, ... with none missing and none after the last.             *)
PartsInOrder ==
    \A c \in Callers :
        LET text == SelectSeq(got[c], LAMBDA x : x.kind = "text")
        IN  \A i \in DOMAIN text :
                text[i].part = i /\ (text[i].last => i = Len(text))

(* A stream that its caller sees end has delivered its last chunk, the one *)
(* with the finish reason. True of batches of one row only, the default:   *)
(* in a larger batch the None of a row with nothing to print yet reads as  *)
(* the end of its stream.                                                  *)
StreamWhole ==
    /\ PartsInOrder
    /\ self.maxBatch = 1 => \A c \in Callers :
           pc[c] = "done" /\ IsStream(c) =>
               got[c] # << >> /\ Last(got[c]).last

Waiting == {c \in Callers : pc[c] \in {"resume", "wait"}}

(* Every call of infer_async comes to an end where the engine is not       *)
(* strict and its model never raises: the exception of any request ends    *)
(* the thread that serves all of them.  As there are finitely many calls,  *)
(* a time when no caller waits is always still to come.                    *)
AnsweredUnlessRaised ==
    []<>(~ self.strict /\ ~ self.mayRaise => Waiting = {})
=============================================================================

------------------------------ MODULE EvalBatch ------------------------------
(***************************************************************************)
(* The model API of the evaluation pipeline: EvalScope calls generate from *)
(* several threads; a background thread, created by the first call that    *)
(* finds none, collects the requests of all of them into batches (until    *)
(* batch_size or two quiet seconds), runs the engine on a batch and        *)
(* resolves the futures the callers block on.                              *)
(*                                                                         *)
(* pipelines/eval/utils.py.                                                *)
(***************************************************************************)
EXTENDS Integers, Sequences, FiniteSets, SequencesExt

CONSTANTS
    Callers,        \* EvalScope's threads
    NoThread,       \* batch_thread is None
    Again,          \* bound: the threads that call generate twice
    BatchSize       \* config.batch_size, the same for all of one evaluation

ASSUME CountAssumption == BatchSize \in Nat \ {0}
ASSUME ThreadAssumption == NoThread \notin Callers

Calls(c) == IF c \in Again THEN 2 ELSE 1
Request == {q \in Callers \X {1, 2} : q[2] <= Calls(q[1])}
Pending == [kind |-> "pending", of |-> << >>]
Result(q) == [kind |-> "result", of |-> q]
Failure(q) == [kind |-> "exception", of |-> q]
Future == [kind : {"result", "exception"}, of : Request] \cup {Pending}

VARIABLES
    pc,         \* where each caller is in generate
    nth,        \* which of its calls it is at
    future,     \* the futures of all calls
    returned,   \* what each call of generate came back with
    thread,     \* batch_thread, named by the caller that created it
    wpc,        \* where each background thread is
    queue,      \* batch_queue
    inputs,     \* the requests a background thread has collected
    at          \* the index of the completion it delivers next

vars == <<pc, nth, future, returned, thread, wpc, queue, inputs, at>>

Init ==
    /\ pc = [c \in Callers |-> "check"]
    /\ nth = [c \in Callers |-> 1]
    /\ future = [q \in Request |-> Pending]
    /\ returned = [q \in Request |-> Pending]
    /\ thread = NoThread
    /\ wpc = [t \in Callers |-> "none"]
    /\ queue = << >>
    /\ inputs = [t \in Callers |-> << >>]
    /\ at = [t \in Callers |-> 1]

Now(c) == <<c, nth[c]>>

(* The call is over; the thread makes its next one if it has any left. *)
Leave(c, outcome) ==
    /\ returned' = [returned EXCEPT ![Now(c)] = outcome]
    /\ IF nth[c] = Calls(c)
       THEN /\ pc' = [pc EXCEPT ![c] = "done"]
            /\ UNCHANGED nth
       ELSE /\ pc' = [pc EXCEPT ![c] = "check"]
            /\ nth' = [nth EXCEPT ![c] = @ + 1]

-----------------------------------------------------------------------------
(* generate.                                                               *)

Check(c) ==
    /\ pc[c] = "check"
    /\ pc' = [pc EXCEPT ![c] = IF thread = NoThread THEN "create" ELSE "put"]
    /\ UNCHANGED <<nth, future, returned, thread, wpc, queue, inputs, at>>

(* The assignment, not atomic with the test before it. *)
Create(c) ==
    /\ pc[c] = "create"
    /\ thread' = c
    /\ wpc' = [wpc EXCEPT ![c] = "new"]
    /\ pc' = [pc EXCEPT ![c] = "start"]
    /\ UNCHANGED <<nth, future, returned, queue, inputs, at>>

(* batch_thread.start() reads the global again: it may be another caller's *)
(* thread by now, and a thread that was started raises RuntimeError.       *)
Start(c) ==
    /\ pc[c] = "start"
    /\ IF wpc[thread] = "new"
       THEN /\ wpc' = [wpc EXCEPT ![thread] = "collect"]
            /\ pc' = [pc EXCEPT ![c] = "put"]
            /\ UNCHANGED <<nth, returned>>
       ELSE /\ Leave(c, Failure(Now(c)))
            /\ UNCHANGED wpc
    /\ UNCHANGED <<future, thread, queue, inputs, at>>

Put(c) ==
    /\ pc[c] = "put"
    /\ queue' = Append(queue, Now(c))
    /\ pc' = [pc EXCEPT ![c] = "wait"]
    /\ UNCHANGED <<nth, future, returned, thread, wpc, inputs, at>>

(* future.result(): returns the result or raises the exception. *)
Wake(c) ==
    /\ pc[c] = "wait"
    /\ future[Now(c)] # Pending
    /\ Leave(c, future[Now(c)])
    /\ UNCHANGED <<future, thread, wpc, queue, inputs, at>>

-----------------------------------------------------------------------------
(* _process_batches.                                                       *)

(* Faulty variant: the item that completes a batch is left out of it. *)
CollectShort(t) ==
    /\ wpc[t] = "collect" /\ queue # << >>
    /\ queue' = Tail(queue)
    /\ IF Len(inputs[t]) + 1 = BatchSize
       THEN wpc' = [wpc EXCEPT ![t] = "run"] /\ UNCHANGED inputs
       ELSE inputs' = [inputs EXCEPT ![t] = Append(@, Head(queue))] /\ UNCHANGED wpc
    /\ UNCHANGED <<pc, nth, future, returned, thread, at>>

(* Faulty variant: one item too many. *)
CollectPast(t) ==
    /\ wpc[t] = "collect" /\ queue # << >>
    /\ inputs' = [inputs EXCEPT ![t] = Append(@, Head(queue))]
    /\ queue' = Tail(queue)
    /\ wpc' = IF Len(inputs'[t]) > BatchSize
              THEN [wpc EXCEPT ![t] = "run"] ELSE wpc
    /\ UNCHANGED <<pc, nth, future, returned, thread, at>>

Collect(t) ==
    /\ wpc[t] = "collect"
    /\ queue # << >>
    /\ inputs' = [inputs EXCEPT ![t] = Append(@, Head(queue))]
    /\ queue' = Tail(queue)
    /\ wpc' = IF Len(inputs'[t]) = BatchSize
              THEN [wpc EXCEPT ![t] = "run"] ELSE wpc
    /\ UNCHANGED <<pc, nth, future, returned, thread, at>>

(* Empty: two seconds without a request. *)
GiveUpWaiting(t) ==
    /\ wpc[t] = "collect"
    /\ queue = << >>
    /\ inputs[t] # << >>
    /\ wpc' = [wpc EXCEPT ![t] = "run"]
    /\ UNCHANGED <<pc, nth, future, returned, thread, queue, inputs, at>>

(* set_exception on every future, in order: the first one that is already  *)
(* resolved raises InvalidStateError, which ends the thread.               *)
Propagate(t) ==
    LET resolved == {i \in DOMAIN inputs[t] : future[inputs[t][i]] # Pending}
        reached == {i \in DOMAIN inputs[t] : \A j \in resolved : i < j}
    IN  /\ future' = [q \in Request |->
                         IF \E i \in reached : inputs[t][i] = q
                         THEN Failure(q) ELSE future[q]]
        /\ wpc' = [wpc EXCEPT ![t] = IF resolved = {} THEN "collect" ELSE "dead"]
        /\ inputs' = [inputs EXCEPT ![t] = IF resolved = {} THEN << >> ELSE @]

Infer(t) ==
    /\ wpc[t] = "run"
    /\ wpc' = [wpc EXCEPT ![t] = "deliver"]
    /\ at' = [at EXCEPT ![t] = 1]
    /\ UNCHANGED <<pc, nth, future, returned, thread, queue, inputs>>

(* Faulty variant: a failed batch is forgotten. *)
InferFailsQuietly(t) ==
    /\ wpc[t] = "run"
    /\ wpc' = [wpc EXCEPT ![t] = "collect"]
    /\ inputs' = [inputs EXCEPT ![t] = << >>]
    /\ UNCHANGED <<pc, nth, future, returned, thread, queue, at>>

InferFails(t) ==
    /\ wpc[t] = "run"
    /\ Propagate(t)
    /\ UNCHANGED <<pc, nth, returned, thread, queue, at>>

(* Faulty variant: results are delivered from the end. *)
DeliverReversed(t) ==
    /\ wpc[t] = "deliver"
    /\ LET n == Len(inputs[t])
           over == at[t] = n
       IN  /\ future' = [future EXCEPT ![inputs[t][at[t]]] =
                             Result(inputs[t][n + 1 - at[t]])]
           /\ wpc' = IF over THEN [wpc EXCEPT ![t] = "collect"] ELSE wpc
           /\ inputs' = IF over THEN [inputs EXCEPT ![t] = << >>] ELSE inputs
           /\ at' = IF over THEN at ELSE [at EXCEPT ![t] = @ + 1]
    /\ UNCHANGED <<pc, nth, returned, thread, queue>>

(* completions[i] resolves the i-th future. *)
Deliver(t) ==
    /\ wpc[t] = "deliver"
    /\ LET q == inputs[t][at[t]]
           over == at[t] = Len(inputs[t])
       IN  /\ future' = [future EXCEPT ![q] = Result(q)]
           /\ wpc' = IF over THEN [wpc EXCEPT ![t] = "collect"] ELSE wpc
           /\ inputs' = IF over THEN [inputs EXCEPT ![t] = << >>] ELSE inputs
           /\ at' = IF over THEN at ELSE [at EXCEPT ![t] = @ + 1]
    /\ UNCHANGED <<pc, nth, returned, thread, queue>>

(* The i-th completion cannot be converted: those before it are resolved.  *)
ConvertFails(t) ==
    /\ wpc[t] = "deliver"
    /\ Propagate(t)
    /\ UNCHANGED <<pc, nth, returned, thread, queue, at>>

Caller(c) == Check(c) \/ Create(c) \/ Start(c) \/ Put(c) \/ Wake(c)
Worker(t) == \/ Collect(t) \/ GiveUpWaiting(t) \/ Infer(t) \/ InferFails(t)
             \/ Deliver(t) \/ ConvertFails(t)

Next == \E c \in Callers : Caller(c) \/ Worker(c)

Spec == Init /\ [][Next]_vars

(* Threads are scheduled fairly, and the two-second timeout fires. *)
FairSpec == Spec /\ \A c \in Callers : WF_vars(Caller(c)) /\ WF_vars(Worker(c))

-----------------------------------------------------------------------------
(* Types of the callers' and the background threads' state. *)
TypeOK ==
    /\ pc \in [Callers -> {"check", "create", "start", "put", "wait", "done"}]
    /\ nth \in [Callers -> {1, 2}]
    /\ future \in [Request -> Future] /\ returned \in [Request -> Future]
    /\ thread \in Callers \cup {NoThread}
    /\ wpc \in [Callers -> {"none", "new", "collect", "run", "deliver", "dead"}]
    /\ queue \in Seq(Request) /\ inputs \in [Callers -> Seq(Request)]
    /\ \A t \in Callers : at[t] \in 1..BatchSize /\ Len(inputs[t]) <= BatchSize

(* A call of generate returns the completion of its own prompt, also when  *)
(* two background threads serve the queue.                                 *)
OwnResult == \A q \in Request : returned[q] # Pending => returned[q].of = q

Waiting(c) == pc[c] = "wait" /\ future[Now(c)] = Pending

HeldBy(q) == {t \in Callers : q \in ToSet(inputs[t])}

Dead == {t \in Callers : wpc[t] = "dead"}

(* A caller blocked on its future has its request in the queue or in the   *)
(* hands of exactly one background thread, alive or dead: no two threads   *)
(* deliver to the same future and no request is dropped on the way.        *)
SomeoneHolds ==
    TypeOK /\ \A c \in Callers : Waiting(c) =>
        IF Now(c) \in ToSet(queue) THEN HeldBy(Now(c)) = {}
        ELSE Cardinality(HeldBy(Now(c))) = 1

(* If batch processing fails, the error reaches all waiting futures: every *)
(* call of generate returns or raises, as long as no background thread     *)
(* dies.                                                                   *)
EveryCallEndsUnlessDead == <>(Dead # {} \/ \A c \in Callers : pc[c] = "done")
=============================================================================

------------------------ MODULE AsyncRolloutProofs ------------------------
(***************************************************************************)
(* Proofs about AsyncRollout for every number of ranks, steps, micro steps *)
(* and evaluation batches: type correctness and, when at most one          *)
(* evaluation follows a step, that no weights move under a rollout, that a *)
(* batch of completions comes from the one version of the weights that the *)
(* trainer believed loaded when it asked for it, that it is trained on one *)
(* generation later, that the ranks meet in the same collectives, and that *)
(* all this implements RolloutPipeline.                                    *)
(***************************************************************************)
EXTENDS AsyncRollout, SequenceTheorems, TLAPS

TypeInv == TypeOK /\ FlowOK

(* Initially every field has its type and no evaluation has begun.         *)
LEMMA InitTypeInv == Init => TypeInv
  BY MainAssumption, StepAssumption, EvalAssumption
  DEF Init, TypeInv, TypeOK, FlowOK, Version, Modes, GatherPoints,
      InGeneration, Nothing, NotLoaded, Idle, Task, Result

(* What a call of either thread answers is a result.                       *)
LEMMA AnswerType ==
  ASSUME NEW r, NEW t, t.seq \in Nat, t.asked \in Int, t.of \in Nat,
         NEW v \in Int
  PROVE  Answer(r, t, v) \in Result
  BY DEF Answer, Result

LEMMA SampledFromType ==
  ASSUME NEW v \in Int
  PROVE  SampledFrom(v) \in Int
  BY DEF SampledFrom, Mixed

(* A batch handed to the rollout is a task.                                *)
LEMMA NewTaskType ==
  ASSUME TypeOK, NEW r \in Ranks
  PROVE  NewTask(r) \in Task /\ Mode(r) \in Modes
  <1>1. Mode(r) \in Modes
    BY DEF Mode, Modes
  <1>2. asks[r][Mode(r)] \in Nat /\ lastLoaded[r] \in Int
    BY <1>1 DEF TypeOK
  <1>3. CurrentBatch(r) \in Nat
    <2>1. micro[r] \in Nat /\ evalIdx[r] \in Nat
      BY DEF TypeOK
    <2>2. micro[r] \div GenEvery \in Nat
      BY <2>1, StepAssumption
    <2> QED BY <2>1, <2>2 DEF CurrentBatch
  <1> QED BY <1>1, <1>2, <1>3 DEF NewTask, Task

(* The executor puts a result on the queue it captured: types are kept.    *)
LEMMA PutResultType ==
  ASSUME TypeOK, NEW r \in Ranks, tasks[r] # << >>, NEW v \in Int,
         PutResult(r, v)
  PROVE  /\ queue' \in [Ranks -> [Modes -> Seq(Result)]]
         /\ tasks' \in [Ranks -> Seq(Task)]
  <1> DEFINE t == Head(tasks[r])
  <1>1. tasks[r] \in Seq(Task) /\ t \in Task /\ Tail(tasks[r]) \in Seq(Task)
    BY DEF TypeOK
  <1>2. t.mode \in Modes /\ Answer(r, t, v) \in Result
    BY <1>1, AnswerType DEF Task
  <1>3. Append(queue[r][t.mode], Answer(r, t, v)) \in Seq(Result)
    BY <1>2 DEF TypeOK
  <1>4. tasks' = [tasks EXCEPT ![r] = Tail(@)]
    BY DEF PutResult
  <1>5. queue' = [queue EXCEPT ![r][t.mode] = Append(@, Answer(r, t, v))]
    BY DEF PutResult
  <1>6. tasks' \in [Ranks -> Seq(Task)]
    BY <1>1, <1>4 DEF TypeOK
  <1>7. queue' \in [Ranks -> [Modes -> Seq(Result)]]
    BY <1>2, <1>3, <1>5 DEF TypeOK
  <1> QED BY <1>6, <1>7

(* No step of a rank, of the executor or of a collective breaks a type.    *)
LEMMA NextTypeInv == TypeInv /\ [Next]_vars => TypeInv'
  <1> SUFFICES ASSUME TypeInv, [Next]_vars PROVE TypeInv'
    OBVIOUS
  <1> USE DEF TypeInv, clock, flow, data, server
  <1>1. CASE GatherObject
    <2>1. \A r \in Ranks : NewTask(r) \in Task /\ Mode(r) \in Modes
      BY NewTaskType
    <2>2. tasks' \in [Ranks -> Seq(Task)]
      BY <1>1, <2>1 DEF GatherObject, TypeOK
    <2>3. asks' \in [Ranks -> [Modes -> Nat]]
      <3>1. \A r \in Ranks : [asks[r] EXCEPT ![Mode(r)] = @ + 1]
                               \in [Modes -> Nat]
        BY <2>1 DEF TypeOK
      <3> QED BY <1>1, <3>1 DEF GatherObject, TypeOK
    <2>4. /\ buffer' \in [Ranks -> Result \union {Nothing}]
          /\ scored' \in [Ranks -> Result \union {Nothing}]
      BY <1>1, MainAssumption DEF GatherObject, TypeOK
    <2>5. evalIdx' \in [Ranks -> Nat]
      BY <1>1 DEF GatherObject, TypeOK
    <2>6. TypeOK'
      BY <1>1, <2>2, <2>3, <2>4, <2>5
      DEF GatherObject, TypeOK, AfterGather, GatherPoints
    <2>7. started' # Idle => tasks'[Main] # << >>
      <3>1. tasks[Main] \in Seq(Task) /\ NewTask(Main) \in Task
        BY <2>1, MainAssumption DEF TypeOK
      <3>2. Append(tasks[Main], NewTask(Main)) # << >>
        BY <3>1, AppendProperties
      <3>3. \/ tasks'[Main] = tasks[Main]
            \/ tasks'[Main] = Append(tasks[Main], NewTask(Main))
        <4>1. tasks' = [r \in Ranks |-> IF pc[r] = "genGather"
                                        THEN Append(tasks[r], NewTask(r))
                                        ELSE tasks[r]]
          BY <1>1 DEF GatherObject
        <4> QED BY <4>1, MainAssumption
      <3>4. started' = started
        BY <1>1 DEF GatherObject
      <3>5. started # Idle => tasks[Main] # << >>
        BY DEF FlowOK
      <3> QED BY <3>2, <3>3, <3>4, <3>5
    <2>8. FlowOK'
      BY <1>1, <2>7 DEF GatherObject, TypeOK, AfterGather, GatherPoints,
                        FlowOK, InGeneration
    <2> QED BY <2>6, <2>8
  <1>2. CASE Backward
    <2>1. \A r \in Ranks : step[r] \in Version /\ step[r] < MaxStep
      BY <1>2 DEF Backward, TypeOK, FlowOK
    <2>2. step' \in [Ranks -> Version]
      BY <1>2, <2>1, StepAssumption DEF Backward, TypeOK, Version
    <2>3. evalsLeft' \in [Ranks -> Nat]
      <3>1. \A r \in Ranks : EvalsAfter[step'[r]] \in Nat
        BY <2>2, EvalAssumption DEF Version
      <3> QED BY <1>2, <3>1 DEF Backward, TypeOK
    <2>4. shouldEval' \in [Ranks -> BOOLEAN]
      BY <1>2 DEF Backward
    <2>5. micro' \in [Ranks -> Nat]
      BY <1>2 DEF Backward, TypeOK
    <2>6. \A r \in Ranks : pc'[r] = AfterStep(step'[r], evalsLeft'[r])
      BY <1>2 DEF Backward
    <2>7. TypeOK'
      BY <1>2, <2>2, <2>3, <2>4, <2>5 DEF Backward, TypeOK, AfterStep
    <2>8. FlowOK'
      BY <1>2, <2>2, <2>3, <2>6, StepAssumption
      DEF Backward, TypeOK, FlowOK, AfterStep, GatherPoints, InGeneration,
          Version
    <2> QED BY <2>7, <2>8
  <1>3. CASE MainLoad
    <2>1. CASE BeginLoad
      BY <2>1, MainAssumption DEF BeginLoad, MayLoad, TypeOK, FlowOK, Mixed,
                                  InGeneration, GatherPoints
    <2>2. CASE EndLoad
      BY <2>2, MainAssumption DEF EndLoad, AfterLoad, TypeOK, FlowOK, Version,
                                  InGeneration, GatherPoints
    <2>3. CASE SkipLoad
      BY <2>3, MainAssumption DEF SkipLoad, MayLoad, AfterLoad, TypeOK, FlowOK,
                                  Version, InGeneration, GatherPoints
    <2> QED BY <1>3, <2>1, <2>2, <2>3 DEF MainLoad
  <1>4. CASE Executor
    <2>1. CASE StartInfer
      BY <2>1 DEF StartInfer, TypeOK, FlowOK
    <2>2. CASE FinishInfer
      <3>1. SampledFrom(started) \in Int
        BY SampledFromType DEF TypeOK
      <3>2. /\ queue' \in [Ranks -> [Modes -> Seq(Result)]]
            /\ tasks' \in [Ranks -> Seq(Task)]
        BY <2>2, <3>1, PutResultType, MainAssumption DEF FinishInfer, FlowOK
      <3> QED BY <2>2, <3>2 DEF FinishInfer, TypeOK, FlowOK, Idle
    <2>3. CASE FailInfer
      <3>1. Tail(tasks[Main]) \in Seq(Task)
        BY <2>3, MainAssumption DEF FailInfer, TypeOK, FlowOK
      <3>2. tasks' \in [Ranks -> Seq(Task)] /\ started' = Idle
        BY <2>3, <3>1, MainAssumption DEF FailInfer, TypeOK
      <3> QED BY <2>3, <3>2 DEF FailInfer, TypeOK, FlowOK, Idle
    <2>4. ASSUME NEW r \in Ranks, FollowInfer(r) PROVE TypeInv'
      <3>1. /\ queue' \in [Ranks -> [Modes -> Seq(Result)]]
            /\ tasks' \in [Ranks -> Seq(Task)]
        BY <2>4, PutResultType DEF FollowInfer, Mixed
      <3>2. tasks'[Main] = tasks[Main]
        BY <2>4, MainAssumption DEF FollowInfer, PutResult, TypeOK
      <3> QED BY <2>4, <3>1, <3>2 DEF FollowInfer, TypeOK, FlowOK
    <2> QED BY <1>4, <2>1, <2>2, <2>3, <2>4 DEF Executor
  <1>5. CASE Exit
    BY <1>5 DEF Exit, vars, TypeOK, FlowOK
  <1>6. ASSUME NEW r \in Ranks, RankStep(r) PROVE TypeInv'
    <2>1. CASE FollowLoad(r)
      BY <2>1 DEF FollowLoad, MayLoad, AfterLoad, TypeOK, FlowOK, Version,
                  InGeneration, GatherPoints
    <2>2. CASE PrefetchInfer(r)
      <3> DEFINE a == Answer(r, NewTask(r), SampledFrom(weights))
      <3>1. a \in Result /\ Mode(r) \in Modes
        BY NewTaskType, AnswerType, SampledFromType DEF Task, TypeOK
      <3>2. queue' \in [Ranks -> [Modes -> Seq(Result)]]
        <4>1. Append(queue[r][Mode(r)], a) \in Seq(Result)
          BY <3>1 DEF TypeOK
        <4> QED BY <2>2, <3>1, <4>1 DEF PrefetchInfer, TypeOK
      <3>3. asks' \in [Ranks -> [Modes -> Nat]]
        BY <2>2, <3>1 DEF PrefetchInfer, TypeOK
      <3>4. TypeOK'
        BY <2>2, <3>2, <3>3
        DEF PrefetchInfer, TypeOK, AfterStep, GatherPoints
      <3>5. FlowOK'
        BY <2>2, StepAssumption DEF PrefetchInfer, TypeOK, FlowOK, AfterStep,
                                    GatherPoints, InGeneration, Version
      <3> QED BY <3>4, <3>5
    <2>3. CASE StartMicroStep(r)
      BY <2>3 DEF StartMicroStep, TypeOK, FlowOK, InGeneration, GatherPoints
    <2>4. CASE GetResult(r)
      <3>1. Mode(r) \in Modes
        BY DEF Mode, Modes
      <3>2. /\ queue[r][Mode(r)] \in Seq(Result)
            /\ queue[r][Mode(r)] # << >>
        BY <2>4, <3>1 DEF GetResult, Queue, TypeOK
      <3>3. /\ Head(queue[r][Mode(r)]) \in Result
            /\ Tail(queue[r][Mode(r)]) \in Seq(Result)
        BY <3>2
      <3> QED BY <2>4, <3>1, <3>3 DEF GetResult, Queue, TypeOK, FlowOK,
                                      InGeneration, GatherPoints
    <2>5. CASE BeginEval(r)
      BY <2>5 DEF BeginEval, TypeOK, FlowOK, InGeneration, GatherPoints
    <2>6. CASE EvalBatch(r)
      BY <2>6 DEF EvalBatch, TypeOK, FlowOK, InGeneration, GatherPoints
    <2>7. CASE EndEval(r)
      <3>1. evalsLeft[r] \in Nat /\ evalsLeft[r] > 0 /\ step[r] \in 0..MaxStep
        BY <2>7 DEF EndEval, TypeOK, FlowOK, Version
      <3>2. TypeOK'
        BY <2>7, <3>1 DEF EndEval, TypeOK, AfterStep
      <3>3. FlowOK'
        BY <2>7, <3>1, StepAssumption
        DEF EndEval, TypeOK, FlowOK, AfterStep, InGeneration, GatherPoints
      <3> QED BY <3>2, <3>3
    <2> QED BY <1>6, <2>1, <2>2, <2>3, <2>4, <2>5, <2>6, <2>7 DEF RankStep
  <1>7. CASE UNCHANGED vars
    BY <1>7 DEF vars, TypeOK, FlowOK
  <1> QED BY <1>1, <1>2, <1>3, <1>4, <1>5, <1>6, <1>7 DEF Next

(* Type correctness of the asynchronous rollout: whatever the number of    *)
(* ranks, steps and evaluations, every field keeps its type.               *)
THEOREM TypeCorrect == Spec => []TypeOK
  <1>1. Init => TypeInv
    BY InitTypeInv
  <1>2. TypeInv /\ [Next]_vars => TypeInv'
    BY NextTypeInv
  <1>3. TypeInv => TypeOK
    BY DEF TypeInv
  <1> QED BY <1>1, <1>2, <1>3, PTL DEF Spec

-----------------------------------------------------------------------------
(* What the main rank's rollout owes it is counted on its own executor and *)
(* queues alone.                                                           *)
LEMMA OwesFrame ==
  ASSUME tasks'[Main] = tasks[Main], queue'[Main] = queue[Main],
         NEW m, NEW n, Owes(m, n)
  PROVE  Owes(m, n)'
  BY DEF Owes

(* A batch that leaves the executor, answered or failed, is owed no more;  *)
(* one that is answered is on the queue of its mode.                       *)
LEMMA OwesAnswer ==
  ASSUME TypeOK, tasks[Main] # << >>, NEW m \in Modes, NEW n \in Nat,
         Owes(m, n), NEW v, PutResult(Main, v), TypeOK'
  PROVE  Owes(m, n)'
  <1> DEFINE t == Head(tasks[Main])
             a == Answer(Main, t, v)
  <1>1. /\ tasks[Main] \in Seq(Task) /\ queue[Main] \in [Modes -> Seq(Result)]
        /\ tasks'[Main] \in Seq(Task)
        /\ queue'[Main] \in [Modes -> Seq(Result)]
    BY MainAssumption DEF TypeOK
  <1>2. /\ t = tasks[Main][1]
        /\ tasks'[Main] = Tail(tasks[Main])
    BY <1>1, MainAssumption DEF PutResult, TypeOK
  <1>3. t.mode = m
    BY <1>1, <1>2 DEF Owes
  <1>4. /\ queue'[Main][m] = Append(queue[Main][m], a)
        /\ \A o \in Modes : o # m => queue'[Main][o] = queue[Main][o]
    BY <1>1, <1>3, MainAssumption DEF PutResult, TypeOK
  <1>5. /\ Len(tasks'[Main]) = Len(tasks[Main]) - 1
        /\ \A i \in 1..Len(tasks'[Main]) :
              tasks'[Main][i] = tasks[Main][i + 1]
    BY <1>1, <1>2, HeadTailProperties
  <1>6. Len(queue'[Main][m]) = Len(queue[Main][m]) + 1
    BY <1>1, <1>4
  <1>7. \A i \in 1..Len(tasks'[Main]) : tasks'[Main][i].mode = m
    BY <1>1, <1>5 DEF Owes
  <1>8. Len(tasks'[Main]) + Len(queue'[Main][m]) <= n
    <2> DEFINE held == Len(tasks[Main])     ready == Len(queue[Main][m])
               held2 == Len(tasks'[Main])   ready2 == Len(queue'[Main][m])
    <2>1. held \in Nat /\ ready \in Nat
      BY <1>1, LenProperties
    <2>2. held + ready <= n
      BY DEF Owes
    <2>3. held2 = held - 1 /\ ready2 = ready + 1
      BY <1>5, <1>6
    <2>4. held2 + ready2 <= n
      <3> HIDE DEF held, ready, held2, ready2
      <3> QED BY <2>1, <2>2, <2>3
    <2> QED BY <2>4
  <1> QED BY <1>4, <1>7, <1>8 DEF Owes

LEMMA OwesFail ==
  ASSUME TypeOK, tasks[Main] # << >>, NEW m \in Modes, NEW n \in Nat,
         Owes(m, n), tasks'[Main] = Tail(tasks[Main]),
         queue'[Main] = queue[Main]
  PROVE  Owes(m, n)'
  <1>1. /\ tasks[Main] \in Seq(Task)
        /\ Len(queue[Main][m]) \in Nat
    BY MainAssumption DEF TypeOK
  <1>2. /\ Len(tasks'[Main]) = Len(tasks[Main]) - 1
        /\ \A i \in 1..Len(tasks'[Main]) :
              tasks'[Main][i] = tasks[Main][i + 1]
    BY <1>1, HeadTailProperties
  <1>3. \A i \in 1..Len(tasks'[Main]) : tasks'[Main][i].mode = m
    BY <1>1, <1>2 DEF Owes
  <1>4. Len(tasks'[Main]) + Len(queue'[Main][m]) <= n
    <2> DEFINE held == Len(tasks[Main])     ready == Len(queue[Main][m])
               held2 == Len(tasks'[Main])   ready2 == Len(queue'[Main][m])
    <2>1. held \in Nat /\ ready \in Nat
      BY <1>1, LenProperties
    <2>2. held + ready <= n
      BY DEF Owes
    <2>3. held2 = held - 1 /\ ready2 = ready
      BY <1>2
    <2>4. held2 + ready2 <= n
      <3> HIDE DEF held, ready, held2, ready2
      <3> QED BY <2>1, <2>2, <2>3
    <2> QED BY <2>4
  <1> QED BY <1>3, <1>4 DEF Owes

(* Submitting to the executor owes one batch more.                         *)
LEMMA OwesSubmit ==
  ASSUME TypeOK, NEW t \in Task, Owes(t.mode, 1), t.mode \in Modes,
         tasks'[Main] = Append(tasks[Main], t), queue'[Main] = queue[Main]
  PROVE  Owes(t.mode, 2)'
  <1> DEFINE held == Len(tasks[Main])     ready == Len(queue[Main][t.mode])
             held2 == Len(tasks'[Main])
  <1>1. /\ tasks[Main] \in Seq(Task)
        /\ queue[Main][t.mode] \in Seq(Result)
    BY MainAssumption DEF TypeOK
  <1>2. /\ held2 = held + 1
        /\ \A i \in 1..held : tasks'[Main][i] = tasks[Main][i]
        /\ tasks'[Main][held + 1] = t
    BY <1>1, AppendProperties
  <1>3. held \in Nat /\ ready \in Nat
    BY <1>1, LenProperties
  <1>4. held2 + ready <= 2
    <2>1. held + ready <= 1
      BY DEF Owes
    <2> HIDE DEF held, ready, held2
    <2> QED BY <1>2, <1>3, <2>1
  <1>5. \A i \in 1..held2 : tasks'[Main][i].mode = t.mode
    <2>1. \A i \in 1..held : tasks[Main][i].mode = t.mode
      BY DEF Owes
    <2>2. \A i \in 1..held2 : i \in 1..held \/ i = held + 1
      <3> HIDE DEF held, held2
      <3> QED BY <1>2, <1>3
    <2> HIDE DEF held, held2
    <2> QED BY <1>2, <2>1, <2>2, Zenon
  <1> QED BY <1>4, <1>5 DEF Owes

(* Taking a result from the queue owes one batch less.                     *)
LEMMA OwesTake ==
  ASSUME TypeOK, NEW m \in Modes, Owes(m, 2), queue[Main][m] # << >>,
         tasks'[Main] = tasks[Main],
         queue'[Main] = [queue[Main] EXCEPT ![m] = Tail(@)]
  PROVE  Owes(m, 1)'
  <1> DEFINE held == Len(tasks[Main])     ready == Len(queue[Main][m])
             ready2 == Len(queue'[Main][m])
  <1>1. /\ tasks[Main] \in Seq(Task)
        /\ queue[Main] \in [Modes -> Seq(Result)]
    BY MainAssumption DEF TypeOK
  <1>2. held \in Nat /\ ready \in Nat
    BY <1>1, LenProperties
  <1>3. /\ queue'[Main][m] = Tail(queue[Main][m])
        /\ \A o \in Modes : o # m => queue'[Main][o] = queue[Main][o]
    BY <1>1
  <1>4. ready2 = ready - 1
    BY <1>1, <1>3, HeadTailProperties
  <1>5. held + ready2 <= 1
    <2>1. held + ready <= 2
      BY DEF Owes
    <2> HIDE DEF held, ready, ready2
    <2> QED BY <1>2, <1>4, <2>1
  <1> QED BY <1>3, <1>5 DEF Owes

(* A queue that is not empty holds the one batch owed: the executor is     *)
(* done. This is what _wait_queue and the two waits of an evaluation test. *)
LEMMA OwesNothing ==
  ASSUME TypeOK, NEW m \in Modes, Owes(m, 1), queue[Main][m] # << >>
  PROVE  tasks[Main] = << >> /\ \A o \in Modes : Len(queue[Main][o]) <= 1
  <1> DEFINE held == Len(tasks[Main])     ready == Len(queue[Main][m])
  <1>1. /\ tasks[Main] \in Seq(Task)
        /\ queue[Main][m] \in Seq(Result)
    BY MainAssumption DEF TypeOK
  <1>2. held \in Nat /\ ready \in Nat /\ ready # 0
    BY <1>1, LenProperties, EmptySeq
  <1>3. held + ready <= 1
    BY DEF Owes
  <1>4. held = 0 /\ ready <= 1
    <2> HIDE DEF held, ready
    <2> QED BY <1>2, <1>3
  <1>5. tasks[Main] = << >>
    BY <1>1, <1>4, EmptySeq
  <1> QED BY <1>4, <1>5 DEF Owes

LEMMA OwesIdle ==
  ASSUME tasks'[Main] = << >>, \A o \in Modes : Len(queue'[Main][o]) <= 1,
         TypeOK', NEW m \in Modes
  PROVE  Owes(m, 1)'
  <1> DEFINE held == Len(tasks'[Main])     ready == Len(queue'[Main][m])
  <1>1. held = 0 /\ ready \in Nat /\ ready <= 1
    BY MainAssumption, LenProperties, EmptySeq DEF TypeOK
  <1>2. held + ready <= 1
    <2> HIDE DEF held, ready
    <2> QED BY <1>1
  <1>3. \A i \in 1..held : tasks'[Main][i].mode = m
    <2> HIDE DEF held
    <2> QED BY <1>1
  <1> QED BY <1>2, <1>3 DEF Owes

-----------------------------------------------------------------------------
IInv == TypeInv /\ OneAhead

LEMMA InitOneAhead == OneEvaluation /\ Init => OneAhead
  BY MainAssumption, StepAssumption, EvalAssumption
  DEF Init, OneAhead, OneEvaluation, Owes, Modes, Idle, InGeneration, Version

(* A step that leaves the main rank's thread where it is, and owes it no   *)
(* more than before, keeps OneAhead.                                       *)
LEMMA OneAheadFrame ==
  ASSUME OneAhead,
         pc'[Main] = pc[Main], shouldEval'[Main] = shouldEval[Main],
         inEval'[Main] = inEval[Main], evalFlag'[Main] = evalFlag[Main],
         evalsLeft'[Main] = evalsLeft[Main],
         \A m \in Modes, n \in {1, 2} : Owes(m, n) => Owes(m, n)',
         tasks[Main] = << >> =>
            tasks'[Main] = tasks[Main] /\ queue'[Main] = queue[Main]
  PROVE  OneAhead'
  <1>1. Mode(Main)' = Mode(Main) /\ Mode(Main) \in Modes
    BY DEF Mode, Modes
  <1>2. "train" \in Modes /\ "eval" \in Modes
    BY DEF Modes
  <1> QED BY <1>1, <1>2 DEF OneAhead

LEMMA ExecutorOneAhead ==
  ASSUME TypeInv, OneAhead, Executor, TypeInv'
  PROVE  OneAhead'
  <1> USE DEF TypeInv, flow
  <1>1. CASE StartInfer
    BY <1>1, OneAheadFrame, OwesFrame DEF StartInfer
  <1>2. CASE FinishInfer
    <2>1. tasks[Main] # << >>
      BY <1>2 DEF FinishInfer, FlowOK
    <2>2. PutResult(Main, SampledFrom(started))
      BY <1>2 DEF FinishInfer
    <2>3. \A m \in Modes, n \in {1, 2} : Owes(m, n) => Owes(m, n)'
      BY <2>1, <2>2, OwesAnswer
    <2> QED BY <1>2, <2>1, <2>3, OneAheadFrame DEF FinishInfer
  <1>3. CASE FailInfer
    <2>1. tasks[Main] # << >>
      BY <1>3 DEF FailInfer, FlowOK
    <2>2. tasks'[Main] = Tail(tasks[Main]) /\ queue' = queue
      BY <1>3, MainAssumption DEF FailInfer, TypeOK
    <2>3. \A m \in Modes, n \in {1, 2} : Owes(m, n) => Owes(m, n)'
      BY <2>1, <2>2, OwesFail
    <2> QED BY <1>3, <2>1, <2>3, OneAheadFrame DEF FailInfer
  <1>4. ASSUME NEW r \in Ranks, FollowInfer(r) PROVE OneAhead'
    <2>1. tasks'[Main] = tasks[Main] /\ queue'[Main] = queue[Main]
      BY <1>4, MainAssumption DEF FollowInfer, PutResult, TypeOK
    <2> QED BY <1>4, <2>1, OneAheadFrame, OwesFrame DEF FollowInfer
  <1> QED BY <1>1, <1>2, <1>3, <1>4 DEF Executor

LEMMA LoadOneAhead ==
  ASSUME TypeInv, OneAhead, MainLoad
  PROVE  OneAhead'
  <1> USE DEF TypeInv, flow, InGeneration
  <1>1. tasks' = tasks /\ queue' = queue
    BY DEF MainLoad, BeginLoad, EndLoad, SkipLoad
  <1>2. \A m \in Modes, n \in {1, 2} : Owes(m, n) => Owes(m, n)'
    BY <1>1, OwesFrame
  <1>3. Mode(Main) \in Modes /\ Mode(Main)' = Mode(Main)
    BY DEF Mode, Modes, MainLoad, BeginLoad, EndLoad, SkipLoad
  <1>4. CASE BeginLoad
    <2>1. CASE pc[Main] = "genLoad"
      <3>1. Owes(Mode(Main), 1) /\ queue[Main][Mode(Main)] # << >>
        BY <1>4, <2>1 DEF BeginLoad, MayLoad, Queue, OneAhead
      <3>2. tasks[Main] = << >>
        BY <1>3, <3>1, OwesNothing
      <3>3. pc'[Main] = "genLoading"
        BY <1>4, <2>1, MainAssumption DEF BeginLoad, TypeOK
      <3> QED BY <1>1, <1>2, <1>3, <1>4, <2>1, <3>1, <3>2, <3>3
              DEF BeginLoad, OneAhead
    <2>2. CASE pc[Main] = "prefetchLoad"
      <3>1. pc'[Main] = "prefetchLoading"
        BY <1>4, <2>2, MainAssumption DEF BeginLoad, TypeOK
      <3> QED BY <1>1, <1>4, <2>2, <3>1 DEF BeginLoad, OneAhead
    <2> QED BY <1>4, <2>1, <2>2 DEF BeginLoad, MayLoad
  <1>5. CASE EndLoad \/ SkipLoad
    <2>1. CASE pc[Main] \in {"genLoad", "genLoading"}
      <3>1. pc'[Main] = "genGather"
        BY <1>5, <2>1, MainAssumption
        DEF EndLoad, SkipLoad, AfterLoad, TypeOK
      <3>2. Owes(Mode(Main), 1)
        BY <2>1 DEF OneAhead
      <3> QED BY <1>2, <1>3, <1>5, <2>1, <3>1, <3>2
              DEF EndLoad, SkipLoad, OneAhead
    <2>2. CASE pc[Main] \in {"prefetchLoad", "prefetchLoading"}
      <3>1. pc'[Main] = "prefetchInfer"
        BY <1>5, <2>2, MainAssumption
        DEF EndLoad, SkipLoad, AfterLoad, TypeOK
      <3> QED BY <1>1, <1>5, <2>2, <3>1 DEF EndLoad, SkipLoad, OneAhead
    <2> QED BY <1>5, <2>1, <2>2 DEF EndLoad, SkipLoad, MayLoad
  <1> QED BY <1>4, <1>5 DEF MainLoad

LEMMA CollectiveOneAhead ==
  ASSUME TypeInv, OneAhead, OneEvaluation, GatherObject \/ Backward, TypeInv'
  PROVE  OneAhead'
  <1> USE MainAssumption DEF TypeInv, flow, InGeneration
  <1>1. PICK m \in Modes : Mode(Main) = m
    BY DEF Mode, Modes
  <1>2. CASE GatherObject
    <2>1. /\ pc'[Main] = AfterGather(Main) /\ pc[Main] \in GatherPoints
          /\ queue' = queue
          /\ shouldEval' = shouldEval /\ inEval' = inEval
          /\ evalFlag' = evalFlag /\ evalsLeft' = evalsLeft
      BY <1>2 DEF GatherObject
    <2>2. Mode(Main)' = m
      BY <1>1, <2>1 DEF Mode
    <2>3. tasks' = [r \in Ranks |-> IF pc[r] = "genGather"
                                    THEN Append(tasks[r], NewTask(r))
                                    ELSE tasks[r]]
      BY <1>2 DEF GatherObject
    <2>4. CASE pc[Main] = "genGather"
      <3>1. PICK t \in Task : t = NewTask(Main) /\ t.mode = m
        BY <1>1, NewTaskType DEF NewTask
      <3>2. Owes(m, 1)
        BY <1>1, <2>4 DEF OneAhead
      <3>3. Owes(m, 2)'
        <4>1. tasks'[Main] = Append(tasks[Main], t)
          BY <2>3, <2>4, <3>1
        <4> QED BY <1>1, <2>1, <3>1, <3>2, <4>1, OwesSubmit
      <3>4. pc'[Main] = "genGet"
        BY <2>1, <2>4 DEF AfterGather
      <3> QED BY <2>1, <2>2, <2>4, <3>3, <3>4 DEF OneAhead
    <2>5. CASE pc[Main] # "genGather"
      <3>1. tasks'[Main] = tasks[Main]
        BY <2>3, <2>5
      <3>2. CASE pc[Main] = "prefetchGather"
        BY <2>1, <3>1, <3>2 DEF AfterGather, OneAhead
      <3>3. CASE pc[Main] = "resGather"
        <4>1. Owes(m, 1)'
          BY <1>1, <2>1, <3>1, <3>3, OwesFrame DEF OneAhead
        <4>2. pc'[Main] \in {"evalNext", "backward"}
          BY <2>1, <3>3 DEF AfterGather
        <4> QED BY <2>1, <2>2, <3>3, <4>1, <4>2 DEF OneAhead
      <3> QED BY <2>1, <2>5, <3>2, <3>3 DEF GatherPoints
    <2> QED BY <2>4, <2>5
  <1>3. CASE Backward
    <2>1. /\ pc[Main] = "backward" /\ tasks' = tasks /\ queue' = queue
          /\ pc'[Main] = AfterStep(step'[Main], evalsLeft'[Main])
          /\ shouldEval'[Main] = (evalsLeft'[Main] > 0)
      BY <1>3 DEF Backward
    <2>2. Owes("train", 1)
      BY <2>1 DEF OneAhead, FlowOK, Mode
    <2>3. Owes("train", 1)'
      BY <2>1, <2>2, OwesFrame
    <2>4. step'[Main] \in Version /\ evalsLeft'[Main] \in Nat
      BY DEF TypeOK
    <2>5. evalsLeft'[Main] \in {EvalsAfter[step'[Main]], 0}
      BY <1>3 DEF Backward
    <2>6. evalsLeft'[Main] <= 1
      BY <2>4, <2>5 DEF OneEvaluation
    <2> QED BY <2>1, <2>3, <2>4, <2>6 DEF AfterStep, OneAhead
  <1> QED BY <1>2, <1>3

(* A step of another rank's thread is none of the main rank's business.    *)
LEMMA OtherRankOneAhead ==
  ASSUME TypeInv, OneAhead, NEW r \in Ranks, r # Main, RankStep(r)
  PROVE  OneAhead'
  <1> USE MainAssumption DEF TypeInv, flow
  <1>1. pc'[Main] = pc[Main]
    BY DEF RankStep, FollowLoad, PrefetchInfer, StartMicroStep, GetResult,
           BeginEval, EvalBatch, EndEval, TypeOK
  <1>2. /\ shouldEval'[Main] = shouldEval[Main]
        /\ inEval'[Main] = inEval[Main] /\ evalFlag'[Main] = evalFlag[Main]
        /\ evalsLeft'[Main] = evalsLeft[Main]
    BY DEF RankStep, FollowLoad, PrefetchInfer, StartMicroStep, GetResult,
           BeginEval, EvalBatch, EndEval, TypeOK
  <1>3. tasks'[Main] = tasks[Main] /\ queue'[Main] = queue[Main]
    BY DEF RankStep, FollowLoad, PrefetchInfer, StartMicroStep, GetResult,
           BeginEval, EvalBatch, EndEval, TypeOK
  <1> QED BY <1>1, <1>2, <1>3, OneAheadFrame, OwesFrame

LEMMA MainRankOneAhead ==
  ASSUME TypeInv, OneAhead, RankStep(Main), TypeInv'
  PROVE  OneAhead'
  <1> USE MainAssumption DEF TypeInv, flow, InGeneration
  <1>1. PICK m \in Modes : Mode(Main) = m
    BY DEF Mode, Modes
  <1>2. "train" \in Modes /\ "eval" \in Modes
    BY DEF Modes
  <1>3. CASE PrefetchInfer(Main)
    <2>1. /\ pc[Main] = "prefetchInfer" /\ tasks' = tasks
          /\ shouldEval' = shouldEval /\ inEval' = inEval
          /\ evalFlag' = evalFlag /\ evalsLeft' = evalsLeft
          /\ pc'[Main] = IF inEval[Main] THEN "evalNext"
                         ELSE AfterStep(step[Main], evalsLeft[Main])
      BY <1>3 DEF PrefetchInfer, TypeOK
    <2>2. tasks'[Main] = << >>
      BY <2>1 DEF OneAhead
    <2>3. \A o \in Modes : Len(queue'[Main][o]) <= 1
      <3> DEFINE a == Answer(Main, NewTask(Main), SampledFrom(weights))
      <3>1. /\ Len(queue[Main]["train"]) <= 1
            /\ queue[Main]["eval"] = << >>
            /\ m = "train" => queue[Main]["train"] = << >>
        BY <1>1, <2>1 DEF OneAhead, Mode
      <3>2. /\ queue'[Main][m] = Append(queue[Main][m], a)
            /\ \A o \in Modes : o # m => queue'[Main][o] = queue[Main][o]
        BY <1>1, <1>2, <1>3 DEF PrefetchInfer, TypeOK
      <3>3. queue[Main][m] = << >>
        BY <3>1 DEF Modes
      <3>4. Len(Append(<< >>, a)) = 1 /\ Len(<< >>) = 0
        OBVIOUS
      <3> HIDE DEF a
      <3>5. Len(queue'[Main][m]) <= 1
        <4>1. Len(queue'[Main][m]) = 1
          BY <3>2, <3>3, <3>4
        <4> QED BY <4>1
      <3>6. \A o \in Modes : o # m => Len(queue'[Main][o]) <= 1
        BY <3>1, <3>2, <3>4 DEF Modes
      <3> QED BY <3>5, <3>6, Zenon
    <2>4. \A o \in Modes : Owes(o, 1)'
      BY <2>2, <2>3, OwesIdle
    <2>5. Mode(Main)' = m
      BY <1>1, <2>1 DEF Mode
    <2> QED BY <1>2, <2>1, <2>2, <2>4, <2>5 DEF OneAhead, AfterStep
  <1>4. CASE StartMicroStep(Main)
    <2>1. /\ pc[Main] = "stepWait" /\ tasks' = tasks /\ queue' = queue
          /\ shouldEval' = shouldEval /\ inEval' = inEval
          /\ evalFlag' = evalFlag /\ evalsLeft' = evalsLeft
          /\ pc'[Main] \in {"backward", "genLoad", "genGather"}
          /\ evalFlag[Main] => queue[Main]["eval"] # << >>
      BY <1>4 DEF StartMicroStep, TypeOK
    <2>2. Owes("train", 1)'
      <3>1. CASE Owes("train", 1)
        BY <2>1, <3>1, OwesFrame
      <3>2. CASE evalFlag[Main] /\ Owes("eval", 1)
        <4>1. tasks[Main] = << >> /\ \A o \in Modes : Len(queue[Main][o]) <= 1
          BY <1>2, <2>1, <3>2, OwesNothing
        <4> QED BY <1>2, <2>1, <4>1, OwesIdle
      <3> QED BY <2>1, <3>1, <3>2 DEF OneAhead
    <2>3. ~shouldEval[Main] /\ Mode(Main)' = "train"
      BY <2>1 DEF OneAhead, Mode
    <2> QED BY <2>1, <2>2, <2>3 DEF OneAhead
  <1>5. CASE GetResult(Main)
    <2>1. /\ pc[Main] = "genGet" /\ tasks' = tasks
          /\ pc'[Main] = "resGather"
          /\ shouldEval' = shouldEval /\ inEval' = inEval
          /\ evalFlag' = evalFlag /\ evalsLeft' = evalsLeft
          /\ queue[Main][m] # << >>
      BY <1>1, <1>5 DEF GetResult, Queue, TypeOK
    <2>2. queue'[Main] = [queue[Main] EXCEPT ![m] = Tail(@)]
      BY <1>1, <1>5 DEF GetResult, TypeOK
    <2>3. Owes(m, 1)'
      BY <1>1, <2>1, <2>2, OwesTake DEF OneAhead
    <2>4. Mode(Main)' = m
      BY <1>1, <2>1 DEF Mode
    <2> QED BY <2>1, <2>3, <2>4 DEF OneAhead
  <1>6. CASE BeginEval(Main)
    <2>1. /\ pc[Main] = "evalWait" /\ tasks' = tasks /\ queue' = queue
          /\ shouldEval' = shouldEval /\ inEval'[Main] = TRUE
          /\ evalFlag' = evalFlag /\ evalsLeft' = evalsLeft
          /\ pc'[Main] = IF queue[Main][m] = << >> THEN "prefetchGather"
                         ELSE "evalNext"
          /\ queue[Main]["train"] # << >>
      BY <1>1, <1>6 DEF BeginEval, Queue, TypeOK
    <2>2. tasks[Main] = << >> /\ \A o \in Modes : Len(queue[Main][o]) <= 1
      BY <1>2, <2>1, OwesNothing DEF OneAhead
    <2>3. Owes(m, 1)'
      BY <2>1, <2>2, OwesIdle
    <2>4. Mode(Main)' = m
      BY <1>1, <2>1 DEF Mode
    <2>5. m = "eval" <=> shouldEval[Main]
      BY <1>1 DEF Mode
    <2> QED BY <1>2, <2>1, <2>2, <2>3, <2>4, <2>5 DEF OneAhead, Modes
  <1>7. CASE EvalBatch(Main)
    <2>1. /\ pc[Main] = "evalNext" /\ tasks' = tasks /\ queue' = queue
          /\ shouldEval' = shouldEval /\ inEval' = inEval
          /\ evalFlag' = evalFlag /\ evalsLeft' = evalsLeft
          /\ pc'[Main] \in {"genLoad", "genGather"}
      BY <1>7 DEF EvalBatch, TypeOK
    <2>2. Owes(m, 1)' /\ Mode(Main)' = m
      BY <1>1, <2>1, OwesFrame DEF OneAhead, Mode
    <2> QED BY <2>1, <2>2 DEF OneAhead
  <1>8. CASE EndEval(Main)
    <2>1. /\ pc[Main] = "evalNext" /\ tasks' = tasks /\ queue' = queue
          /\ shouldEval'[Main] = (evalsLeft[Main] > 1)
          /\ evalFlag'[Main] = TRUE
          /\ evalsLeft'[Main] = evalsLeft[Main] - 1
          /\ pc'[Main] = AfterStep(step[Main], evalsLeft[Main] - 1)
      BY <1>8 DEF EndEval, TypeOK
    <2>2. evalsLeft[Main] = 1
      BY <2>1 DEF OneAhead, FlowOK, TypeOK
    <2>3. evalsLeft'[Main] = 0 /\ ~shouldEval'[Main]
      <3>1. evalsLeft[Main] - 1 = 0 /\ (evalsLeft[Main] > 1) = FALSE
        BY <2>2
      <3> QED BY <2>1, <3>1, Zenon
    <2>4. pc'[Main] \in {"done", "stepWait"}
      BY <2>1, <2>2 DEF AfterStep
    <2>5. Owes(m, 1)'
      BY <1>1, <2>1, OwesFrame DEF OneAhead
    <2> QED BY <2>1, <2>3, <2>4, <2>5 DEF OneAhead, Modes
  <1>9. ~FollowLoad(Main)
    BY DEF FollowLoad
  <1> QED BY <1>3, <1>4, <1>5, <1>6, <1>7, <1>8, <1>9 DEF RankStep

LEMMA NextOneAhead ==
  ASSUME OneEvaluation, IInv, [Next]_vars
  PROVE  OneAhead'
  <1> USE DEF IInv
  <1>1. TypeInv'
    BY NextTypeInv
  <1>2. CASE GatherObject \/ Backward
    BY <1>1, <1>2, CollectiveOneAhead
  <1>3. CASE MainLoad
    BY <1>3, LoadOneAhead
  <1>4. CASE Executor
    BY <1>1, <1>4, ExecutorOneAhead
  <1>5. ASSUME NEW r \in Ranks, RankStep(r) PROVE OneAhead'
    BY <1>1, <1>5, MainRankOneAhead, OtherRankOneAhead
  <1>6. CASE Exit \/ UNCHANGED vars
    BY <1>6, OneAheadFrame, OwesFrame DEF Exit, vars, flow
  <1> QED BY <1>2, <1>3, <1>4, <1>5, <1>6 DEF Next

(* However many ranks, steps and evaluation batches, and even if rollouts  *)
(* fail: while the main rank pushes weights, nothing is in its executor or *)
(* on the wire, provided a step is followed by at most one evaluation. The *)
(* waits of _move_model_to_vllm, evaluation_loop and training_step test    *)
(* one queue each; OneAhead says why that is enough.                       *)
THEOREM LoadsOnlyWhenIdle ==
  ASSUME OneEvaluation
  PROVE  Spec => []NoLoadInFlight
  <1>1. Init => IInv
    BY InitTypeInv, InitOneAhead DEF IInv
  <1>2. IInv /\ [Next]_vars => IInv'
    BY NextTypeInv, NextOneAhead DEF IInv
  <1>3. IInv => NoLoadInFlight
    BY DEF IInv, TypeInv, FlowOK, OneAhead, NoLoadInFlight
  <1> QED BY <1>1, <1>2, <1>3, PTL DEF Spec
-----------------------------------------------------------------------------
Loading == pc[Main] \in {"genLoading", "prefetchLoading"}

(* Between two pushes the server has the version the trainer thinks it     *)
(* has, the prefix cache has blocks of no other, a call on the wire began  *)
(* with it, and all that is in the executor was asked for under it.        *)
Believed ==
    /\ ~Loading => /\ cache \subseteq {weights}
                   /\ lastLoaded[Main] # NotLoaded => weights = lastLoaded[Main]
    /\ lastLoaded[Main] = NotLoaded =>
           /\ pc[Main] \in {"prefetchGather", "prefetchLoad", "prefetchLoading"}
           /\ tasks[Main] = << >>
    /\ started # Idle => started = weights
    /\ \A i \in 1..Len(tasks[Main]) : tasks[Main][i].asked = lastLoaded[Main]

(* What was answered was sampled as it was asked for. *)
AsAsked(x) == x.ver = x.asked

Answered ==
    /\ \A m \in Modes : \A i \in 1..Len(queue[Main][m]) : AsAsked(queue[Main][m][i])
    /\ AsAsked(got[Main])
    /\ \A r \in Ranks : AsAsked(buffer[r]) /\ AsAsked(scored[r])

SInv == IInv /\ NoLoadInFlight /\ Believed /\ Answered

LEMMA InitSInv == Init => Believed /\ Answered
  BY MainAssumption DEF Init, Believed, Answered, Loading, AsAsked, Modes,
     Nothing, NotLoaded, Idle

(* Putting on the main rank's queue what was sampled as it was asked for.  *)
LEMMA PutAsAsked ==
  ASSUME TypeOK, Answered, NEW m \in Modes, NEW a \in Result, AsAsked(a),
         queue' = [queue EXCEPT ![Main][m] = Append(@, a)],
         UNCHANGED data
  PROVE  Answered'
  <1>1. queue[Main] \in [Modes -> Seq(Result)] /\ queue \in [Ranks -> [Modes -> Seq(Result)]]
    BY MainAssumption DEF TypeOK
  <1>2. /\ queue'[Main][m] = Append(queue[Main][m], a)
        /\ \A n \in Modes : n # m => queue'[Main][n] = queue[Main][n]
    BY <1>1, MainAssumption
  <1>3. queue[Main][m] \in Seq(Result)
    BY <1>1
  <1>4. ASSUME NEW i \in 1..Len(Append(queue[Main][m], a))
        PROVE  AsAsked(Append(queue[Main][m], a)[i])
    <2>1. CASE i = Len(queue[Main][m]) + 1
      BY <1>3, <2>1
    <2>2. CASE i # Len(queue[Main][m]) + 1
      <3>1. i \in 1..Len(queue[Main][m])
        BY <1>3, <2>2
      <3>2. Append(queue[Main][m], a)[i] = queue[Main][m][i]
        BY <1>3, <3>1
      <3> QED BY <3>1, <3>2 DEF Answered
    <2> QED BY <2>1, <2>2
  <1>5. \A n \in Modes : \A i \in 1..Len(queue'[Main][n]) : AsAsked(queue'[Main][n][i])
    BY <1>2, <1>4 DEF Answered
  <1> QED BY <1>5 DEF Answered, data, AsAsked

LEMMA SampledWhenStill ==
  ASSUME Believed, ~Loading
  PROVE  SampledFrom(weights) = weights
  BY DEF Believed, SampledFrom

(* A push begins when nothing is in the executor or on the wire.           *)
LEMMA LoadSInv ==
  ASSUME SInv, ~SkipSync, MainLoad, NoLoadInFlight'
  PROVE  Believed' /\ Answered'
  <1> USE MainAssumption DEF SInv, IInv, TypeInv
  <1>1. CASE BeginLoad
    <2>1. Loading' /\ started' = Idle
      BY <1>1 DEF BeginLoad, NoLoadInFlight, Loading, TypeOK, MayLoad
    <2>2. Believed'
      BY <1>1, <2>1 DEF BeginLoad, Believed, MayLoad, TypeOK, Loading
    <2> QED BY <1>1, <2>2 DEF BeginLoad, Answered, data, AsAsked
  <1>2. CASE EndLoad
    <2>1. /\ started = Idle /\ tasks[Main] = << >>
          /\ step[Main] \in Nat
      BY <1>2 DEF EndLoad, NoLoadInFlight, TypeOK, Version
    <2>2. /\ weights' = step[Main] /\ lastLoaded'[Main] = step[Main]
          /\ cache' = {} /\ started' = Idle /\ tasks' = tasks
      BY <1>2, <2>1 DEF EndLoad, TypeOK
    <2>3. Believed'
      BY <2>1, <2>2 DEF Believed, NotLoaded
    <2> QED BY <1>2, <2>3 DEF EndLoad, Answered, data, AsAsked
  <1>3. ~SkipLoad
    BY DEF SkipLoad, SkipsLoad
  <1> QED BY <1>1, <1>2, <1>3 DEF MainLoad

(* A call of the executor runs under weights that stand still.             *)
LEMMA ExecutorSInv ==
  ASSUME SInv, Executor
  PROVE  Believed' /\ Answered'
  <1> USE MainAssumption DEF SInv, IInv, TypeInv
  <1>1. tasks[Main] # << >> => ~Loading /\ lastLoaded[Main] # NotLoaded
    BY DEF NoLoadInFlight, Believed, Loading
  <1>2. CASE StartInfer
    <2>1. Believed'
      BY <1>1, <1>2 DEF StartInfer, Believed, Loading
    <2> QED BY <1>2, <2>1 DEF StartInfer, Answered, data, AsAsked
  <1>3. tasks[Main] # << >> =>
           /\ Head(tasks[Main]) \in Task
           /\ Head(tasks[Main]).asked = lastLoaded[Main]
           /\ \A i \in 1..Len(Tail(tasks[Main])) :
                  Tail(tasks[Main])[i].asked = lastLoaded[Main]
    <2> SUFFICES ASSUME tasks[Main] # << >>
                 PROVE  /\ Head(tasks[Main]) \in Task
                        /\ Head(tasks[Main]).asked = lastLoaded[Main]
                        /\ \A i \in 1..Len(Tail(tasks[Main])) :
                               Tail(tasks[Main])[i].asked = lastLoaded[Main]
      OBVIOUS
    <2>1. tasks[Main] \in Seq(Task) /\ Len(tasks[Main]) \in Nat /\ Len(tasks[Main]) >= 1
      BY DEF TypeOK
    <2>2. Head(tasks[Main]) = tasks[Main][1] /\ Head(tasks[Main]) \in Task
      BY <2>1
    <2>3. /\ Len(Tail(tasks[Main])) = Len(tasks[Main]) - 1
          /\ \A i \in 1..Len(Tail(tasks[Main])) : Tail(tasks[Main])[i] = tasks[Main][i + 1]
      BY <2>1
    <2>4. \A i \in 1..(Len(tasks[Main]) - 1) : i + 1 \in 1..Len(tasks[Main])
      BY <2>1
    <2> QED BY <2>1, <2>2, <2>3, <2>4 DEF Believed
  <1>4. CASE FinishInfer
    <2> DEFINE t == Head(tasks[Main])
               a == Answer(Main, t, SampledFrom(started))
    <2>1. tasks[Main] # << >> /\ started # Idle
      BY <1>4 DEF FinishInfer, FlowOK
    <2>2. t \in Task /\ t.asked = lastLoaded[Main] /\ started = lastLoaded[Main]
      BY <1>1, <1>3, <2>1 DEF Believed
    <2>3. SampledFrom(started) = started
      BY <1>1, <2>1, SampledWhenStill DEF Believed
    <2>4. a \in Result /\ AsAsked(a)
      <3>1. SampledFrom(started) \in Int
        BY SampledFromType DEF TypeOK
      <3>2. a \in Result
        BY <2>2, <3>1, AnswerType DEF Task
      <3> QED BY <2>2, <2>3, <3>2 DEF Answer, AsAsked
    <2>5. /\ queue' = [queue EXCEPT ![Main][t.mode] = Append(@, a)]
          /\ tasks'[Main] = Tail(tasks[Main]) /\ started' = Idle
          /\ UNCHANGED <<data, pc, lastLoaded, weights, cache>>
      BY <1>4 DEF FinishInfer, PutResult, TypeOK
    <2>6. t.mode \in Modes
      BY <2>2 DEF Task
    <2>7. Answered'
      <3> HIDE DEF a, t
      <3> QED BY <2>4, <2>5, <2>6, PutAsAsked
    <2>8. Believed'
      BY <1>3, <2>1, <2>5, <1>1 DEF Believed, Loading
    <2> QED BY <2>7, <2>8
  <1>5. CASE FailInfer
    <2>1. tasks[Main] # << >>
      BY <1>5 DEF FailInfer, FlowOK
    <2>2. /\ tasks'[Main] = Tail(tasks[Main]) /\ started' = Idle
          /\ UNCHANGED <<queue, data, pc, lastLoaded, weights, cache>>
      BY <1>5 DEF FailInfer, TypeOK
    <2>3. Believed'
      BY <1>1, <1>3, <2>1, <2>2 DEF Believed, Loading
    <2> QED BY <2>2, <2>3 DEF Answered, data, AsAsked
  <1>6. ASSUME NEW r \in Ranks, FollowInfer(r) PROVE Believed' /\ Answered'
    <2>1. /\ tasks'[Main] = tasks[Main] /\ queue'[Main] = queue[Main]
          /\ UNCHANGED <<data, pc, lastLoaded, server>>
      BY <1>6 DEF FollowInfer, PutResult, TypeOK
    <2> QED BY <2>1 DEF Believed, Loading, Answered, data, server, AsAsked
  <1> QED BY <1>2, <1>4, <1>5, <1>6 DEF Executor

(* A batch is submitted under the version the trainer believes loaded; the *)
(* ranks take over what the main one got.                                  *)
LEMMA GatherSInv ==
  ASSUME SInv, GatherObject
  PROVE  Believed' /\ Answered'
  <1> USE MainAssumption DEF SInv, IInv, TypeInv
  <1>1. pc[Main] \in GatherPoints /\ ~Loading
    BY DEF GatherObject, GatherPoints, Loading
  <1>2. /\ pc'[Main] = AfterGather(Main)
        /\ UNCHANGED <<step, lastLoaded, queue, got, started, weights, cache>>
    BY DEF GatherObject, clock, server
  <1>3. ~Loading'
    BY <1>1, <1>2 DEF AfterGather, GatherPoints, Loading
  <1>0. Answered'
    BY <1>2 DEF Answered, AsAsked, GatherObject
  <1>4. CASE pc[Main] = "genGather"
    <2>1. tasks'[Main] = Append(tasks[Main], NewTask(Main))
      BY <1>4 DEF GatherObject
    <2>2. tasks[Main] \in Seq(Task) /\ NewTask(Main) \in Task
      BY NewTaskType DEF TypeOK
    <2>3. NewTask(Main).asked = lastLoaded[Main]
      BY DEF NewTask
    <2>4. ASSUME NEW i \in 1..Len(tasks'[Main])
          PROVE  tasks'[Main][i].asked = lastLoaded[Main]
      <3>1. CASE i = Len(tasks[Main]) + 1
        BY <3>1, <2>1, <2>2, <2>3
      <3>2. CASE i # Len(tasks[Main]) + 1
        <4>1. i \in 1..Len(tasks[Main]) /\ tasks'[Main][i] = tasks[Main][i]
          BY <3>2, <2>1, <2>2
        <4> QED BY <4>1 DEF Believed
      <3> QED BY <3>1, <3>2
    <2>5. lastLoaded[Main] # NotLoaded
      BY <1>4 DEF Believed
    <2>6. Believed'
      BY <1>1, <1>2, <1>3, <2>4, <2>5 DEF Believed
    <2> QED BY <1>0, <2>6
  <1>5. CASE pc[Main] # "genGather"
    <2>1. tasks'[Main] = tasks[Main]
      BY <1>5 DEF GatherObject
    <2>2. lastLoaded[Main] = NotLoaded => pc'[Main] = "prefetchLoad"
      <3>1. step[Main] # NotLoaded
        BY DEF TypeOK, Version, NotLoaded
      <3> QED BY <1>1, <1>2, <3>1 DEF Believed, AfterGather, MustLoad, GatherPoints
    <2>3. Believed'
      BY <1>1, <1>2, <1>3, <2>1, <2>2 DEF Believed
    <2> QED BY <1>0, <2>3
  <1> QED BY <1>4, <1>5

LEMMA RankSInv ==
  ASSUME SInv, NEW r \in Ranks, RankStep(r)
  PROVE  Believed' /\ Answered'
  <1> USE MainAssumption DEF SInv, IInv, TypeInv
  <1>1. CASE FollowLoad(r)
    BY <1>1 DEF FollowLoad, Believed, Loading, Answered, data, server, AsAsked, TypeOK
  <1>2. CASE PrefetchInfer(r)
    <2>1. CASE r = Main
      <3> DEFINE a == Answer(Main, NewTask(Main), SampledFrom(weights))
      <3>1. ~Loading /\ lastLoaded[Main] # NotLoaded
        BY <1>2, <2>1 DEF PrefetchInfer, Loading, Believed
      <3>2. SampledFrom(weights) = weights /\ weights = lastLoaded[Main]
        BY <3>1, SampledWhenStill DEF Believed
      <3>3. Mode(Main) \in Modes /\ NewTask(Main) \in Task
        BY NewTaskType
      <3>4. a \in Result /\ AsAsked(a)
        <4>1. a \in Result
          BY <3>3, AnswerType, SampledFromType DEF Task, TypeOK
        <4> QED BY <4>1, <3>2 DEF Answer, NewTask, AsAsked
      <3>5. /\ queue' = [queue EXCEPT ![Main][Mode(Main)] = Append(@, a)]
            /\ UNCHANGED <<data, tasks, started, weights, lastLoaded>>
            /\ cache' = cache \union {weights}
        BY <1>2, <2>1 DEF PrefetchInfer
      <3>6. Answered'
        <4> HIDE DEF a
        <4> QED BY <3>3, <3>4, <3>5, PutAsAsked
      <3>7. Believed'
        BY <3>1, <3>5 DEF Believed
      <3> QED BY <3>6, <3>7
    <2>2. CASE r # Main
      <3>1. /\ pc'[Main] = pc[Main] /\ queue'[Main] = queue[Main] /\ cache' = cache
            /\ UNCHANGED <<data, tasks, started, weights, lastLoaded>>
        BY <1>2, <2>2 DEF PrefetchInfer, TypeOK
      <3> QED BY <3>1 DEF Believed, Loading, Answered, data, AsAsked
    <2> QED BY <2>1, <2>2
  <1>3. CASE GetResult(r)
    <2>1. CASE r = Main
      <3>1. Mode(Main) \in Modes /\ queue[Main][Mode(Main)] \in Seq(Result)
            /\ queue[Main][Mode(Main)] # << >>
        BY <1>3, <2>1, NewTaskType DEF GetResult, Queue, TypeOK
      <3> DEFINE s == queue[Main][Mode(Main)]
      <3>2. /\ Len(s) \in Nat /\ Len(s) >= 1 /\ Head(s) = s[1]
            /\ Len(Tail(s)) = Len(s) - 1
            /\ \A i \in 1..Len(Tail(s)) : Tail(s)[i] = s[i + 1] /\ i + 1 \in 1..Len(s)
        BY <3>1
      <3>3. /\ got'[Main] = Head(s) /\ queue'[Main][Mode(Main)] = Tail(s)
            /\ \A n \in Modes : n # Mode(Main) => queue'[Main][n] = queue[Main][n]
            /\ UNCHANGED <<buffer, scored, tasks, server, lastLoaded>>
            /\ pc[Main] = "genGet" /\ pc'[Main] = "resGather"
        BY <1>3, <2>1, <3>1 DEF GetResult, Queue, TypeOK
      <3>4. AsAsked(Head(s)) /\ \A i \in 1..Len(Tail(s)) : AsAsked(Tail(s)[i])
        BY <3>1, <3>2 DEF Answered
      <3>5. Answered'
        <4>1. \A n \in Modes : \A i \in 1..Len(queue'[Main][n]) : AsAsked(queue'[Main][n][i])
          <5> HIDE DEF s
          <5> QED BY <3>3, <3>4 DEF Answered
        <4> QED BY <4>1, <3>3, <3>4 DEF Answered, AsAsked
      <3>6. Believed'
        BY <3>3 DEF Believed, Loading, server
      <3> QED BY <3>5, <3>6
    <2>2. CASE r # Main
      <3>1. /\ pc'[Main] = pc[Main] /\ queue'[Main] = queue[Main]
            /\ got'[Main] = got[Main]
            /\ UNCHANGED <<buffer, scored, tasks, server, lastLoaded>>
        BY <1>3, <2>2 DEF GetResult, TypeOK
      <3> QED BY <3>1 DEF Believed, Loading, Answered, server, AsAsked
    <2> QED BY <2>1, <2>2
  <1>4. CASE StartMicroStep(r) \/ BeginEval(r) \/ EvalBatch(r) \/ EndEval(r)
    <2>1. UNCHANGED <<lastLoaded, tasks, queue, data, server>>
      BY <1>4 DEF StartMicroStep, BeginEval, EvalBatch, EndEval
    <2>2. pc'[Main] = pc[Main] \/ (r = Main /\ ~Loading /\ ~Loading'
            /\ pc[Main] \in {"stepWait", "evalWait", "evalNext"})
      BY <1>4 DEF StartMicroStep, BeginEval, EvalBatch, EndEval, AfterStep,
                  Loading, TypeOK
    <2> QED BY <2>1, <2>2 DEF Believed, Loading, Answered, data, server, AsAsked
  <1> QED BY <1>1, <1>2, <1>3, <1>4 DEF RankStep

LEMMA StepSInv ==
  ASSUME OneEvaluation, ~SkipSync, SInv, [Next]_vars
  PROVE  SInv'
  <1>1. IInv'
    BY NextTypeInv, NextOneAhead DEF SInv, IInv
  <1>2. NoLoadInFlight'
    BY <1>1 DEF IInv, TypeInv, FlowOK, OneAhead, NoLoadInFlight
  <1>3. Believed' /\ Answered'
    <2>1. CASE Backward
      <3>1. /\ UNCHANGED <<lastLoaded, tasks, queue, data, server>>
            /\ pc[Main] = "backward" /\ pc'[Main] \in {"evalWait", "done", "stepWait"}
        BY <2>1, MainAssumption DEF Backward, AfterStep
      <3> QED BY <3>1 DEF SInv, Believed, Loading, Answered, data, server, AsAsked
    <2>2. CASE Exit \/ UNCHANGED vars
      <3>1. UNCHANGED vars
        BY <2>2 DEF Exit
      <3> QED BY <3>1 DEF vars, SInv, Believed, Loading, Answered, data, server, AsAsked
    <2> QED BY <1>2, <2>1, <2>2, GatherSInv, LoadSInv, ExecutorSInv, RankSInv
            DEF Next
  <1> QED BY <1>1, <1>2, <1>3 DEF SInv

(* Completions come from one version of the weights, the one the trainer   *)
(* believed loaded when it asked (_last_loaded_step), over no prefix-cache *)
(* blocks of older ones, for any number of ranks, steps and evaluation     *)
(* batches: with the push that waits for the executor and resets the cache.*)
THEOREM SampledFromBelieved ==
  ASSUME OneEvaluation, ~SkipSync
  PROVE  Spec => []SampledAsAsked
  <1>1. Init => SInv
    BY InitTypeInv, InitOneAhead, InitSInv
    DEF SInv, IInv, TypeInv, FlowOK, OneAhead, NoLoadInFlight
  <1>2. SInv /\ [Next]_vars => SInv'
    BY StepSInv
  <1>3. SInv => SampledAsAsked
    BY DEF SInv, Answered, AsAsked, SampledAsAsked
  <1> QED BY <1>1, <1>2, <1>3, PTL DEF Spec
-----------------------------------------------------------------------------
(* With GEOBENCH_SKIP_VLLM_SYNC_AFTER_STEP0 the server keeps the weights of *)
(* the start: they are pushed only before the first step, and only when    *)
(* nothing is in flight.                                                   *)
Frozen ==
    /\ Loading => step[Main] = 0
    /\ ~Loading => weights = 0
    /\ cache \subseteq {0} /\ started \in {0, Idle}
    /\ \A m \in Modes : \A i \in 1..Len(queue[Main][m]) : queue[Main][m][i].ver = 0
    /\ got[Main] # Nothing => got[Main].ver = 0
    /\ FrozenPolicy

ZInv == IInv /\ NoLoadInFlight /\ Frozen

LEMMA InitFrozen == Init => Frozen
  BY MainAssumption DEF Init, Frozen, FrozenPolicy, Loading, Modes, Nothing, Idle

LEMMA PutFrozen ==
  ASSUME TypeOK, Frozen, NEW m \in Modes, NEW a, a.ver = 0,
         queue' = [queue EXCEPT ![Main][m] = Append(@, a)]
  PROVE  \A n \in Modes : \A i \in 1..Len(queue'[Main][n]) :
             queue'[Main][n][i].ver = 0
  <1>1. queue[Main] \in [Modes -> Seq(Result)] /\ queue \in [Ranks -> [Modes -> Seq(Result)]]
    BY MainAssumption DEF TypeOK
  <1>2. /\ queue'[Main][m] = Append(queue[Main][m], a)
        /\ \A n \in Modes : n # m => queue'[Main][n] = queue[Main][n]
    BY <1>1, MainAssumption
  <1>3. queue[Main][m] \in Seq(Result)
    BY <1>1
  <1>4. ASSUME NEW i \in 1..Len(Append(queue[Main][m], a))
        PROVE  Append(queue[Main][m], a)[i].ver = 0
    <2>1. CASE i = Len(queue[Main][m]) + 1
      BY <1>3, <2>1
    <2>2. CASE i # Len(queue[Main][m]) + 1
      <3>1. i \in 1..Len(queue[Main][m])
        BY <1>3, <2>2
      <3>2. Append(queue[Main][m], a)[i] = queue[Main][m][i]
        BY <1>3, <3>1
      <3> QED BY <3>1, <3>2 DEF Frozen
    <2> QED BY <2>1, <2>2
  <1> QED BY <1>2, <1>4 DEF Frozen

LEMMA LoadFrozen ==
  ASSUME ZInv, SkipSync, MainLoad, NoLoadInFlight'
  PROVE  Frozen'
  <1> USE MainAssumption DEF ZInv, IInv, TypeInv
  <1>0. step[Main] \in Nat /\ UNCHANGED <<step, queue, data, started>>
    BY DEF MainLoad, BeginLoad, EndLoad, SkipLoad, TypeOK, Version, clock
  <1>1. CASE BeginLoad
    <2>1. step[Main] = 0 /\ Loading'
      BY <1>0, <1>1 DEF BeginLoad, SkipsLoad, Loading, TypeOK, MayLoad
    <2> QED BY <1>0, <1>1, <2>1 DEF BeginLoad, Frozen, FrozenPolicy, data
  <1>2. CASE EndLoad
    <2>1. weights' = 0 /\ cache' = {} /\ step[Main] = 0
      BY <1>2 DEF EndLoad, Frozen, Loading
    <2> QED BY <1>0, <2>1 DEF Frozen, FrozenPolicy, data
  <1>3. CASE SkipLoad
    <2>1. ~Loading /\ ~Loading' /\ UNCHANGED weights /\ cache' = {}
      BY <1>3 DEF SkipLoad, MayLoad, Loading, AfterLoad, TypeOK
    <2> QED BY <1>0, <2>1 DEF Frozen, FrozenPolicy, data
  <1> QED BY <1>1, <1>2, <1>3 DEF MainLoad

LEMMA ExecutorFrozen ==
  ASSUME ZInv, Executor
  PROVE  Frozen'
  <1> USE MainAssumption DEF ZInv, IInv, TypeInv
  <1>1. tasks[Main] # << >> => ~Loading
    BY DEF NoLoadInFlight, Loading
  <1>2. CASE StartInfer
    BY <1>1, <1>2 DEF StartInfer, Frozen, FrozenPolicy, Loading, data, clock, flow
  <1>3. CASE FinishInfer
    <2> DEFINE t == Head(tasks[Main])
               a == Answer(Main, t, SampledFrom(started))
    <2>1. tasks[Main] # << >> /\ ~Loading /\ tasks[Main] \in Seq(Task) /\ started # Idle
      BY <1>1, <1>3 DEF FinishInfer, FlowOK, TypeOK
    <2>2. SampledFrom(started) = 0
      BY <2>1 DEF Frozen, SampledFrom
    <2>3. a.ver = 0 /\ t.mode \in Modes
      <3>1. t \in Task
        BY <2>1
      <3> QED BY <2>2, <3>1 DEF Answer, Task
    <2>4. queue' = [queue EXCEPT ![Main][t.mode] = Append(@, a)]
      BY <1>3 DEF FinishInfer, PutResult
    <2>5. \A n \in Modes : \A i \in 1..Len(queue'[Main][n]) :
             queue'[Main][n][i].ver = 0
      <3> HIDE DEF a, t
      <3> QED BY <2>3, <2>4, PutFrozen
    <2> QED BY <1>3, <2>1, <2>5
            DEF FinishInfer, Frozen, FrozenPolicy, Loading, data, clock
  <1>4. CASE FailInfer
    BY <1>4 DEF FailInfer, Frozen, FrozenPolicy, Loading, data, clock
  <1>5. ASSUME NEW r \in Ranks, FollowInfer(r) PROVE Frozen'
    <2>1. queue'[Main] = queue[Main]
      BY <1>5 DEF FollowInfer, PutResult, TypeOK
    <2> QED BY <1>5, <2>1 DEF FollowInfer, Frozen, FrozenPolicy, Loading, data,
            clock, server
  <1> QED BY <1>2, <1>3, <1>4, <1>5 DEF Executor

LEMMA CollectiveFrozen ==
  ASSUME ZInv, GatherObject \/ Backward
  PROVE  Frozen'
  <1> USE MainAssumption DEF ZInv, IInv, TypeInv
  <1>1. ~Loading /\ ~Loading' /\ UNCHANGED <<weights, cache, started, queue, got>>
    BY DEF GatherObject, Backward, GatherPoints, AfterGather, AfterStep, Loading,
           server, data
  <1>2. FrozenPolicy'
    <2>1. CASE GatherObject
      <3>1. \A r \in Ranks : buffer'[r] \in {got[Main], buffer[r]}
                             /\ scored'[r] \in {got[Main], scored[r]}
        BY <2>1 DEF GatherObject
      <3> QED BY <3>1 DEF Frozen, FrozenPolicy
    <2>2. CASE Backward
      BY <2>2 DEF Backward, data, Frozen, FrozenPolicy
    <2> QED BY <2>1, <2>2
  <1> QED BY <1>1, <1>2 DEF Frozen

LEMMA RankFrozen ==
  ASSUME ZInv, NEW r \in Ranks, RankStep(r)
  PROVE  Frozen'
  <1> USE MainAssumption DEF ZInv, IInv, TypeInv
  <1>1. CASE FollowLoad(r)
    BY <1>1 DEF FollowLoad, Frozen, FrozenPolicy, Loading, data, server, clock, TypeOK
  <1>2. CASE PrefetchInfer(r)
    <2>1. CASE r = Main
      <3> DEFINE a == Answer(Main, NewTask(Main), SampledFrom(weights))
      <3>1. ~Loading /\ weights = 0
        BY <1>2, <2>1 DEF PrefetchInfer, Loading, Frozen
      <3>2. a.ver = 0 /\ Mode(Main) \in Modes
        BY <3>1, NewTaskType DEF SampledFrom, Frozen, Answer
      <3>3. /\ queue' = [queue EXCEPT ![Main][Mode(Main)] = Append(@, a)]
            /\ UNCHANGED <<data, started, weights, step>> /\ cache' \subseteq {0}
        BY <1>2, <2>1, <3>1 DEF PrefetchInfer, Frozen, clock
      <3>4. \A n \in Modes : \A i \in 1..Len(queue'[Main][n]) :
               queue'[Main][n][i].ver = 0
        <4> HIDE DEF a
        <4> QED BY <3>2, <3>3, PutFrozen
      <3>5. ~Loading'
        BY <1>2, <2>1 DEF PrefetchInfer, Loading, AfterStep, TypeOK
      <3> QED BY <3>1, <3>3, <3>4, <3>5 DEF Frozen, FrozenPolicy, data
    <2>2. CASE r # Main
      <3>1. /\ pc'[Main] = pc[Main] /\ queue'[Main] = queue[Main] /\ cache' = cache
            /\ UNCHANGED <<data, started, weights, step>>
        BY <1>2, <2>2 DEF PrefetchInfer, TypeOK, clock
      <3> QED BY <3>1 DEF Frozen, FrozenPolicy, Loading, data
    <2> QED BY <2>1, <2>2
  <1>3. CASE GetResult(r)
    <2>1. CASE r = Main
      <3>1. Mode(Main) \in Modes /\ queue[Main][Mode(Main)] \in Seq(Result)
            /\ queue[Main][Mode(Main)] # << >>
        BY <1>3, <2>1, NewTaskType DEF GetResult, Queue, TypeOK
      <3> DEFINE s == queue[Main][Mode(Main)]
      <3>2. /\ Len(s) \in Nat /\ Len(s) >= 1 /\ Head(s) = s[1]
            /\ Len(Tail(s)) = Len(s) - 1
            /\ \A i \in 1..Len(Tail(s)) : Tail(s)[i] = s[i + 1] /\ i + 1 \in 1..Len(s)
        BY <3>1
      <3>3. /\ got'[Main] = Head(s) /\ queue'[Main][Mode(Main)] = Tail(s)
            /\ \A n \in Modes : n # Mode(Main) => queue'[Main][n] = queue[Main][n]
            /\ UNCHANGED <<buffer, scored, server, step>>
            /\ pc[Main] = "genGet" /\ pc'[Main] = "resGather"
        BY <1>3, <2>1, <3>1 DEF GetResult, Queue, TypeOK, clock
      <3>4. Head(s).ver = 0 /\ \A i \in 1..Len(Tail(s)) : Tail(s)[i].ver = 0
        BY <3>1, <3>2 DEF Frozen
      <3>5. \A n \in Modes : \A i \in 1..Len(queue'[Main][n]) :
               queue'[Main][n][i].ver = 0
        <4> HIDE DEF s
        <4> QED BY <3>3, <3>4 DEF Frozen
      <3> QED BY <3>3, <3>4, <3>5 DEF Frozen, FrozenPolicy, Loading, server
    <2>2. CASE r # Main
      <3>1. /\ pc'[Main] = pc[Main] /\ queue'[Main] = queue[Main]
            /\ got'[Main] = got[Main]
            /\ UNCHANGED <<buffer, scored, server, step>>
        BY <1>3, <2>2 DEF GetResult, TypeOK, clock
      <3> QED BY <3>1 DEF Frozen, FrozenPolicy, Loading, server
    <2> QED BY <2>1, <2>2
  <1>4. CASE StartMicroStep(r) \/ BeginEval(r) \/ EvalBatch(r) \/ EndEval(r)
    <2>1. UNCHANGED <<queue, data, server, step>>
      BY <1>4 DEF StartMicroStep, BeginEval, EvalBatch, EndEval, clock
    <2>2. pc'[Main] = pc[Main] \/ (~Loading /\ ~Loading')
      BY <1>4 DEF StartMicroStep, BeginEval, EvalBatch, EndEval, AfterStep,
                  Loading, TypeOK
    <2> QED BY <2>1, <2>2 DEF Frozen, FrozenPolicy, Loading, data, server
  <1> QED BY <1>1, <1>2, <1>3, <1>4 DEF RankStep

(* With GEOBENCH_SKIP_VLLM_SYNC_AFTER_STEP0 all completions, of training   *)
(* and of evaluation, come from the weights the server started with, even  *)
(* if rollouts fail: _move_model_to_vllm returns early from the first step *)
(* on, and what it pushed before meets no call on the wire.                *)
THEOREM PolicyStaysFrozen ==
  ASSUME OneEvaluation, SkipSync
  PROVE  Spec => []FrozenPolicy
  <1>1. Init => ZInv
    BY InitTypeInv, InitOneAhead, InitFrozen
    DEF ZInv, IInv, TypeInv, FlowOK, OneAhead, NoLoadInFlight
  <1>2. ZInv /\ [Next]_vars => ZInv'
    <2> SUFFICES ASSUME ZInv, [Next]_vars PROVE ZInv'
      OBVIOUS
    <2>1. IInv'
      BY NextTypeInv, NextOneAhead DEF ZInv, IInv
    <2>2. NoLoadInFlight'
      BY <2>1 DEF IInv, TypeInv, FlowOK, OneAhead, NoLoadInFlight
    <2>3. Frozen'
      <3>1. CASE Exit \/ UNCHANGED vars
        <4>1. UNCHANGED vars
          BY <3>1 DEF Exit
        <4> QED BY <4>1 DEF vars, ZInv, Frozen, FrozenPolicy, Loading, data,
                            server, clock
      <3>2. CASE MainLoad
        BY <2>2, <3>2, LoadFrozen
      <3>3. CASE Executor
        BY <3>3, ExecutorFrozen
      <3>4. CASE GatherObject \/ Backward
        BY <3>4, CollectiveFrozen
      <3>5. CASE \E r \in Ranks : RankStep(r)
        BY <3>5, RankFrozen
      <3> QED BY <3>1, <3>2, <3>3, <3>4, <3>5 DEF Next
    <2> QED BY <2>1, <2>2, <2>3 DEF ZInv
  <1>3. ZInv => FrozenPolicy
    BY DEF ZInv, Frozen
  <1> QED BY <1>1, <1>2, <1>3, PTL DEF Spec

-----------------------------------------------------------------------------
(***************************************************************************)
(* Which batch a rank of AsyncRollout holds when it trains or scores, and  *)
(* why the ranks agree on it, when no rollout fails and at most one        *)
(* evaluation follows a step. Two things are invariant together: every     *)
(* rank's executor and queues hold the last batches it asked for, in order *)
(* (RankOK), and every rank is on its way to the same collective with the  *)
(* same counters (Aligned), although each walks there at its own pace.     *)
(***************************************************************************)

(* What the executor and the queue of one mode hold: d batches, the last   *)
(* ones of the n that were handed to it, in order.                         *)
Waits(t, m) == IF t # << >> /\ t[1].mode = m THEN Len(t) ELSE 0
AllOf(t, m) == \A i \in 1..Len(t) : t[i].mode = m

InLine(q, t, m, n, d) ==
    /\ Len(q) + Waits(t, m) = d
    /\ \A i \in 1..Len(q) : q[i].seq = n - d + i - 1
    /\ \A i \in 1..Len(t) : t[i].mode = m => t[i].seq = n - Len(t) + i - 1

(* A queue is ahead by one batch once it has been prefetched, and by two   *)
(* between submit and get.                                                 *)
Due(r, m) == IF asks[r][m] = 0 THEN 0
             ELSE IF pc[r] = "genGet" /\ Mode(r) = m THEN 2 ELSE 1

Prefetching(r) == pc[r] \in {"prefetchGather", "prefetchLoad",
                             "prefetchLoading", "prefetchInfer"}

(* A rank by itself: how many batches it is owed, of which modes, and what *)
(* its buffer holds.                                                       *)
LineOK(r) ==
    /\ \E m \in Modes : AllOf(tasks[r], m)
    /\ \A m \in Modes : InLine(queue[r][m], tasks[r], m, asks[r][m], Due(r, m))

WhereOK(r) ==
    /\ evalsLeft[r] <= 1
    /\ Prefetching(r) => /\ tasks[r] = << >> /\ asks[r][Mode(r)] = 0
                         /\ inEval[r] <=> shouldEval[r]
    /\ ~Prefetching(r) \/ inEval[r] => asks[r]["train"] > 0
    /\ pc[r] \in InGeneration \union {"evalNext", "backward"} =>
          /\ asks[r][Mode(r)] > (IF pc[r] \in {"genGet", "resGather"} THEN 1 ELSE 0)
          /\ shouldEval[r] => inEval[r]
          /\ AllOf(tasks[r], Mode(r))
    /\ pc[r] = "evalWait" => AllOf(tasks[r], "train")
    /\ pc[r] = "stepWait" =>
          /\ ~shouldEval[r]
          /\ AllOf(tasks[r], "train") \/ (evalFlag[r] /\ AllOf(tasks[r], "eval"))

HoldsOK(r) ==
    /\ pc[r] = "resGather" => got[r].seq = asks[r][Mode(r)] - 2
    /\ pc[r] = "backward" => buffer[r].seq = asks[r]["train"] - 2
    /\ buffer[r] # Nothing =>
          /\ inEval[r] \/ pc[r] = "evalWait" => shouldEval[r]
          /\ buffer[r].seq = asks[r]["train"] -
                 (IF pc[r] \in {"genGet", "resGather"} /\ ~inEval[r] THEN 3 ELSE 2)

RankOK(r) == LineOK(r) /\ WhereOK(r) /\ HoldsOK(r)
-----------------------------------------------------------------------------
(* An executor that holds batches of one mode owes that mode all of them.  *)
LEMMA WaitsForAll ==
  ASSUME NEW t \in Seq(Task), NEW m, AllOf(t, m)
  PROVE  /\ Waits(t, m) = Len(t)
         /\ \A o : o # m => Waits(t, o) = 0
  <1>1. CASE t = << >>
    BY <1>1 DEF Waits
  <1>2. CASE t # << >>
    <2>1. 1 \in 1..Len(t)
      BY <1>2
    <2>2. t[1].mode = m
      BY <2>1 DEF AllOf
    <2> QED BY <1>2, <2>2 DEF Waits
  <1> QED BY <1>1, <1>2

(* An answer moves the head of the executor's tasks to its queue: what the *)
(* two hold together, and its order, stay.                                 *)
LEMMA LineAnswered ==
  ASSUME NEW q \in Seq(Result), NEW t \in Seq(Task), t # << >>,
         NEW m \in Modes, AllOf(t, m), NEW n \in Nat, NEW d \in Nat,
         InLine(q, t, m, n, d), NEW a, a.seq = Head(t).seq
  PROVE  InLine(Append(q, a), Tail(t), m, n, d)
  <1>1. /\ Len(t) \in Nat /\ Len(t) >= 1 /\ Head(t) = t[1]
        /\ Len(Tail(t)) = Len(t) - 1
        /\ \A i \in 1..Len(Tail(t)) : Tail(t)[i] = t[i + 1] /\ i + 1 \in 1..Len(t)
    BY HeadTailProperties
  <1>2. /\ Len(q) \in Nat /\ Len(Append(q, a)) = Len(q) + 1
        /\ \A i \in 1..Len(q) : Append(q, a)[i] = q[i]
        /\ Append(q, a)[Len(q) + 1] = a
    OBVIOUS
  <1>3. Waits(t, m) = Len(t) /\ Len(q) + Len(t) = d /\ t[1].seq = n - Len(t)
    BY <1>1, WaitsForAll DEF AllOf, InLine
  <1>4. Waits(Tail(t), m) = Len(t) - 1
    <2>1. Tail(t) \in Seq(Task) /\ AllOf(Tail(t), m)
      BY <1>1 DEF AllOf
    <2> QED BY <1>1, <2>1, WaitsForAll
  <1>5. \A i \in 1..(Len(q) + 1) : Append(q, a)[i].seq = n - d + i - 1
    BY <1>1, <1>2, <1>3 DEF InLine
  <1>6. \A i \in 1..Len(Tail(t)) :
            Tail(t)[i].seq = n - Len(Tail(t)) + i - 1
    BY <1>1 , <1>3 DEF InLine, AllOf
  <1> QED BY <1>1, <1>2, <1>3, <1>4, <1>5, <1>6 DEF InLine

(* Batches of the other mode do not count.                                 *)
LEMMA LineOther ==
  ASSUME NEW q, NEW t, NEW t2, NEW m \in Modes, NEW o \in Modes, o # m,
         AllOf(t, m), AllOf(t2, m), t \in Seq(Task), t2 \in Seq(Task),
         NEW n, NEW d, InLine(q, t, o, n, d)
  PROVE  InLine(q, t2, o, n, d)
  <1>1. Waits(t, o) = 0 /\ Waits(t2, o) = 0
    BY WaitsForAll
  <1> QED BY <1>1 DEF InLine, AllOf

(* A batch handed to the executor is the last of its line.                 *)
LEMMA LineSubmitted ==
  ASSUME NEW q \in Seq(Result), NEW t \in Seq(Task), NEW b \in Task,
         AllOf(t, b.mode), NEW n \in Nat, NEW d \in Nat,
         InLine(q, t, b.mode, n, d), b.seq = n
  PROVE  /\ AllOf(Append(t, b), b.mode)
         /\ InLine(q, Append(t, b), b.mode, n + 1, d + 1)
  <1> DEFINE u == Append(t, b)
  <1>1. /\ Len(t) \in Nat /\ Len(q) \in Nat /\ Len(u) = Len(t) + 1
        /\ \A i \in 1..Len(t) : u[i] = t[i]
        /\ u[Len(t) + 1] = b /\ u # << >>
    OBVIOUS
  <1> HIDE DEF u
  <1>2. AllOf(u, b.mode)
    BY <1>1 DEF AllOf
  <1>3. Waits(t, b.mode) = Len(t) /\ Waits(u, b.mode) = Len(t) + 1
    <2>1. u \in Seq(Task)
      BY DEF u
    <2> QED BY <1>1, <1>2, <2>1, WaitsForAll
  <1>4. \A i \in 1..Len(u) : u[i].seq = (n + 1) - Len(u) + i - 1
    <2>1. \A i \in 1..Len(t) : t[i].seq = n - Len(t) + i - 1
      BY DEF InLine, AllOf
    <2> QED BY <1>1, <2>1
  <1>5. Len(q) + Waits(u, b.mode) = d + 1
    BY <1>1, <1>3 DEF InLine
  <1>6. \A i \in 1..Len(q) : q[i].seq = (n + 1) - (d + 1) + i - 1
    BY <1>1 DEF InLine
  <1>7. InLine(q, u, b.mode, n + 1, d + 1)
    BY <1>4, <1>5, <1>6 DEF InLine
  <1> QED BY <1>2, <1>7 DEF u

(* What is taken from a queue is the oldest batch the line owes.           *)
LEMMA LineTaken ==
  ASSUME NEW q \in Seq(Result), q # << >>, NEW t, NEW m, NEW n \in Nat,
         NEW d \in Nat, InLine(q, t, m, n, d), Waits(t, m) \in Nat
  PROVE  /\ Head(q).seq = n - d
         /\ InLine(Tail(q), t, m, n, d - 1)
  <1>1. /\ Len(q) \in Nat /\ Len(q) >= 1 /\ Head(q) = q[1]
        /\ Len(Tail(q)) = Len(q) - 1
        /\ \A i \in 1..Len(Tail(q)) : Tail(q)[i] = q[i + 1] /\ i + 1 \in 1..Len(q)
    BY HeadTailProperties
  <1> QED BY <1>1 DEF InLine

(* The first batch of a queue is number 0.                                 *)
LEMMA LineFirst ==
  ASSUME NEW m, NEW a, a.seq = 0
  PROVE  InLine(Append(<< >>, a), << >>, m, 1, 1)
  BY DEF InLine, Waits
-----------------------------------------------------------------------------
RInv == TypeInv /\ \A r \in Ranks : RankOK(r)

LEMMA InitRankOK ==
  ASSUME OneEvaluation, Init, NEW r \in Ranks
  PROVE  RankOK(r)
  <1>1. /\ pc[r] = "prefetchGather" /\ asks[r] = [m \in Modes |-> 0]
        /\ tasks[r] = << >> /\ queue[r] = [m \in Modes |-> << >>]
        /\ evalsLeft[r] = EvalsAfter[0] /\ ~inEval[r] /\ ~shouldEval[r]
        /\ buffer[r] = Nothing
    BY DEF Init
  <1>2. evalsLeft[r] <= 1
    BY <1>1, StepAssumption DEF OneEvaluation, Version
  <1>3. LineOK(r)
    BY <1>1 DEF LineOK, AllOf, InLine, Due, Waits, Modes
  <1>4. WhereOK(r)
    BY <1>1, <1>2 DEF WhereOK, Prefetching, Mode, Modes, InGeneration
  <1>5. HoldsOK(r)
    BY <1>1 DEF HoldsOK
  <1> QED BY <1>3, <1>4, <1>5 DEF RankOK

(* A rank whose fields a step leaves alone keeps its place.                *)
LEMMA RankFrame ==
  ASSUME NEW r \in Ranks, RankOK(r),
         pc'[r] = pc[r], asks'[r] = asks[r], tasks'[r] = tasks[r],
         queue'[r] = queue[r], shouldEval'[r] = shouldEval[r],
         inEval'[r] = inEval[r], evalsLeft'[r] = evalsLeft[r],
         evalFlag'[r] = evalFlag[r], got'[r] = got[r], buffer'[r] = buffer[r]
  PROVE  RankOK(r)'
  <1>1. LineOK(r)'
    BY DEF RankOK, LineOK, Due, Mode
  <1>2. WhereOK(r)'
    BY DEF RankOK, WhereOK, Prefetching, Mode
  <1>3. HoldsOK(r)'
    BY DEF RankOK, HoldsOK, Mode
  <1> QED BY <1>1, <1>2, <1>3 DEF RankOK

(* So does its line, whatever its main thread does with what it holds.     *)
LEMMA LineFrame ==
  ASSUME NEW r \in Ranks, LineOK(r), asks'[r] = asks[r],
         tasks'[r] = tasks[r], queue'[r] = queue[r],
         \A m \in Modes : Due(r, m)' = Due(r, m)
  PROVE  LineOK(r)'
  BY DEF LineOK

(* An answer put by the executor leaves its rank in its place.             *)
LEMMA AnswerRankOK ==
  ASSUME TypeOK, NEW r \in Ranks, RankOK(r), tasks[r] # << >>, NEW v,
         PutResult(r, v),
         UNCHANGED <<pc, asks, shouldEval, inEval, evalsLeft, evalFlag, got,
                     buffer>>
  PROVE  RankOK(r)'
  <1> DEFINE t == Head(tasks[r])
             a == Answer(r, t, v)
  <1>1. PICK m \in Modes : AllOf(tasks[r], m)
    BY DEF RankOK, LineOK
  <1>2. /\ tasks[r] \in Seq(Task) /\ queue[r] \in [Modes -> Seq(Result)]
        /\ t = tasks[r][1] /\ 1 \in 1..Len(tasks[r])
        /\ Tail(tasks[r]) \in Seq(Task)
        /\ \A i \in 1..Len(Tail(tasks[r])) :
               Tail(tasks[r])[i] = tasks[r][i + 1] /\ i + 1 \in 1..Len(tasks[r])
    BY HeadTailProperties DEF TypeOK
  <1>3. t.mode = m /\ a.seq = t.seq
    BY <1>1, <1>2 DEF AllOf, Answer
  <1>4. /\ tasks'[r] = Tail(tasks[r])
        /\ queue'[r][m] = Append(queue[r][m], a)
        /\ \A o \in Modes : o # m => queue'[r][o] = queue[r][o]
    BY <1>2, <1>3 DEF PutResult, TypeOK
  <1>5. \A o : AllOf(tasks[r], o) => AllOf(tasks'[r], o)
    BY <1>2, <1>4 DEF AllOf
  <1>6. \A o \in Modes : Due(r, o)' = Due(r, o) /\ Due(r, o) \in Nat /\ asks[r][o] \in Nat
    BY DEF Due, Mode, TypeOK
  <1>7. ASSUME NEW o \in Modes
        PROVE  InLine(queue'[r][o], tasks'[r], o, asks'[r][o], Due(r, o)')
    <2>1. InLine(queue[r][o], tasks[r], o, asks[r][o], Due(r, o))
      BY DEF RankOK, LineOK
    <2>2. CASE o = m
      <3> HIDE DEF a, t
      <3>1. InLine(Append(queue[r][m], a), Tail(tasks[r]), m, asks[r][m], Due(r, m))
        BY <1>1, <1>2, <1>3, <1>6, <2>1, <2>2, LineAnswered DEF t
      <3> QED BY <1>4, <1>6, <2>2, <3>1
    <2>3. CASE o # m
      <3>1. InLine(queue[r][o], Tail(tasks[r]), o, asks[r][o], Due(r, o))
        BY <1>1, <1>2, <1>4, <1>5, <2>1, <2>3, LineOther
      <3> QED BY <1>4, <1>6, <2>3, <3>1
    <2> QED BY <2>2, <2>3
  <1>8. LineOK(r)'
    BY <1>1, <1>5, <1>7 DEF LineOK
  <1>9. WhereOK(r)'
    <2>1. tasks[r] = << >> => tasks'[r] = << >>
      OBVIOUS
    <2>2. Prefetching(r) => tasks[r] = << >>
      BY DEF RankOK, WhereOK
    <2> QED BY <1>5, <2>1, <2>2 DEF RankOK, WhereOK, Prefetching, Mode
  <1>10. HoldsOK(r)'
    BY DEF RankOK, HoldsOK, Mode
  <1> QED BY <1>8, <1>9, <1>10 DEF RankOK

LEMMA ExecutorRankOK ==
  ASSUME ~InferMayFail, RInv, Executor, NEW s \in Ranks
  PROVE  RankOK(s)'
  <1> USE MainAssumption DEF RInv, TypeInv
  <1>1. UNCHANGED <<pc, asks, shouldEval, inEval, evalsLeft, evalFlag, got, buffer>>
    BY DEF Executor, StartInfer, FinishInfer, FailInfer, FollowInfer, flow, data
  <1>2. CASE StartInfer
    BY <1>1, <1>2, RankFrame DEF StartInfer
  <1>3. CASE FinishInfer
    <2>1. PutResult(Main, SampledFrom(started)) /\ tasks[Main] # << >>
      BY <1>3 DEF FinishInfer, FlowOK
    <2>2. s # Main => tasks'[s] = tasks[s] /\ queue'[s] = queue[s]
      BY <2>1 DEF PutResult, TypeOK
    <2> QED BY <1>1, <2>1, <2>2, AnswerRankOK, RankFrame
  <1>4. ASSUME NEW r \in Ranks, FollowInfer(r) PROVE RankOK(s)'
    <2>1. PutResult(r, Mixed) /\ tasks[r] # << >>
      BY <1>4 DEF FollowInfer
    <2>2. s # r => tasks'[s] = tasks[s] /\ queue'[s] = queue[s]
      BY <2>1 DEF PutResult, TypeOK
    <2> QED BY <1>1, <2>1, <2>2, AnswerRankOK, RankFrame
  <1> QED BY <1>2, <1>3, <1>4 DEF Executor, FailInfer

(* A load, sent or only recorded, changes where a rank is and nothing else *)
(* that its place depends on.                                              *)
LEMMA LoadRankOK ==
  ASSUME RInv, MainLoad \/ \E r \in Ranks : FollowLoad(r), NEW s \in Ranks
  PROVE  RankOK(s)'
  <1> USE MainAssumption DEF RInv, TypeInv
  <1>1. UNCHANGED <<asks, tasks, queue, shouldEval, inEval, evalsLeft, evalFlag,
                    got, buffer>>
    BY DEF MainLoad, BeginLoad, EndLoad, SkipLoad, FollowLoad, flow, data
  <1>2. \/ pc'[s] = pc[s]
        \/ pc[s] \in {"prefetchLoad", "prefetchLoading"}
           /\ pc'[s] \in {"prefetchLoading", "prefetchInfer"}
        \/ pc[s] \in {"genLoad", "genLoading"}
           /\ pc'[s] \in {"genLoading", "genGather"}
    BY DEF MainLoad, BeginLoad, EndLoad, SkipLoad, FollowLoad, MayLoad,
           AfterLoad, TypeOK
  <1>3. RankOK(s)
    OBVIOUS
  <1>4. LineOK(s)'
    BY <1>1, <1>2, <1>3, LineFrame DEF RankOK, Due, Mode
  <1>5. WhereOK(s)'
    BY <1>1, <1>2, <1>3 DEF RankOK, WhereOK, Prefetching, Mode, InGeneration
  <1>6. HoldsOK(s)'
    BY <1>1, <1>2, <1>3 DEF RankOK, HoldsOK, Mode
  <1> QED BY <1>4, <1>5, <1>6 DEF RankOK
(* The prefetch puts the first batch of its queue.                         *)
LEMMA PrefetchRankOK ==
  ASSUME RInv, NEW r \in Ranks, PrefetchInfer(r)
  PROVE  RankOK(r)'
  <1> USE DEF RInv, TypeInv
  <1> PICK m \in Modes : m = Mode(r)
    BY NewTaskType
  <1> DEFINE a == Answer(r, NewTask(r), SampledFrom(weights))
  <1>0. RankOK(r) /\ pc[r] = "prefetchInfer"
    BY DEF PrefetchInfer
  <1>1. /\ tasks[r] = << >> /\ asks[r][m] = 0 /\ (inEval[r] <=> shouldEval[r])
        /\ evalsLeft[r] <= 1
    BY <1>0 DEF RankOK, WhereOK, Prefetching
  <1>2. queue[r] \in [Modes -> Seq(Result)] /\ asks[r] \in [Modes -> Nat]
    BY DEF TypeOK
  <1>3. queue[r][m] = << >>
    <2>1. InLine(queue[r][m], tasks[r], m, 0, 0)
      BY <1>0, <1>1 DEF RankOK, LineOK, Due
    <2> QED BY <1>0, <1>1, <1>2, <2>1 DEF InLine, Waits
  <1>4. /\ queue'[r][m] = Append(<< >>, a) /\ a.seq = 0
        /\ \A o \in Modes : o # m => queue'[r][o] = queue[r][o]
    BY <1>0, <1>1, <1>2, <1>3 DEF PrefetchInfer, TypeOK, Answer, NewTask
  <1>5. /\ asks'[r][m] = 1
        /\ \A o \in Modes : o # m => asks'[r][o] = asks[r][o]
    BY <1>0, <1>1, <1>2 DEF PrefetchInfer, TypeOK
  <1>6. /\ UNCHANGED <<tasks, shouldEval, inEval, evalsLeft, evalFlag, got, buffer, step>>
        /\ pc'[r] = IF inEval[r] THEN "evalNext" ELSE AfterStep(step[r], evalsLeft[r])
    BY DEF PrefetchInfer, flow, data, clock, TypeOK
  <1>7. pc'[r] \in {"evalNext", "evalWait", "done", "stepWait"}
        /\ (pc'[r] = "evalNext" <=> inEval[r])
    BY <1>6 DEF AfterStep
  <1>8. LineOK(r)'
    <2>1. \A o \in Modes : AllOf(tasks'[r], o)
      BY <1>1, <1>6 DEF AllOf
    <2>2. Due(r, m)' = 1 /\ \A o \in Modes : o # m => Due(r, o)' = Due(r, o)
      BY <1>0, <1>5, <1>7 DEF Due
    <2>3. InLine(queue'[r][m], tasks'[r], m, asks'[r][m], Due(r, m)')
      <3> HIDE DEF a
      <3> QED BY <1>1, <1>4, <1>5, <1>6, <2>2, LineFirst
    <2>4. \A o \in Modes : o # m =>
             InLine(queue'[r][o], tasks'[r], o, asks'[r][o], Due(r, o)')
      BY <1>0, <1>4, <1>5, <1>6, <2>2 DEF RankOK, LineOK
    <2> QED BY <2>1, <2>3, <2>4 DEF LineOK, Modes
  <1>9. asks'[r]["train"] > 0
    <2>1. CASE inEval[r]
      <3>1. m = "eval" /\ asks[r]["train"] > 0 /\ "train" \in Modes
        BY <1>0, <1>1, <2>1 DEF Mode, RankOK, WhereOK, Modes
      <3> QED BY <1>5, <3>1
    <2>2. CASE ~inEval[r]
      BY <1>1, <1>5, <2>2 DEF Mode
    <2> QED BY <2>1, <2>2
  <1>10. WhereOK(r)'
    <2>1. \A o : AllOf(tasks'[r], o)
      BY <1>1, <1>6 DEF AllOf
    <2>2. pc'[r] = "stepWait" => ~shouldEval[r]
      BY <1>1, <1>6 DEF AfterStep
    <2> QED BY <1>1, <1>5, <1>6, <1>7, <1>9, <2>1, <2>2
            DEF WhereOK, Prefetching, Mode, InGeneration
  <1>11. HoldsOK(r)'
    <2>1. CASE buffer[r] = Nothing
      BY <1>6, <1>7, <2>1 DEF HoldsOK
    <2>2. CASE buffer[r] # Nothing
      <3>1. buffer[r].seq \in Nat /\ buffer[r].seq = asks[r]["train"] - 2
        BY <1>0, <2>2 DEF TypeOK, Result, RankOK, HoldsOK
      <3>2. m = "eval" /\ shouldEval[r]
        BY <1>1, <3>1 DEF Mode
      <3>3. asks'[r]["train"] = asks[r]["train"]
        BY <1>5, <3>2 DEF Modes
      <3> QED BY <1>6, <1>7, <3>1, <3>2, <3>3 DEF HoldsOK
    <2> QED BY <2>1, <2>2
  <1> QED BY <1>8, <1>10, <1>11 DEF RankOK

(* What is taken from the queue is the last but one batch asked for.       *)
LEMMA GetRankOK ==
  ASSUME RInv, NEW r \in Ranks, GetResult(r)
  PROVE  RankOK(r)'
  <1> USE DEF RInv, TypeInv
  <1> PICK m \in Modes : m = Mode(r)
    BY NewTaskType
  <1> DEFINE q == queue[r][m]
  <1>0. /\ RankOK(r) /\ pc[r] = "genGet" /\ q # << >>
        /\ pc'[r] = "resGather"
    BY DEF GetResult, Queue, TypeOK
  <1>1. /\ queue[r] \in [Modes -> Seq(Result)] /\ asks[r] \in [Modes -> Nat]
        /\ tasks[r] \in Seq(Task)
    BY DEF TypeOK
  <1>2. AllOf(tasks[r], m) /\ asks[r][m] > 1
    BY <1>0 DEF RankOK, WhereOK, InGeneration
  <1>3. InLine(q, tasks[r], m, asks[r][m], 2)
    BY <1>0, <1>2 DEF RankOK, LineOK, Due
  <1>4. /\ got'[r] = Head(q) /\ queue'[r][m] = Tail(q)
        /\ \A o \in Modes : o # m => queue'[r][o] = queue[r][o]
        /\ UNCHANGED <<asks, tasks, shouldEval, inEval, evalsLeft, evalFlag, buffer>>
    BY <1>0, <1>1 DEF GetResult, Queue, TypeOK, flow
  <1>5. Head(q).seq = asks[r][m] - 2 /\ InLine(Tail(q), tasks[r], m, asks[r][m], 1)
    <2>1. Waits(tasks[r], m) \in Nat
      BY <1>1, <1>2, WaitsForAll
    <2>2. q \in Seq(Result) /\ asks[r][m] \in Nat
      BY <1>0, <1>1
    <2>3. InLine(Tail(q), tasks[r], m, asks[r][m], 2 - 1) /\ Head(q).seq = asks[r][m] - 2
      <3> HIDE DEF q
      <3> QED BY <1>0, <1>3, <2>1, <2>2, LineTaken
    <2> QED BY <2>3
  <1>6. LineOK(r)'
    <2>1. Due(r, m)' = 1 /\ \A o \in Modes : o # m => Due(r, o)' = Due(r, o)
      BY <1>0, <1>1, <1>2, <1>4 DEF Due, Mode
    <2>2. \A o \in Modes : InLine(queue'[r][o], tasks'[r], o, asks'[r][o], Due(r, o)')
      BY <1>0, <1>4, <1>5, <2>1 DEF RankOK, LineOK
    <2> QED BY <1>0, <1>2, <1>4, <2>2 DEF LineOK
  <1>7. WhereOK(r)'
    BY <1>0, <1>4 DEF RankOK, WhereOK, Prefetching, Mode, InGeneration
  <1>8. HoldsOK(r)'
    BY <1>0, <1>4, <1>5 DEF RankOK, HoldsOK, Mode
  <1> QED BY <1>6, <1>7, <1>8 DEF RankOK

(* The waits of training_step and of evaluation_loop leave the executor    *)
(* with batches of one mode, the one the next generation is of.            *)
LEMMA WaitDrains ==
  ASSUME RInv, NEW r \in Ranks, NEW m \in Modes, AllOf(tasks[r], m),
         queue[r][m] # << >>, pc[r] # "genGet"
  PROVE  tasks[r] = << >>
  <1>1. InLine(queue[r][m], tasks[r], m, asks[r][m], Due(r, m)) /\ Due(r, m) <= 1
    BY DEF RInv, RankOK, LineOK, Due
  <1>2. tasks[r] \in Seq(Task) /\ queue[r][m] \in Seq(Result)
    BY DEF RInv, TypeInv, TypeOK
  <1>3. Len(queue[r][m]) \in Nat /\ Len(queue[r][m]) > 0 /\ Len(tasks[r]) \in Nat
    BY <1>2
  <1>4. Len(tasks[r]) = 0
    BY <1>1, <1>2, <1>3, WaitsForAll DEF InLine
  <1> QED BY <1>2, <1>4

(* An evaluation prefetches exactly when its queue was never asked for.    *)
LEMMA BeginsInLine ==
  ASSUME RInv, NEW r \in Ranks, BeginEval(r)
  PROVE  /\ tasks[r] = << >> /\ asks[r]["train"] > 0
         /\ pc'[r] = "prefetchGather" => shouldEval[r] /\ asks[r]["eval"] = 0
         /\ pc'[r] # "prefetchGather" => asks[r][Mode(r)] > 0
         /\ pc'[r] = "prefetchGather" <=> shouldEval[r] /\ asks[r]["eval"] = 0
  <1> USE DEF RInv, TypeInv
  <1>1. /\ RankOK(r) /\ pc[r] = "evalWait" /\ queue[r]["train"] # << >>
        /\ pc'[r] = IF queue[r][Mode(r)] = << >> THEN "prefetchGather" ELSE "evalNext"
    BY DEF BeginEval, TypeOK, Queue
  <1>2. tasks[r] = << >>
    BY <1>1, WaitDrains DEF RankOK, WhereOK, Modes
  <1>3. \A m \in Modes : queue[r][m] = << >> <=> asks[r][m] = 0
    <2>1. \A m \in Modes : /\ InLine(queue[r][m], tasks[r], m, asks[r][m], Due(r, m))
                           /\ queue[r][m] \in Seq(Result) /\ asks[r][m] \in Nat
      BY <1>1 DEF RankOK, LineOK, TypeOK
    <2> QED BY <1>1, <1>2, <2>1 DEF InLine, Waits, Due
  <1>4. asks[r]["train"] > 0 /\ Mode(r) \in Modes /\ asks[r] \in [Modes -> Nat]
    BY <1>1, NewTaskType DEF RankOK, WhereOK, Prefetching, TypeOK
  <1> QED BY <1>1, <1>2, <1>3, <1>4 DEF Mode, Modes

LEMMA LoopRankOK ==
  ASSUME RInv, NEW r \in Ranks,
         StartMicroStep(r) \/ BeginEval(r) \/ EvalBatch(r) \/ EndEval(r)
  PROVE  RankOK(r)'
  <1> USE DEF RInv, TypeInv
  <1>0. RankOK(r)
    OBVIOUS
  <1>1. /\ UNCHANGED <<asks, tasks, queue, got, buffer>>
        /\ pc[r] \in {"stepWait", "evalWait", "evalNext"}
        /\ pc'[r] \in {"backward", "genLoad", "genGather", "prefetchGather", "evalNext",
                       "done", "stepWait", "evalWait"}
    BY DEF StartMicroStep, BeginEval, EvalBatch, EndEval, AfterStep, data, TypeOK
  <1>2. LineOK(r)'
    BY <1>0, <1>1, LineFrame DEF RankOK, Due
  <1>3. CASE StartMicroStep(r)
    <2>1. /\ UNCHANGED <<shouldEval, inEval, evalsLeft, evalFlag>>
          /\ ~shouldEval[r] /\ ~inEval[r] /\ Mode(r) = "train"
          /\ pc[r] = "stepWait" /\ pc'[r] \in {"backward", "genLoad", "genGather"}
          /\ pc'[r] = "backward" => buffer[r] # Nothing
      BY <1>0, <1>3 DEF StartMicroStep, flow, TypeOK, RankOK, WhereOK, FlowOK, Mode
    <2>2. AllOf(tasks[r], "train")
      <3>1. CASE AllOf(tasks[r], "eval") /\ evalFlag[r]
        <4>1. queue[r]["eval"] # << >>
          BY <1>3, <3>1 DEF StartMicroStep
        <4>2. tasks[r] = << >>
          BY <2>1, <3>1, <4>1, WaitDrains DEF Modes
        <4> QED BY <4>2 DEF AllOf
      <3> QED BY <1>0, <2>1, <3>1 DEF RankOK, WhereOK
    <2>3. WhereOK(r)'
      BY <1>0, <1>1, <2>1, <2>2 DEF RankOK, WhereOK, Prefetching, Mode, InGeneration
    <2>4. HoldsOK(r)'
      BY <1>0, <1>1, <2>1 DEF RankOK, HoldsOK
    <2> QED BY <1>2, <2>3, <2>4 DEF RankOK
  <1>4. CASE BeginEval(r)
    <2>1. /\ UNCHANGED <<shouldEval, evalsLeft, evalFlag>> /\ inEval'[r]
          /\ pc[r] = "evalWait" /\ ~inEval[r] /\ evalsLeft[r] > 0
          /\ queue[r]["train"] # << >>
          /\ pc'[r] = IF queue[r][Mode(r)] = << >> THEN "prefetchGather" ELSE "evalNext"
      BY <1>4 DEF BeginEval, TypeOK, FlowOK, Queue
    <2>2. /\ tasks[r] = << >> /\ asks[r]["train"] > 0
          /\ pc'[r] = "prefetchGather" => shouldEval[r] /\ asks[r]["eval"] = 0
          /\ pc'[r] # "prefetchGather" => asks[r][Mode(r)] > 0
      BY <1>4, BeginsInLine
    <2>3. pc'[r] = "prefetchGather" => asks[r][Mode(r)] = 0
      BY <2>2 DEF Mode
    <2>4. \A o : AllOf(tasks[r], o)
      BY <2>2 DEF AllOf
    <2>5. WhereOK(r)'
      BY <1>0, <1>1, <2>1, <2>2, <2>3, <2>4
      DEF RankOK, WhereOK, Prefetching, Mode, InGeneration
    <2>6. HoldsOK(r)'
      BY <1>0, <1>1, <2>1 DEF RankOK, HoldsOK, Mode
    <2> QED BY <1>2, <2>5, <2>6 DEF RankOK
  <1>5. CASE EvalBatch(r)
    <2>1. /\ UNCHANGED <<shouldEval, inEval, evalsLeft, evalFlag>>
          /\ pc[r] = "evalNext" /\ pc'[r] \in {"genLoad", "genGather"} /\ inEval[r]
      BY <1>5 DEF EvalBatch, flow, TypeOK, FlowOK
    <2>2. WhereOK(r)'
      BY <1>0, <1>1, <2>1 DEF RankOK, WhereOK, Prefetching, Mode, InGeneration
    <2>3. HoldsOK(r)'
      BY <1>0, <1>1, <2>1 DEF RankOK, HoldsOK, Mode
    <2> QED BY <1>2, <2>2, <2>3 DEF RankOK
  <1>6. CASE EndEval(r)
    <2>1. evalsLeft[r] = 1
      BY <1>0, <1>6 DEF EndEval, FlowOK, TypeOK, RankOK, WhereOK
    <2>2. pc[r] = "evalNext" /\ inEval[r] /\ ~inEval'[r] /\ evalsLeft'[r] = 0
      BY <1>6, <2>1 DEF EndEval, TypeOK, FlowOK
    <2>3. pc'[r] \in {"stepWait", "done"}
      BY <1>6, <2>1 DEF EndEval, TypeOK, AfterStep
    <2>4. ~shouldEval'[r]
      <3>1. shouldEval' = [shouldEval EXCEPT ![r] = evalsLeft[r] > 1]
        BY <1>6 DEF EndEval
      <3>2. shouldEval \in [Ranks -> BOOLEAN]
        BY DEF TypeOK
      <3>3. (evalsLeft[r] > 1) = FALSE
        BY <2>1
      <3> QED BY <3>1, <3>2, <3>3, Zenon
    <2>5. evalFlag'[r]
      BY <1>6 DEF EndEval, TypeOK
    <2>6. AllOf(tasks[r], "train") \/ AllOf(tasks[r], "eval")
      BY <1>0 DEF RankOK, LineOK, Modes
    <2>7. WhereOK(r)'
      BY <1>0, <1>1, <2>2, <2>3, <2>4, <2>5, <2>6
      DEF RankOK, WhereOK, Prefetching, Mode, InGeneration
    <2>8. HoldsOK(r)'
      BY <1>0, <1>1, <2>2, <2>3 DEF RankOK, HoldsOK
    <2> QED BY <1>2, <2>7, <2>8 DEF RankOK
  <1> QED BY <1>3, <1>4, <1>5, <1>6

LEMMA BackwardRankOK ==
  ASSUME OneEvaluation, RInv, TypeOK', Backward, NEW r \in Ranks
  PROVE  RankOK(r)'
  <1> USE DEF RInv, TypeInv
  <1>0. /\ RankOK(r) /\ pc[r] = "backward" /\ ~inEval[r] /\ ~shouldEval[r]
    BY DEF Backward, FlowOK, RankOK, WhereOK
  <1>1. /\ UNCHANGED <<asks, tasks, queue, got, buffer, inEval, evalFlag>>
        /\ evalsLeft'[r] = IF EndsStep(r) THEN EvalsAfter[step'[r]] ELSE 0
        /\ shouldEval'[r] = (evalsLeft'[r] > 0)
        /\ pc'[r] = AfterStep(step'[r], evalsLeft'[r])
    BY DEF Backward, data
  <1>2. evalsLeft'[r] \in {0, 1}
    BY <1>1 DEF OneEvaluation, TypeOK
  <1>3. /\ pc'[r] \in {"evalWait", "done", "stepWait"}
        /\ pc'[r] = "evalWait" <=> shouldEval'[r]
    BY <1>1, <1>2 DEF AfterStep
  <1>4. LineOK(r)'
    BY <1>0, <1>1, <1>3, LineFrame DEF RankOK, Due
  <1>5. AllOf(tasks[r], "train") /\ asks[r]["train"] > 0
    BY <1>0 DEF RankOK, WhereOK, Mode, Prefetching
  <1>6. WhereOK(r)'
    BY <1>0, <1>1, <1>2, <1>3, <1>5 DEF WhereOK, Prefetching, InGeneration
  <1>7. HoldsOK(r)'
    BY <1>0, <1>1, <1>3 DEF RankOK, HoldsOK
  <1> QED BY <1>4, <1>6, <1>7 DEF RankOK
-----------------------------------------------------------------------------
(* What a rank will look like at its next collective, from what it looks   *)
(* like now: its own steps on the way are determined by that.              *)
Here(r) == [pc |-> pc[r], step |-> step[r], micro |-> micro[r],
            lastLoaded |-> lastLoaded[r], shouldEval |-> shouldEval[r],
            inEval |-> inEval[r], evalFlag |-> evalFlag[r],
            evalsLeft |-> evalsLeft[r], evalIdx |-> evalIdx[r],
            asks |-> asks[r], buffer |-> buffer[r]]

(* x once it is at p, with what its own steps can change.                  *)
At(x, p, loaded, should, in, flag, left, idx, asked) ==
    [pc |-> p, step |-> x.step, micro |-> x.micro, lastLoaded |-> loaded,
     shouldEval |-> should, inEval |-> in, evalFlag |-> flag,
     evalsLeft |-> left, evalIdx |-> idx, asks |-> asked, buffer |-> x.buffer]

Moved(x, p) == At(x, p, x.lastLoaded, x.shouldEval, x.inEval, x.evalFlag,
                  x.evalsLeft, x.evalIdx, x.asks)
MovedLoaded(x, p) == At(x, p, x.step, x.shouldEval, x.inEval, x.evalFlag,
                        x.evalsLeft, x.evalIdx, x.asks)
Loaded(x) == MovedLoaded(x, "genGather")
FromStepWait(x) == IF x.micro % GenEvery # 0 /\ x.buffer # Nothing
                   THEN Moved(x, "backward") ELSE Loaded(x)

Settled(x) == IF x.pc = "stepWait" THEN FromStepWait(x) ELSE x
Ended(x) == At(x, IF x.step = MaxStep THEN "done" ELSE "stepWait",
               x.lastLoaded, FALSE, FALSE, TRUE, 0, x.evalIdx, x.asks)
FromEvalNext(x) ==
    IF x.evalIdx < EvalBatches THEN Loaded(x) ELSE Settled(Ended(x))

Begun(x, p) == At(x, p, x.lastLoaded, x.shouldEval, TRUE, x.evalFlag,
                  x.evalsLeft, 0, x.asks)
FromEvalWait(x) ==
    IF x.shouldEval /\ x.asks["eval"] = 0 THEN Begun(x, "prefetchGather")
    ELSE FromEvalNext(Begun(x, "evalNext"))

Prefetched(x) ==
    At(x, IF x.inEval THEN "evalNext" ELSE AfterStep(x.step, x.evalsLeft),
       x.lastLoaded, x.shouldEval, x.inEval, x.evalFlag, x.evalsLeft, x.evalIdx,
       [x.asks EXCEPT ![IF x.shouldEval THEN "eval" ELSE "train"] = @ + 1])
FromPrefetchInfer(x) ==
    CASE x.inEval -> FromEvalNext(Prefetched(x))
      [] ~x.inEval /\ x.evalsLeft > 0 -> FromEvalWait(Prefetched(x))
      [] ~x.inEval /\ ~(x.evalsLeft > 0) -> Settled(Prefetched(x))
PrefetchLoaded(x) == MovedLoaded(x, "prefetchInfer")

AtGather(x) ==
    CASE x.pc \in {"genLoad", "genLoading"} -> Loaded(x)
      [] x.pc = "genGet" -> Moved(x, "resGather")
      [] x.pc = "stepWait" -> FromStepWait(x)
      [] x.pc = "evalNext" -> FromEvalNext(x)
      [] x.pc = "evalWait" -> FromEvalWait(x)
      [] x.pc = "prefetchInfer" -> FromPrefetchInfer(x)
      [] x.pc \in {"prefetchLoad", "prefetchLoading"} ->
            FromPrefetchInfer(PrefetchLoaded(x))
      [] x.pc \in {"prefetchGather", "genGather", "resGather", "backward", "done"} -> x

Aligned == \A r, s \in Ranks : AtGather(Here(r)) = AtGather(Here(s))

(* A rank that does not move is on its way to the same collective.         *)
LEMMA HereFrame ==
  ASSUME NEW r,
         pc'[r] = pc[r], step'[r] = step[r], micro'[r] = micro[r],
         lastLoaded'[r] = lastLoaded[r], shouldEval'[r] = shouldEval[r],
         inEval'[r] = inEval[r], evalFlag'[r] = evalFlag[r],
         evalsLeft'[r] = evalsLeft[r], evalIdx'[r] = evalIdx[r],
         asks'[r] = asks[r], buffer'[r] = buffer[r]
  PROVE  AtGather(Here(r))' = AtGather(Here(r))
  <1>1. Here(r)' = Here(r)
    BY DEF Here
  <1> QED BY <1>1

LEMMA HereFields ==
  ASSUME NEW r
  PROVE  /\ Here(r)'.pc = pc'[r]
         /\ Here(r).pc = pc[r] /\ Here(r).step = step[r]
         /\ Here(r).micro = micro[r] /\ Here(r).lastLoaded = lastLoaded[r]
         /\ Here(r).shouldEval = shouldEval[r] /\ Here(r).inEval = inEval[r]
         /\ Here(r).evalFlag = evalFlag[r] /\ Here(r).evalsLeft = evalsLeft[r]
         /\ Here(r).evalIdx = evalIdx[r] /\ Here(r).asks = asks[r]
         /\ Here(r).buffer = buffer[r]
  BY DEF Here

(* A load only moves a rank on: where it ends is where it was heading.     *)
LEMMA LoadAligned ==
  ASSUME TypeInv, MainLoad \/ \E r \in Ranks : FollowLoad(r), NEW s \in Ranks
  PROVE  AtGather(Here(s))' = AtGather(Here(s))
  <1> USE MainAssumption DEF TypeInv
  <1>1. UNCHANGED <<step, micro, shouldEval, inEval, evalFlag, evalsLeft, evalIdx,
                    asks, buffer>>
    BY DEF MainLoad, BeginLoad, EndLoad, SkipLoad, FollowLoad, flow, data, clock
  <1>2. \/ pc'[s] = pc[s] /\ lastLoaded'[s] = lastLoaded[s]
        \/ pc[s] = "genLoad" /\ pc'[s] = "genLoading"
           /\ lastLoaded'[s] = lastLoaded[s]
        \/ pc[s] = "prefetchLoad" /\ pc'[s] = "prefetchLoading"
           /\ lastLoaded'[s] = lastLoaded[s]
        \/ pc[s] \in {"genLoad", "genLoading"} /\ pc'[s] = "genGather"
           /\ lastLoaded'[s] = step[s]
        \/ pc[s] \in {"prefetchLoad", "prefetchLoading"}
           /\ pc'[s] = "prefetchInfer" /\ lastLoaded'[s] = step[s]
    BY DEF MainLoad, BeginLoad, EndLoad, SkipLoad, FollowLoad, MayLoad, AfterLoad,
           TypeOK
  <1>3. CASE pc'[s] = pc[s] /\ lastLoaded'[s] = lastLoaded[s]
    BY <1>1, <1>3, HereFrame
  <1>4. CASE pc[s] = "genLoad" /\ pc'[s] = "genLoading"
             /\ lastLoaded'[s] = lastLoaded[s]
    <2>1. Loaded(Here(s)') = Loaded(Here(s))
      BY <1>1, <1>4 DEF Here, Loaded, MovedLoaded, At
    <2> QED BY <1>4, <2>1, HereFields DEF AtGather
  <1>5. CASE pc[s] = "prefetchLoad" /\ pc'[s] = "prefetchLoading"
             /\ lastLoaded'[s] = lastLoaded[s]
    <2>1. PrefetchLoaded(Here(s)') = PrefetchLoaded(Here(s))
      BY <1>1, <1>5 DEF Here, PrefetchLoaded, MovedLoaded, At
    <2> QED BY <1>5, <2>1, HereFields DEF AtGather
  <1>6. CASE pc[s] \in {"genLoad", "genLoading"} /\ pc'[s] = "genGather"
             /\ lastLoaded'[s] = step[s]
    <2>1. Here(s)' = Loaded(Here(s))
      BY <1>1, <1>6 DEF Here, Loaded, MovedLoaded, At
    <2> QED BY <1>6, <2>1, HereFields DEF AtGather
  <1>7. CASE pc[s] \in {"prefetchLoad", "prefetchLoading"}
             /\ pc'[s] = "prefetchInfer" /\ lastLoaded'[s] = step[s]
    <2>1. Here(s)' = PrefetchLoaded(Here(s))
      BY <1>1, <1>7 DEF Here, PrefetchLoaded, MovedLoaded, At
    <2> QED BY <1>7, <2>1, HereFields DEF AtGather
  <1> QED BY <1>2, <1>3, <1>4, <1>5, <1>6, <1>7

LEMMA PrefetchAligned ==
  ASSUME RInv, NEW r \in Ranks, PrefetchInfer(r)
  PROVE  AtGather(Here(r))' = AtGather(Here(r))
  <1> USE DEF RInv, TypeInv
  <1> DEFINE x == Here(r)
  <1>1. Here(r)' = Prefetched(x)
    <2>1. /\ UNCHANGED <<step, micro, lastLoaded, shouldEval, inEval, evalFlag,
                         evalsLeft, evalIdx, buffer>>
          /\ pc'[r] = IF inEval[r] THEN "evalNext" ELSE AfterStep(step[r], evalsLeft[r])
          /\ asks'[r] = [asks[r] EXCEPT ![Mode(r)] = @ + 1]
      BY DEF PrefetchInfer, flow, clock, data, TypeOK
    <2>2. Mode(r) = IF x.shouldEval THEN "eval" ELSE "train"
      BY HereFields DEF Mode
    <2> QED BY <2>1, <2>2, HereFields DEF Here, Prefetched, At
  <1>2. /\ pc[r] = "prefetchInfer"
        /\ pc'[r] = IF inEval[r] THEN "evalNext" ELSE AfterStep(step[r], evalsLeft[r])
    BY DEF PrefetchInfer, TypeOK
  <1>3. /\ x.pc = "prefetchInfer" /\ x.inEval = inEval[r]
        /\ x.evalsLeft = evalsLeft[r] /\ Prefetched(x).pc = pc'[r]
    BY <1>1, <1>2, HereFields
  <1> HIDE DEF x
  <1>4. CASE inEval[r]
    BY <1>1, <1>2, <1>3, <1>4 DEF AtGather, FromPrefetchInfer, x
  <1>5. CASE ~inEval[r] /\ evalsLeft[r] > 0
    BY <1>1, <1>2, <1>3, <1>5 DEF AtGather, FromPrefetchInfer, AfterStep, x
  <1>6. CASE ~inEval[r] /\ ~(evalsLeft[r] > 0)
    BY <1>1, <1>2, <1>3, <1>6 DEF AtGather, FromPrefetchInfer, AfterStep, Settled, x
  <1> QED BY <1>4, <1>5, <1>6
LEMMA LoopAligned ==
  ASSUME RInv, NEW r \in Ranks,
         StartMicroStep(r) \/ GetResult(r) \/ BeginEval(r) \/ EvalBatch(r)
         \/ EndEval(r)
  PROVE  AtGather(Here(r))' = AtGather(Here(r))
  <1> USE DEF RInv, TypeInv
  <1>1. CASE StartMicroStep(r)
    <2>1. /\ UNCHANGED <<step, micro, lastLoaded, shouldEval, inEval, evalFlag,
                         evalsLeft, evalIdx, asks, buffer>>
          /\ pc[r] = "stepWait"
          /\ pc'[r] = IF micro[r] % GenEvery # 0 /\ buffer[r] # Nothing THEN "backward"
                      ELSE IF step[r] # lastLoaded[r] THEN "genLoad" ELSE "genGather"
      BY <1>1 DEF StartMicroStep, clock, flow, data, TypeOK, MustLoad
    <2>2. CASE micro[r] % GenEvery # 0 /\ buffer[r] # Nothing
      <3>1. Here(r)' = Moved(Here(r), "backward")
        BY <2>1, <2>2 DEF Here, Moved, At
      <3> QED BY <2>1, <2>2, <3>1, HereFields DEF AtGather, FromStepWait
    <2>3. CASE ~(micro[r] % GenEvery # 0 /\ buffer[r] # Nothing)
      <3>1. Loaded(Here(r)') = Loaded(Here(r))
        BY <2>1 DEF Here, Loaded, MovedLoaded, At
      <3>2. pc'[r] = "genGather" => Here(r)' = Loaded(Here(r))
        BY <2>1, <2>3 DEF Here, Loaded, MovedLoaded, At
      <3> QED BY <2>1, <2>3, <3>1, <3>2, HereFields DEF AtGather, FromStepWait
    <2> QED BY <2>2, <2>3
  <1>2. CASE GetResult(r)
    <2>1. /\ UNCHANGED <<step, micro, lastLoaded, shouldEval, inEval, evalFlag,
                         evalsLeft, evalIdx, asks, buffer>>
          /\ pc[r] = "genGet" /\ pc'[r] = "resGather"
      BY <1>2 DEF GetResult, clock, flow, TypeOK
    <2>2. Here(r)' = Moved(Here(r), "resGather")
      BY <2>1 DEF Here, Moved, At
    <2> QED BY <2>1, <2>2, HereFields DEF AtGather
  <1>3. CASE BeginEval(r)
    <2>1. /\ UNCHANGED <<step, micro, lastLoaded, shouldEval, evalFlag, evalsLeft,
                         asks, buffer>>
          /\ pc[r] = "evalWait" /\ inEval'[r] = TRUE /\ evalIdx'[r] = 0
          /\ pc'[r] \in {"prefetchGather", "evalNext"}
      BY <1>3 DEF BeginEval, clock, data, TypeOK
    <2>2. pc'[r] = "prefetchGather" <=> shouldEval[r] /\ asks[r]["eval"] = 0
      BY <1>3, BeginsInLine
    <2>3. Here(r)' = Begun(Here(r), pc'[r])
      BY <2>1 DEF Here, Begun, At
    <2> QED BY <2>1, <2>2, <2>3, HereFields DEF AtGather, FromEvalWait
  <1>4. CASE EvalBatch(r)
    <2>1. /\ UNCHANGED <<step, micro, lastLoaded, shouldEval, inEval, evalFlag,
                         evalsLeft, evalIdx, asks, buffer>>
          /\ pc[r] = "evalNext" /\ evalIdx[r] < EvalBatches
          /\ pc'[r] = IF step[r] # lastLoaded[r] THEN "genLoad" ELSE "genGather"
      BY <1>4 DEF EvalBatch, clock, flow, data, TypeOK, MustLoad
    <2>2. Loaded(Here(r)') = Loaded(Here(r))
      BY <2>1 DEF Here, Loaded, MovedLoaded, At
    <2>3. pc'[r] = "genGather" => Here(r)' = Loaded(Here(r))
      BY <2>1 DEF Here, Loaded, MovedLoaded, At
    <2> QED BY <2>1, <2>2, <2>3, HereFields DEF AtGather, FromEvalNext
  <1>5. CASE EndEval(r)
    <2>1. evalsLeft[r] = 1
      BY <1>5 DEF EndEval, FlowOK, TypeOK, RankOK, WhereOK
    <2>2. /\ UNCHANGED <<step, micro, lastLoaded, evalIdx, asks, buffer>>
          /\ pc[r] = "evalNext" /\ evalIdx[r] = EvalBatches
          /\ evalsLeft'[r] = 0 /\ inEval'[r] = FALSE /\ evalFlag'[r] = TRUE
          /\ pc'[r] = IF step[r] = MaxStep THEN "done" ELSE "stepWait"
      BY <1>5, <2>1 DEF EndEval, clock, data, TypeOK, AfterStep
    <2>3. shouldEval'[r] = FALSE
      <3>1. shouldEval' = [shouldEval EXCEPT ![r] = evalsLeft[r] > 1]
        BY <1>5 DEF EndEval
      <3>2. shouldEval \in [Ranks -> BOOLEAN]
        BY DEF TypeOK
      <3>3. (evalsLeft[r] > 1) = FALSE
        BY <2>1
      <3> QED BY <3>1, <3>2, <3>3, Zenon
    <2>4. Here(r)' = Ended(Here(r))
      BY <2>2, <2>3 DEF Here, Ended, At
    <2>5. AtGather(Here(r)') = Settled(Here(r)')
      BY <2>2, HereFields DEF AtGather, Settled
    <2>6. AtGather(Here(r)) = FromEvalNext(Here(r))
      BY <2>2, HereFields DEF AtGather
    <2>7. ~(evalIdx[r] < EvalBatches)
      BY <2>2, EvalAssumption
    <2> QED BY <2>4, <2>5, <2>6, <2>7, HereFields DEF FromEvalNext
  <1> QED BY <1>1, <1>2, <1>3, <1>4, <1>5
-----------------------------------------------------------------------------
AInv == RInv /\ Aligned

(* Ranks that have all come to a collective are in the same place.         *)
LEMMA MeetInOnePlace ==
  ASSUME Aligned, NEW r \in Ranks, NEW s \in Ranks,
         \A q \in Ranks : pc[q] \in GatherPoints \union {"backward"}
  PROVE  /\ pc[r] = pc[s] /\ step[r] = step[s] /\ micro[r] = micro[s]
         /\ lastLoaded[r] = lastLoaded[s] /\ shouldEval[r] = shouldEval[s]
         /\ inEval[r] = inEval[s] /\ evalFlag[r] = evalFlag[s]
         /\ evalsLeft[r] = evalsLeft[s] /\ evalIdx[r] = evalIdx[s]
         /\ asks[r] = asks[s] /\ buffer[r] = buffer[s]
  <1>1. \A q \in Ranks : AtGather(Here(q)) = Here(q)
    BY HereFields DEF AtGather, GatherPoints
  <1>2. Here(r) = Here(s)
    BY <1>1 DEF Aligned
  <1> QED BY <1>2, HereFields

LEMMA SamePlaceAligned ==
  ASSUME NEW r, NEW s,
         pc'[r] = pc'[s], step'[r] = step'[s], micro'[r] = micro'[s],
         lastLoaded'[r] = lastLoaded'[s], shouldEval'[r] = shouldEval'[s],
         inEval'[r] = inEval'[s], evalFlag'[r] = evalFlag'[s],
         evalsLeft'[r] = evalsLeft'[s], evalIdx'[r] = evalIdx'[s],
         asks'[r] = asks'[s], buffer'[r] = buffer'[s]
  PROVE  AtGather(Here(r))' = AtGather(Here(s))'
  <1>1. Here(r)' = Here(s)'
    BY DEF Here
  <1> QED BY <1>1

LEMMA GatherAligned ==
  ASSUME Aligned, GatherObject
  PROVE  Aligned'
  <1> SUFFICES ASSUME NEW r \in Ranks, NEW s \in Ranks
               PROVE  AtGather(Here(r))' = AtGather(Here(s))'
    BY DEF Aligned
  <1>1. /\ pc[r] = pc[s] /\ step[r] = step[s] /\ micro[r] = micro[s]
        /\ lastLoaded[r] = lastLoaded[s] /\ shouldEval[r] = shouldEval[s]
        /\ inEval[r] = inEval[s] /\ evalFlag[r] = evalFlag[s]
        /\ evalsLeft[r] = evalsLeft[s] /\ evalIdx[r] = evalIdx[s]
        /\ asks[r] = asks[s] /\ buffer[r] = buffer[s]
    BY MeetInOnePlace DEF GatherObject
  <1>2. UNCHANGED <<step, micro, lastLoaded, shouldEval, inEval, evalFlag, evalsLeft>>
    BY DEF GatherObject, clock, flow
  <1>3. pc'[r] = pc'[s]
    <2>1. pc'[r] = AfterGather(r) /\ pc'[s] = AfterGather(s)
      BY DEF GatherObject
    <2> QED BY <1>1, <2>1 DEF AfterGather, MustLoad
  <1>4. asks'[r] = asks'[s]
    <2>1. Mode(r) = Mode(s)
      BY <1>1 DEF Mode
    <2> QED BY <1>1, <2>1 DEF GatherObject
  <1>5. evalIdx'[r] = evalIdx'[s] /\ buffer'[r] = buffer'[s]
    BY <1>1 DEF GatherObject
  <1> QED BY <1>1, <1>2, <1>3, <1>4, <1>5, SamePlaceAligned

LEMMA BackwardAligned ==
  ASSUME Aligned, Backward
  PROVE  Aligned'
  <1> SUFFICES ASSUME NEW r \in Ranks, NEW s \in Ranks
               PROVE  AtGather(Here(r))' = AtGather(Here(s))'
    BY DEF Aligned
  <1>1. /\ pc[r] = pc[s] /\ step[r] = step[s] /\ micro[r] = micro[s]
        /\ lastLoaded[r] = lastLoaded[s] /\ shouldEval[r] = shouldEval[s]
        /\ inEval[r] = inEval[s] /\ evalFlag[r] = evalFlag[s]
        /\ evalsLeft[r] = evalsLeft[s] /\ evalIdx[r] = evalIdx[s]
        /\ asks[r] = asks[s] /\ buffer[r] = buffer[s]
    BY MeetInOnePlace DEF Backward
  <1>2. UNCHANGED <<lastLoaded, inEval, evalFlag, evalIdx, asks, buffer>>
    BY DEF Backward, data
  <1>3. EndsStep(r) <=> EndsStep(s)
    BY <1>1 DEF EndsStep
  <1>4. micro'[r] = micro'[s] /\ step'[r] = step'[s]
    BY <1>1, <1>3 DEF Backward
  <1>5. evalsLeft'[r] = evalsLeft'[s]
    BY <1>3, <1>4 DEF Backward
  <1>6. shouldEval'[r] = shouldEval'[s] /\ pc'[r] = pc'[s]
    BY <1>4, <1>5 DEF Backward
  <1> QED BY <1>1, <1>2, <1>4, <1>5, <1>6, SamePlaceAligned

(* A gather hands every rank the answer to the batch all of them wait for, *)
(* and a submitted batch is one more in its line.                          *)
LEMMA GatherRankOK ==
  ASSUME AInv, GatherObject, NEW r \in Ranks
  PROVE  RankOK(r)'
  <1> USE MainAssumption DEF AInv, RInv, TypeInv
  <1>0. RankOK(r) /\ pc[r] \in GatherPoints /\ pc'[r] = AfterGather(r)
    BY DEF GatherObject
  <1>1. UNCHANGED <<shouldEval, inEval, evalFlag, evalsLeft, queue, got>>
    BY DEF GatherObject, flow
  <1>2. Mode(r)' = Mode(r)
    BY <1>1 DEF Mode
  <1>3. CASE pc[r] = "prefetchGather"
    <2>1. /\ tasks'[r] = tasks[r] /\ asks'[r] = asks[r] /\ buffer'[r] = buffer[r]
          /\ pc'[r] \in {"prefetchLoad", "prefetchInfer"}
      BY <1>0, <1>3 DEF GatherObject, AfterGather
    <2>2. LineOK(r)'
      BY <1>0, <1>1, <1>3, <2>1, LineFrame DEF RankOK, Due
    <2>3. WhereOK(r)'
      BY <1>0, <1>1, <1>2, <1>3, <2>1 DEF RankOK, WhereOK, Prefetching, InGeneration
    <2>4. HoldsOK(r)'
      BY <1>0, <1>1, <1>2, <1>3, <2>1 DEF RankOK, HoldsOK
    <2> QED BY <2>2, <2>3, <2>4 DEF RankOK
  <1>4. CASE pc[r] = "genGather"
    <2> PICK m \in Modes : m = Mode(r)
      BY NewTaskType
    <2> DEFINE b == NewTask(r)
    <2>1. /\ tasks'[r] = Append(tasks[r], b) /\ buffer'[r] = buffer[r]
          /\ asks'[r] = [asks[r] EXCEPT ![m] = @ + 1] /\ pc'[r] = "genGet"
      BY <1>0, <1>4 DEF GatherObject, AfterGather
    <2>2. /\ tasks[r] \in Seq(Task) /\ queue[r] \in [Modes -> Seq(Result)]
          /\ asks[r] \in [Modes -> Nat] /\ b \in Task /\ b.mode = m
          /\ b.seq = asks[r][m]
      BY NewTaskType DEF TypeOK, NewTask
    <2>3. /\ AllOf(tasks[r], m) /\ asks[r][m] > 0
          /\ shouldEval[r] => inEval[r]
          /\ ~inEval[r] => m = "train"
      BY <1>0, <1>4 DEF RankOK, WhereOK, InGeneration, Mode
    <2>4. /\ AllOf(tasks'[r], m)
          /\ InLine(queue[r][m], tasks'[r], m, asks[r][m] + 1, 2)
      <3>1. InLine(queue[r][m], tasks[r], m, asks[r][m], 1)
        <4>1. Due(r, m) = 1
          BY <1>4, <2>2, <2>3 DEF Due
        <4> QED BY <1>0, <4>1 DEF RankOK, LineOK
      <3>2. queue[r][m] \in Seq(Result) /\ asks[r][m] \in Nat
        BY <2>2
      <3>3. InLine(queue[r][m], Append(tasks[r], b), m, asks[r][m] + 1, 1 + 1)
            /\ AllOf(Append(tasks[r], b), m)
        <4> HIDE DEF b
        <4>1. /\ InLine(queue[r][m], tasks[r], b.mode, asks[r][m], 1)
              /\ AllOf(tasks[r], b.mode)
          BY <2>2, <2>3, <3>1
        <4>2. 1 \in Nat
          OBVIOUS
        <4>3. InLine(queue[r][m], Append(tasks[r], b), b.mode, asks[r][m] + 1, 1 + 1)
              /\ AllOf(Append(tasks[r], b), b.mode)
          BY ONLY <2>2, <3>2, <4>1, <4>2, LineSubmitted
        <4> QED BY <2>2, <4>3
      <3> QED BY <2>1, <3>3
    <2>5. /\ asks'[r][m] = asks[r][m] + 1
          /\ \A o \in Modes : o # m => asks'[r][o] = asks[r][o]
      BY <2>1, <2>2
    <2>6. LineOK(r)'
      <3>1. Due(r, m)' = 2 /\ \A o \in Modes : o # m => Due(r, o)' = Due(r, o)
        BY <1>2, <1>4, <2>1, <2>2, <2>5 DEF Due
      <3>2. ASSUME NEW o \in Modes, o # m
            PROVE  InLine(queue[r][o], tasks'[r], o, asks'[r][o], Due(r, o)')
        <4>1. InLine(queue[r][o], tasks[r], o, asks[r][o], Due(r, o))
          BY <1>0 DEF RankOK, LineOK
        <4>2. tasks'[r] \in Seq(Task)
          BY <2>1, <2>2
        <4>3. InLine(queue[r][o], tasks'[r], o, asks[r][o], Due(r, o))
          BY ONLY <2>2, <2>3, <2>4, <3>2, <4>1, <4>2, LineOther,
                  m \in Modes, o \in Modes
        <4> QED BY <2>5, <3>1, <3>2, <4>3
      <3>3. \A o \in Modes : InLine(queue'[r][o], tasks'[r], o, asks'[r][o], Due(r, o)')
        BY <1>1, <2>4, <2>5, <3>1, <3>2
      <3> QED BY <2>4, <3>3 DEF LineOK
    <2>7. asks'[r]["train"] >= asks[r]["train"]
      BY <2>2, <2>5 DEF Modes
    <2>8. WhereOK(r)'
      <3>1. asks[r]["train"] > 0
        BY <1>0, <1>4 DEF RankOK, WhereOK, Prefetching
      <3>2. asks'[r]["train"] > 0 /\ asks'[r][m] > 1
        BY <2>2, <2>3, <2>5, <2>7, <3>1 DEF Modes
      <3> QED BY <1>0, <1>1, <1>2, <2>1, <2>3, <2>4, <3>2
              DEF WhereOK, RankOK, Prefetching, InGeneration
    <2>9. HoldsOK(r)'
      <3>1. CASE buffer[r] = Nothing
        BY <2>1, <3>1 DEF HoldsOK
      <3>2. CASE buffer[r] # Nothing
        <4>1. inEval[r] <=> m = "eval"
          BY <1>0, <2>3, <3>2 DEF RankOK, HoldsOK, Mode
        <4>2. buffer[r].seq = asks[r]["train"] - 2
          BY <1>0, <1>4, <3>2 DEF RankOK, HoldsOK
        <4>3. asks'[r]["train"] = asks[r]["train"] + (IF inEval[r] THEN 0 ELSE 1)
          BY <2>2, <2>5, <4>1 DEF Modes
        <4>4. buffer[r].seq = asks'[r]["train"] - (IF ~inEval[r] THEN 3 ELSE 2)
          BY <2>2, <4>2, <4>3 DEF Modes
        <4> QED BY <1>0, <1>1, <2>1, <3>2, <4>4 DEF RankOK, HoldsOK
      <3> QED BY <3>1, <3>2
    <2> QED BY <2>6, <2>8, <2>9 DEF RankOK
  <1>5. CASE pc[r] = "resGather"
    <2>1. /\ tasks'[r] = tasks[r] /\ asks'[r] = asks[r]
          /\ pc'[r] = IF inEval[r] THEN "evalNext" ELSE "backward"
          /\ buffer'[r] = IF inEval[r] THEN buffer[r] ELSE got[Main]
      BY <1>0, <1>5 DEF GatherObject, AfterGather
    <2>2. got[Main].seq = asks[r][Mode(r)] - 2
      <3>1. pc[Main] = pc[r] /\ asks[Main] = asks[r] /\ shouldEval[Main] = shouldEval[r]
        BY MeetInOnePlace DEF GatherObject
      <3>2. RankOK(Main)
        OBVIOUS
      <3>3. got[Main].seq = asks[Main][Mode(Main)] - 2
        BY <1>5, <3>1, <3>2 DEF RankOK, HoldsOK
      <3> QED BY <3>1, <3>3 DEF Mode
    <2>3. LineOK(r)'
      BY <1>0, <1>1, <1>5, <2>1, LineFrame DEF RankOK, Due
    <2>4. WhereOK(r)'
      <3>1. /\ asks[r][Mode(r)] > 0 /\ asks[r]["train"] > 0 /\ evalsLeft[r] <= 1
            /\ shouldEval[r] => inEval[r]
            /\ AllOf(tasks[r], Mode(r))
        <4>1. Mode(r) \in Modes /\ asks[r]["train"] \in Nat /\ asks[r][Mode(r)] \in Nat
          <5>1. Mode(r) \in Modes /\ "train" \in Modes
            BY NewTaskType, Zenon DEF Modes
          <5>2. asks \in [Ranks -> [Modes -> Nat]]
            BY DEF TypeOK
          <5> QED BY <5>1, <5>2
        <4>2. WhereOK(r)
          BY <1>0 DEF RankOK
        <4>3. pc[r] \in InGeneration /\ ~Prefetching(r)
          BY <1>5 DEF InGeneration, Prefetching
        <4> QED BY <1>5, <4>1, <4>2, <4>3 DEF WhereOK
      <3> QED BY <1>1, <1>2, <2>1, <3>1 DEF WhereOK, Prefetching, InGeneration
    <2>5. HoldsOK(r)'
      <3>1. ~inEval[r] => Mode(r) = "train"
        BY <1>0, <1>5 DEF RankOK, WhereOK, InGeneration, Mode
      <3> QED BY <1>0, <1>1, <1>5, <2>1, <2>2, <3>1 DEF RankOK, HoldsOK
    <2> QED BY <2>3, <2>4, <2>5 DEF RankOK
  <1> QED BY <1>0, <1>3, <1>4, <1>5 DEF GatherPoints
(* The step of one rank keeps every rank in its place, ...                 *)
LEMMA RankStepRankOK ==
  ASSUME RInv, NEW r \in Ranks, RankStep(r), NEW s \in Ranks
  PROVE  RankOK(s)'
  <1> USE DEF RInv, TypeInv
  <1>1. CASE FollowLoad(r)
    BY <1>1, LoadRankOK
  <1>2. CASE s # r /\ ~FollowLoad(r)
    <2>1. /\ pc'[s] = pc[s] /\ asks'[s] = asks[s] /\ tasks'[s] = tasks[s]
          /\ queue'[s] = queue[s] /\ shouldEval'[s] = shouldEval[s]
          /\ inEval'[s] = inEval[s] /\ evalsLeft'[s] = evalsLeft[s]
          /\ evalFlag'[s] = evalFlag[s] /\ got'[s] = got[s] /\ buffer'[s] = buffer[s]
      BY <1>2 DEF RankStep, PrefetchInfer, StartMicroStep, GetResult, BeginEval,
                  EvalBatch, EndEval, TypeOK, flow, data
    <2> QED BY <2>1, RankFrame
  <1>3. CASE s = r /\ ~FollowLoad(r)
    BY <1>3, PrefetchRankOK, GetRankOK, LoopRankOK DEF RankStep
  <1> QED BY <1>1, <1>2, <1>3

(* ... and on its way to the same collective.                              *)
LEMMA RankStepAligned ==
  ASSUME RInv, NEW r \in Ranks, RankStep(r), NEW s \in Ranks
  PROVE  AtGather(Here(s))' = AtGather(Here(s))
  <1> USE DEF RInv, TypeInv
  <1>1. CASE FollowLoad(r)
    BY <1>1, LoadAligned
  <1>2. CASE s # r /\ ~FollowLoad(r)
    <2>1. /\ pc'[s] = pc[s] /\ step'[s] = step[s] /\ micro'[s] = micro[s]
          /\ lastLoaded'[s] = lastLoaded[s] /\ shouldEval'[s] = shouldEval[s]
          /\ inEval'[s] = inEval[s] /\ evalFlag'[s] = evalFlag[s]
          /\ evalsLeft'[s] = evalsLeft[s] /\ evalIdx'[s] = evalIdx[s]
          /\ asks'[s] = asks[s] /\ buffer'[s] = buffer[s]
      BY <1>2 DEF RankStep, PrefetchInfer, StartMicroStep, GetResult, BeginEval,
                  EvalBatch, EndEval, TypeOK, flow, data, clock
    <2> QED BY <2>1, HereFrame
  <1>3. CASE s = r /\ ~FollowLoad(r)
    BY <1>3, PrefetchAligned, LoopAligned DEF RankStep
  <1> QED BY <1>1, <1>2, <1>3

LEMMA ExecutorAligned ==
  ASSUME Executor, NEW s
  PROVE  AtGather(Here(s))' = AtGather(Here(s))
  <1>1. UNCHANGED <<pc, step, micro, lastLoaded, shouldEval, inEval, evalFlag, evalsLeft,
                    evalIdx, asks, buffer>>
    BY DEF Executor, StartInfer, FinishInfer, FailInfer, FollowInfer, flow, clock, data
  <1> QED BY <1>1, HereFrame

LEMMA InitAInv ==
  ASSUME OneEvaluation, Init
  PROVE  AInv
  <1>1. RInv
    BY InitTypeInv, InitRankOK DEF RInv
  <1>2. \A r, s \in Ranks : Here(r) = Here(s)
    BY DEF Init, Here
  <1> QED BY <1>1, <1>2 DEF AInv, Aligned

LEMMA NextAInv ==
  ASSUME OneEvaluation, ~InferMayFail, AInv, [Next]_vars
  PROVE  AInv'
  <1>1. TypeInv' /\ TypeOK'
    BY NextTypeInv DEF AInv, RInv, TypeInv
  <1>2. CASE Exit \/ UNCHANGED vars
    <2>1. UNCHANGED vars
      BY <1>2 DEF Exit
    <2>2. UNCHANGED <<pc, step, micro, lastLoaded, shouldEval, inEval, evalFlag,
                      evalsLeft, evalIdx, asks, tasks, queue, got, buffer>>
      BY <2>1 DEF vars, clock, flow, data
    <2>3. \A s \in Ranks : RankOK(s)'
      BY <2>2, RankFrame DEF AInv, RInv
    <2>4. Aligned'
      BY <2>2, HereFrame DEF AInv, Aligned
    <2> QED BY <1>1, <2>3, <2>4 DEF AInv, RInv
  <1>3. CASE GatherObject
    BY <1>1, <1>3, GatherRankOK, GatherAligned DEF AInv, RInv
  <1>4. CASE Backward
    BY <1>1, <1>4, BackwardRankOK, BackwardAligned DEF AInv, RInv
  <1>5. CASE MainLoad \/ Executor \/ \E r \in Ranks : RankStep(r)
    <2>1. \A s \in Ranks : RankOK(s)'
      BY <1>5, LoadRankOK, ExecutorRankOK, RankStepRankOK DEF AInv
    <2>2. \A s \in Ranks : AtGather(Here(s))' = AtGather(Here(s))
      BY <1>5, LoadAligned, ExecutorAligned, RankStepAligned DEF AInv, RInv
    <2>3. Aligned'
      BY <2>2 DEF AInv, Aligned
    <2> QED BY <1>1, <2>1, <2>3 DEF AInv, RInv
  <1> QED BY <1>2, <1>3, <1>4, <1>5 DEF Next

(* What a rank trains on was asked for one generation before: the buffer   *)
(* filled from train_queue holds the last but one batch submitted, for any *)
(* number of ranks, steps, accumulation and evaluation batches, as long as *)
(* no rollout raises and an evaluation never follows another.              *)
THEOREM TrainsOneGenerationBehind ==
  ASSUME OneEvaluation, ~InferMayFail
  PROVE  Spec => []TrainsOnPrevious
  <1>1. Init => AInv
    BY InitAInv
  <1>2. AInv /\ [Next]_vars => AInv'
    BY NextAInv
  <1>3. AInv => TrainsOnPrevious
    BY DEF AInv, RInv, RankOK, HoldsOK, TrainsOnPrevious
  <1> QED BY <1>1, <1>2, <1>3, PTL DEF Spec

(* Ranks that have all reached a gather_object have reached the same one,  *)
(* and gather the answers to the same batch: whatever the order in which   *)
(* their main threads and executors ran, no collective of one rank meets   *)
(* another collective of the others.                                       *)
THEOREM GathersMatch ==
  ASSUME OneEvaluation, ~InferMayFail
  PROVE  Spec => []CollectivesAligned
  <1>1. Init => AInv
    BY InitAInv
  <1>2. AInv /\ [Next]_vars => AInv'
    BY NextAInv
  <1>3. AInv => CollectivesAligned
    <2> SUFFICES ASSUME AInv, \A q \in Ranks : pc[q] \in GatherPoints,
                        NEW r \in Ranks, NEW s \in Ranks
                 PROVE  pc[r] = pc[s] /\ (pc[r] = "resGather" => got[r].seq = got[s].seq)
      BY DEF CollectivesAligned
    <2>1. pc[r] = pc[s] /\ asks[r] = asks[s] /\ shouldEval[r] = shouldEval[s]
      BY MeetInOnePlace DEF AInv
    <2>2. HoldsOK(r) /\ HoldsOK(s)
      BY DEF AInv, RInv, RankOK
    <2> QED BY <2>1, <2>2 DEF HoldsOK, Mode
  <1> QED BY <1>1, <1>2, <1>3, PTL DEF Spec
-----------------------------------------------------------------------------
(* The versions the main rank pushes grow: a push is begun only for a step *)
(* that was not loaded yet, and the server holds a mixture only during it. *)
Pushed ==
    /\ weights \in Version \union {Mixed}
    /\ weights = Mixed <=> Loading
    /\ lastLoaded[Main] <= step[Main]
    /\ lastLoaded[Main] = NotLoaded => step[Main] = 0 /\ weights \in {0, Mixed}
    /\ pc[Main] \in {"genLoad", "genLoading", "prefetchLoad", "prefetchLoading"} =>
          step[Main] # lastLoaded[Main]

LEMMA InitPushed == Init => Pushed
  BY MainAssumption, StepAssumption
  DEF Init, Pushed, Version, Loading, NotLoaded, Mixed

LEMMA NextPushed ==
  ASSUME SInv, Pushed, ~SkipSync, [Next]_vars
  PROVE  Pushed'
  <1> USE MainAssumption DEF SInv, IInv, TypeInv
  <1>0. step[Main] \in 0..MaxStep /\ lastLoaded[Main] \in Int /\ MaxStep \in Nat
    BY StepAssumption DEF TypeOK, Version
  <1>1. CASE GatherObject
    <2>1. /\ pc[Main] \in GatherPoints /\ pc'[Main] = AfterGather(Main)
          /\ UNCHANGED <<step, lastLoaded, weights>>
      BY <1>1 DEF GatherObject, clock, server
    <2> QED BY <2>1 DEF Pushed, Loading, AfterGather, GatherPoints, MustLoad
  <1>2. CASE Backward
    <2>1. /\ pc[Main] = "backward" /\ pc'[Main] \in {"evalWait", "done", "stepWait"}
          /\ UNCHANGED <<lastLoaded, weights>>
          /\ step'[Main] \in {step[Main], step[Main] + 1}
      BY <1>2 DEF Backward, AfterStep, server
    <2>2. lastLoaded[Main] # NotLoaded
      BY <2>1 DEF Believed
    <2> QED BY <1>0, <2>1, <2>2 DEF Pushed, Loading
  <1>3. CASE MainLoad
    <2>1. CASE BeginLoad
      <3>1. /\ UNCHANGED <<step, lastLoaded>> /\ weights' = Mixed
            /\ \/ pc[Main] = "genLoad" /\ pc'[Main] = "genLoading"
               \/ pc[Main] = "prefetchLoad" /\ pc'[Main] = "prefetchLoading"
        BY <2>1 DEF BeginLoad, MayLoad, TypeOK, clock
      <3> QED BY <3>1 DEF Pushed, Loading, Mixed
    <2>2. CASE EndLoad
      <3>1. /\ step' = step /\ weights' = step[Main] /\ lastLoaded'[Main] = step[Main]
            /\ pc'[Main] \in {"genGather", "prefetchInfer"}
        BY <2>2 DEF EndLoad, AfterLoad, TypeOK, clock
      <3> QED BY <1>0, <3>1 DEF Pushed, Loading, Mixed, NotLoaded, Version
    <2>3. ~SkipLoad
      BY DEF SkipLoad, SkipsLoad
    <2> QED BY <1>3, <2>1, <2>2, <2>3 DEF MainLoad
  <1>4. CASE Executor
    <2>1. UNCHANGED <<pc, step, lastLoaded, weights>>
      BY <1>4 DEF Executor, StartInfer, FinishInfer, FailInfer, FollowInfer, clock, server
    <2> QED BY <2>1 DEF Pushed, Loading
  <1>5. ASSUME NEW r \in Ranks, RankStep(r) PROVE Pushed'
    <2>1. CASE r # Main
      <3>1. /\ pc'[Main] = pc[Main] /\ lastLoaded'[Main] = lastLoaded[Main]
            /\ UNCHANGED <<step, weights>>
        BY <1>5, <2>1 DEF RankStep, FollowLoad, PrefetchInfer, StartMicroStep,
           GetResult, BeginEval, EvalBatch, EndEval, TypeOK, clock, server
      <3> QED BY <3>1 DEF Pushed, Loading
    <2>2. CASE r = Main
      <3>1. UNCHANGED <<step, lastLoaded, weights>>
        BY <1>5, <2>2 DEF RankStep, FollowLoad, PrefetchInfer, StartMicroStep,
           GetResult, BeginEval, EvalBatch, EndEval, TypeOK, clock, server
      <3>2. /\ ~Loading /\ ~Loading'
            /\ pc'[Main] \in {"genLoad", "genLoading", "prefetchLoad", "prefetchLoading"}
                  => step[Main] # lastLoaded[Main]
        BY <1>5, <2>2 DEF RankStep, FollowLoad, PrefetchInfer, StartMicroStep, GetResult,
           BeginEval, EvalBatch, EndEval, TypeOK, Loading, AfterStep, MustLoad
      <3> QED BY <3>1, <3>2 DEF Pushed
    <2> QED BY <2>1, <2>2
  <1>6. CASE Exit \/ UNCHANGED vars
    BY <1>6 DEF Exit, vars, clock, server, Pushed, Loading
  <1> QED BY <1>1, <1>2, <1>3, <1>4, <1>5, <1>6 DEF Next

-----------------------------------------------------------------------------
(* A line of the pipeline: what the queue q holds, then n batches that the *)
(* executor owes it, all asked for under version v.                        *)
LineOf(q, n, v) ==
    [i \in 1..(Len(q) + n) |-> IF i <= Len(q) THEN q[i].ver ELSE v]

LEMMA VersionType ==
  ASSUME NEW q \in Seq(Result)
  PROVE  \A i \in 1..Len(q) : q[i].ver \in Int
  <1>1. \A i \in 1..Len(q) : q[i] \in Result
    OBVIOUS
  <1> QED BY <1>1 DEF Result

LEMMA LineLength ==
  ASSUME NEW q \in Seq(Result), NEW n \in Nat, NEW v
  PROVE  Len(LineOf(q, n, v)) = Len(q) + n
  BY DEF LineOf

LEMMA LineAsked ==
  ASSUME NEW q \in Seq(Result), NEW n \in Nat, NEW v \in Int
  PROVE  LineOf(q, n + 1, v) = Append(LineOf(q, n, v), v)
  <1>1. Len(q) \in Nat /\ \A i \in 1..Len(q) : q[i].ver \in Int
    BY VersionType
  <1>2. LineOf(q, n, v) \in Seq(Int) /\ Len(LineOf(q, n, v)) = Len(q) + n
    BY <1>1 DEF LineOf
  <1> QED BY <1>1, <1>2 DEF LineOf

LEMMA LineAnsweredOnce ==
  ASSUME NEW q \in Seq(Result), NEW n \in Nat, n > 0, NEW v, NEW a, a.ver = v
  PROVE  LineOf(Append(q, a), n - 1, v) = LineOf(q, n, v)
  BY DEF LineOf

LEMMA LineTakenOnce ==
  ASSUME NEW q \in Seq(Result), q # << >>, NEW n \in Nat, NEW v \in Int
  PROVE  LineOf(Tail(q), n, v) = Tail(LineOf(q, n, v))
  <1>1. /\ Len(q) \in Nat /\ Len(q) > 0 /\ Len(Tail(q)) = Len(q) - 1
        /\ \A i \in 1..(Len(q) - 1) : Tail(q)[i] = q[i + 1]
        /\ \A i \in 1..Len(q) : q[i].ver \in Int
    BY HeadTailProperties, VersionType
  <1>2. LineOf(q, n, v) \in Seq(Int) /\ Len(LineOf(q, n, v)) = Len(q) + n
    BY <1>1 DEF LineOf
  <1>3. /\ Tail(LineOf(q, n, v)) \in Seq(Int)
        /\ Len(Tail(LineOf(q, n, v))) = Len(q) + n - 1
        /\ \A i \in 1..(Len(q) + n - 1) :
               Tail(LineOf(q, n, v))[i] = LineOf(q, n, v)[i + 1]
    BY <1>1, <1>2
  <1>4. \A i \in 1..(Len(q) + n - 1) : LineOf(Tail(q), n, v)[i] = LineOf(q, n, v)[i + 1]
    BY <1>1 DEF LineOf
  <1>5. /\ LineOf(Tail(q), n, v) \in Seq(Int)
        /\ Len(LineOf(Tail(q), n, v)) = Len(q) + n - 1
    BY <1>1 DEF LineOf, Result
  <1> DEFINE x == LineOf(Tail(q), n, v)
             y == Tail(LineOf(q, n, v))
  <1>6. x \in Seq(Int) /\ y \in Seq(Int) /\ Len(x) = Len(y)
    BY <1>3, <1>5
  <1>7. \A i \in 1..Len(x) : x[i] = y[i]
    BY <1>3, <1>4, <1>5
  <1> HIDE DEF x, y
  <1>8. x = y
    BY ONLY <1>6, <1>7, SeqEqual
  <1> QED BY <1>8 DEF x, y

(* The mapping of AsyncRollout, in these terms.                            *)
Owed(m) == Waits(tasks[Main], m)
LineNow(m) == LineOf(queue[Main][m], Owed(m), lastLoaded[Main])

PInv == SInv /\ AInv /\ Pushed

InPipeline == \A m \in Modes : Versions(m) = LineNow(m) /\ Owed(m) \in Nat

LEMMA VersionsInLine == PInv => InPipeline
  <1> SUFFICES ASSUME PInv, NEW m \in Modes
               PROVE  Versions(m) = LineNow(m) /\ Owed(m) \in Nat
    BY DEF InPipeline
  <1> USE DEF PInv, SInv, IInv, TypeInv, Owed
  <1>1. tasks[Main] \in Seq(Task) /\ queue[Main][m] \in Seq(Result)
    BY MainAssumption DEF TypeOK
  <1>2. OwedTo(m) = IF Waits(tasks[Main], m) = 0 THEN << >> ELSE tasks[Main]
    BY <1>1 DEF OwedTo, Waits
  <1>3. Len(OwedTo(m)) = Waits(tasks[Main], m) /\ Waits(tasks[Main], m) \in Nat
    BY <1>1 DEF OwedTo, Waits
  <1>4. \A i \in 1..Len(OwedTo(m)) : OwedTo(m)[i].asked = lastLoaded[Main]
    BY <1>1, <1>2, <1>3 DEF Believed
  <1>5. \A i \in 1..(Len(queue[Main][m]) + Len(OwedTo(m))) :
           ~(i <= Len(queue[Main][m])) => i - Len(queue[Main][m]) \in 1..Len(OwedTo(m))
    BY <1>1, <1>3
  <1> QED BY <1>3, <1>4, <1>5 DEF Versions, LineOf, LineNow

LEMMA VersionsInLineNext == PInv' => InPipeline'
  BY VersionsInLine, PTL

(* A step that owes nothing more, answers nothing and keeps the weights is *)
(* a stutter of the pipeline.                                              *)
LEMMA PipelineStutters ==
  ASSUME PInv, PInv', tasks'[Main] = tasks[Main], queue'[Main] = queue[Main],
         lastLoaded'[Main] = lastLoaded[Main] \/ tasks[Main] = << >>,
         (IF weights = Mixed THEN step[Main] ELSE weights)'
            = IF weights = Mixed THEN step[Main] ELSE weights
  PROVE  UNCHANGED Pipeline!pipeline
  <1>1. InPipeline /\ InPipeline'
    BY VersionsInLine, VersionsInLineNext
  <1>2. ASSUME NEW m \in Modes PROVE Versions(m)' = Versions(m)
    <2>1. Versions(m) = LineNow(m) /\ Versions(m)' = LineNow(m)'
      BY <1>1 DEF InPipeline
    <2>2. Owed(m)' = Owed(m) /\ (tasks[Main] = << >> => Owed(m) = 0)
      BY DEF Owed, Waits
    <2>3. Len(queue[Main][m]) \in Nat
      BY MainAssumption DEF PInv, SInv, IInv, TypeInv, TypeOK
    <2>4. LineNow(m)' = LineNow(m)
      BY <2>2, <2>3 DEF LineNow, LineOf
    <2> QED BY <2>1, <2>4
  <1>3. [m \in Modes |-> Versions(m)]' = [m \in Modes |-> Versions(m)]
    BY <1>2
  <1>4. [m \in Modes |-> Len(queue[Main][m])]' = [m \in Modes |-> Len(queue[Main][m])]
    OBVIOUS
  <1> QED BY <1>3, <1>4 DEF Pipeline!pipeline

(* Submitting asks, *)
LEMMA SubmitAsks ==
  ASSUME PInv, PInv', GatherObject, pc[Main] = "genGather"
  PROVE  \E m \in Modes : Pipeline!Ask(m)
  <1> USE MainAssumption DEF PInv, SInv, IInv, TypeInv, AInv, RInv
  <1> PICK m \in Modes : m = Mode(Main)
    BY NewTaskType
  <1> DEFINE b == NewTask(Main)
  <1>1. /\ tasks'[Main] = Append(tasks[Main], b)
        /\ UNCHANGED <<queue, lastLoaded, weights>>
    BY DEF GatherObject, server
  <1>2. /\ tasks[Main] \in Seq(Task) /\ queue[Main][m] \in Seq(Result)
        /\ b \in Task /\ b.mode = m /\ lastLoaded[Main] \in Int
    BY NewTaskType DEF TypeOK, NewTask
  <1>3. RankOK(Main)
    OBVIOUS
  <1>4. AllOf(tasks[Main], m)
    BY <1>3 DEF RankOK, WhereOK, InGeneration
  <1>5. /\ tasks'[Main] \in Seq(Task) /\ Len(tasks'[Main]) = Len(tasks[Main]) + 1
        /\ AllOf(tasks'[Main], m)
    <2> HIDE DEF b
    <2> QED BY <1>1, <1>2, <1>4 DEF AllOf
  <1>6. /\ Owed(m)' = Owed(m) + 1
        /\ \A o \in Modes : o # m => Owed(o)' = Owed(o)
    BY <1>2, <1>4, <1>5, WaitsForAll DEF Owed
  <1>7. InPipeline /\ InPipeline'
    BY VersionsInLine, VersionsInLineNext
  <1>8. Versions(m)' = Append(Versions(m), lastLoaded[Main])
    <2>1. Owed(m) \in Nat /\ Versions(m) = LineNow(m) /\ Versions(m)' = LineNow(m)'
      BY <1>7 DEF InPipeline
    <2> QED BY <1>1, <1>2, <1>6, <2>1, LineAsked DEF LineNow
  <1>9. \A o \in Modes : o # m => Versions(o)' = Versions(o)
    BY <1>1, <1>6, <1>7 DEF InPipeline, LineNow
  <1>10. weights # Mixed /\ weights' = weights /\ weights = lastLoaded[Main]
    BY <1>1 DEF Pushed, Believed, Loading
  <1>11. [k \in Modes |-> Versions(k)]'
            = [[k \in Modes |-> Versions(k)] EXCEPT ![m] = Append(@, weights)]
    BY <1>8, <1>9, <1>10
  <1>12. [k \in Modes |-> Len(queue[Main][k])]' = [k \in Modes |-> Len(queue[Main][k])]
    BY <1>1
  <1>13. Pipeline!Ask(m)
    BY <1>10, <1>11, <1>12 DEF Pipeline!Ask
  <1> QED BY <1>13

(* the executor answers the oldest batch it owes, *)
LEMMA FinishAnswers ==
  ASSUME PInv, PInv', FinishInfer
  PROVE  \E m \in Modes : Pipeline!Answer(m)
  <1> USE MainAssumption DEF PInv, SInv, IInv, TypeInv, AInv, RInv
  <1> DEFINE t == Head(tasks[Main])
             a == Answer(Main, t, SampledFrom(started))
  <1>1. PICK m \in Modes : AllOf(tasks[Main], m)
    <2>1. RankOK(Main)
      OBVIOUS
    <2> QED BY <2>1 DEF RankOK, LineOK
  <1>2. /\ tasks[Main] # << >> /\ started # Idle
        /\ queue' = [queue EXCEPT ![Main][t.mode] = Append(@, a)]
        /\ tasks' = [tasks EXCEPT ![Main] = Tail(@)]
        /\ UNCHANGED <<step, lastLoaded, weights>>
    BY DEF FinishInfer, PutResult, FlowOK, clock
  <1>3. /\ tasks[Main] \in Seq(Task) /\ queue[Main][m] \in Seq(Result)
        /\ t = tasks[Main][1] /\ Len(tasks[Main]) \in Nat /\ Len(tasks[Main]) > 0
        /\ Tail(tasks[Main]) \in Seq(Task)
        /\ Len(Tail(tasks[Main])) = Len(tasks[Main]) - 1
        /\ \A i \in 1..Len(Tail(tasks[Main])) : Tail(tasks[Main])[i] = tasks[Main][i + 1]
    <2>1. tasks[Main] \in Seq(Task) /\ queue[Main][m] \in Seq(Result)
      BY DEF TypeOK
    <2>2. tasks[Main] # << >>
      BY <1>2
    <2> QED BY ONLY <2>1, <2>2, HeadTailProperties
  <1>4. t.mode = m /\ AllOf(Tail(tasks[Main]), m)
    BY <1>1, <1>3 DEF AllOf
  <1>5. /\ tasks'[Main] = Tail(tasks[Main])
        /\ queue'[Main][m] = Append(queue[Main][m], a)
        /\ \A o \in Modes : o # m => queue'[Main][o] = queue[Main][o]
    <2>1. /\ tasks \in [Ranks -> Seq(Task)] /\ Main \in Ranks
          /\ queue \in [Ranks -> [Modes -> Seq(Result)]]
      BY DEF TypeOK
    <2>2. /\ queue' = [queue EXCEPT ![Main][m] = Append(@, a)]
          /\ tasks' = [tasks EXCEPT ![Main] = Tail(@)]
      BY <1>2, <1>4, Zenon
    <2> HIDE DEF a
    <2> QED BY ONLY <2>1, <2>2, m \in Modes
  <1>6. a.ver = lastLoaded[Main]
    <2>1. ~Loading
      BY <1>2 DEF NoLoadInFlight, Loading
    <2>2. started = weights /\ weights = lastLoaded[Main]
      BY <1>2, <2>1 DEF Believed
    <2> QED BY <2>1, <2>2, SampledWhenStill DEF Answer
  <1>7. /\ Owed(m) = Len(tasks[Main]) /\ Owed(m)' = Len(tasks[Main]) - 1
        /\ \A o \in Modes : o # m => Owed(o)' = Owed(o)
    <2>1. tasks'[Main] \in Seq(Task) /\ AllOf(tasks'[Main], m)
      BY <1>3, <1>4, <1>5
    <2>2. /\ Waits(tasks[Main], m) = Len(tasks[Main])
          /\ Waits(tasks'[Main], m) = Len(tasks'[Main])
          /\ \A o : o # m => Waits(tasks[Main], o) = 0 /\ Waits(tasks'[Main], o) = 0
      BY ONLY <1>1, <1>3, <2>1, WaitsForAll
    <2> QED BY <1>3, <1>5, <2>2 DEF Owed
  <1>8. InPipeline /\ InPipeline'
    BY VersionsInLine, VersionsInLineNext
  <1> HIDE DEF a, t
  <1>9. Versions(m)' = Versions(m)
    <2>1. Versions(m) = LineNow(m) /\ Versions(m)' = LineNow(m)'
      BY <1>8 DEF InPipeline
    <2>2. LineOf(Append(queue[Main][m], a), Len(tasks[Main]) - 1, lastLoaded[Main])
            = LineOf(queue[Main][m], Len(tasks[Main]), lastLoaded[Main])
      BY <1>3, <1>6, LineAnsweredOnce
    <2> QED BY <1>2, <1>5, <1>7, <2>1, <2>2 DEF LineNow
  <1>10. \A o \in Modes : o # m => Versions(o)' = Versions(o)
    BY <1>2, <1>5, <1>7, <1>8 DEF InPipeline, LineNow
  <1>11. [k \in Modes |-> Versions(k)]' = [k \in Modes |-> Versions(k)]
    BY <1>9, <1>10
  <1>12. [k \in Modes |-> Len(queue[Main][k])]'
            = [[k \in Modes |-> Len(queue[Main][k])] EXCEPT ![m] = @ + 1]
    <2>1. Len(queue'[Main][m]) = Len(queue[Main][m]) + 1
      BY <1>3, <1>5
    <2> QED BY <1>5, <2>1
  <1>13. Len(queue[Main][m]) < Len(Versions(m))
    <2>1. Len(LineNow(m)) = Len(queue[Main][m]) + Len(tasks[Main])
      <3>1. queue[Main][m] \in Seq(Result) /\ Len(tasks[Main]) \in Nat
        BY <1>3
      <3>2. Len(LineOf(queue[Main][m], Len(tasks[Main]), lastLoaded[Main]))
              = Len(queue[Main][m]) + Len(tasks[Main])
        BY ONLY <3>1, LineLength
      <3> QED BY <1>7, <3>2, Zenon DEF LineNow
    <2>2. Len(queue[Main][m]) \in Nat
      BY <1>3
    <2>3. Versions(m) = LineNow(m)
      BY <1>8 DEF InPipeline
    <2>4. Len(Versions(m)) = Len(queue[Main][m]) + Len(tasks[Main])
      BY <2>1, <2>3
    <2> DEFINE ready == Len(queue[Main][m])    owed == Len(tasks[Main])
    <2>5. ready \in Nat /\ owed \in Nat /\ owed > 0
      BY <1>3, <2>2
    <2>6. ready < ready + owed
      <3> HIDE DEF ready, owed
      <3> QED BY <2>5
    <2> QED BY <2>4, <2>6
  <1>14. (IF weights = Mixed THEN step[Main] ELSE weights)'
            = IF weights = Mixed THEN step[Main] ELSE weights
    BY <1>2
  <1>15. [k \in Modes |-> Len(queue[Main][k])][m] < Len([k \in Modes |-> Versions(k)][m])
    BY <1>13
  <1>16. Pipeline!Answer(m)
    BY ONLY <1>11, <1>12, <1>14, <1>15 DEF Pipeline!Answer
  <1> QED BY <1>16

(* a prefetched batch is asked and answered in one go, *)
LEMMA PrefetchAsksAndAnswers ==
  ASSUME PInv, PInv', PrefetchInfer(Main)
  PROVE  \E m \in Modes : Pipeline!AskAnswered(m)
  <1> USE MainAssumption DEF PInv, SInv, IInv, TypeInv, AInv, RInv
  <1> PICK m \in Modes : m = Mode(Main)
    BY NewTaskType
  <1> DEFINE a == Answer(Main, NewTask(Main), SampledFrom(weights))
  <1>1. RankOK(Main) /\ pc[Main] = "prefetchInfer"
    BY DEF PrefetchInfer
  <1>2. tasks[Main] = << >>
    BY <1>1 DEF RankOK, WhereOK, Prefetching
  <1>3. /\ queue[Main][m] \in Seq(Result) /\ lastLoaded[Main] \in Int
        /\ queue'[Main][m] = Append(queue[Main][m], a)
        /\ \A o \in Modes : o # m => queue'[Main][o] = queue[Main][o]
        /\ UNCHANGED <<tasks, step, lastLoaded, weights>>
    BY DEF PrefetchInfer, TypeOK, clock
  <1>4. /\ ~Loading /\ weights # Mixed /\ weights = lastLoaded[Main]
        /\ a.ver = lastLoaded[Main]
    <2>1. ~Loading /\ weights # Mixed /\ weights = lastLoaded[Main]
      BY <1>1 DEF Loading, Pushed, Believed
    <2> QED BY <2>1, SampledWhenStill DEF Answer
  <1>5. \A o : Owed(o) = 0 /\ Owed(o)' = 0
    BY <1>2, <1>3 DEF Owed, Waits
  <1>6. InPipeline /\ InPipeline'
    BY VersionsInLine, VersionsInLineNext
  <1> HIDE DEF a
  <1>7. Versions(m)' = Append(Versions(m), weights)
    <2>1. Versions(m) = LineNow(m) /\ Versions(m)' = LineNow(m)'
      BY <1>6 DEF InPipeline
    <2>2. LineOf(Append(queue[Main][m], a), 1 - 1, lastLoaded[Main])
            = LineOf(queue[Main][m], 1, lastLoaded[Main])
      BY <1>3, <1>4, LineAnsweredOnce
    <2>3. LineOf(queue[Main][m], 0 + 1, lastLoaded[Main])
            = Append(LineOf(queue[Main][m], 0, lastLoaded[Main]), lastLoaded[Main])
      BY <1>3, LineAsked
    <2> QED BY <1>3, <1>4, <1>5, <2>1, <2>2, <2>3 DEF LineNow
  <1>8. \A o \in Modes : o # m => Versions(o)' = Versions(o)
    BY <1>3, <1>5, <1>6 DEF InPipeline, LineNow
  <1>9. [k \in Modes |-> Versions(k)]'
            = [[k \in Modes |-> Versions(k)] EXCEPT ![m] = Append(@, weights)]
    BY <1>7, <1>8
  <1>10. [k \in Modes |-> Len(queue[Main][k])]'
            = [[k \in Modes |-> Len(queue[Main][k])] EXCEPT ![m] = @ + 1]
    <2>1. Len(queue'[Main][m]) = Len(queue[Main][m]) + 1
      BY <1>3
    <2> QED BY <1>3, <2>1
  <1>11. Len(queue[Main][m]) = Len(Versions(m))
    <2>1. Len(LineNow(m)) = Len(queue[Main][m])
      BY <1>3, <1>5 DEF LineNow, LineOf
    <2> QED BY <1>6, <2>1 DEF InPipeline
  <1>12. Pipeline!AskAnswered(m)
    BY <1>3, <1>4, <1>9, <1>10, <1>11 DEF Pipeline!AskAnswered
  <1> QED BY <1>12

(* get() takes the oldest one that is answered, *)
LEMMA GetTakes ==
  ASSUME PInv, PInv', GetResult(Main)
  PROVE  \E m \in Modes : Pipeline!Take(m)
  <1> USE MainAssumption DEF PInv, SInv, IInv, TypeInv
  <1> PICK m \in Modes : m = Mode(Main)
    BY NewTaskType
  <1> DEFINE q == queue[Main][m]
  <1>1. /\ q \in Seq(Result) /\ lastLoaded[Main] \in Int /\ q # << >>
        /\ queue'[Main][m] = Tail(q)
        /\ \A o \in Modes : o # m => queue'[Main][o] = queue[Main][o]
        /\ UNCHANGED <<tasks, step, lastLoaded, weights>>
    BY DEF GetResult, Queue, TypeOK, clock, server
  <1>2. InPipeline /\ InPipeline' /\ \A o : Owed(o)' = Owed(o)
    BY <1>1, VersionsInLine, VersionsInLineNext DEF Owed
  <1>3. Versions(m)' = Tail(Versions(m))
    <2>1. Versions(m) = LineNow(m) /\ Versions(m)' = LineNow(m)' /\ Owed(m) \in Nat
      BY <1>2 DEF InPipeline
    <2>2. LineOf(Tail(q), Owed(m), lastLoaded[Main])
             = Tail(LineOf(q, Owed(m), lastLoaded[Main]))
      <3> HIDE DEF q
      <3> QED BY <1>1, <2>1, LineTakenOnce
    <2> QED BY <1>1, <1>2, <2>1, <2>2 DEF LineNow
  <1>4. \A o \in Modes : o # m => Versions(o)' = Versions(o)
    BY <1>1, <1>2 DEF InPipeline, LineNow
  <1>5. [k \in Modes |-> Versions(k)]'
            = [[k \in Modes |-> Versions(k)] EXCEPT ![m] = Tail(@)]
    BY <1>3, <1>4
  <1>6. [k \in Modes |-> Len(queue[Main][k])]'
            = [[k \in Modes |-> Len(queue[Main][k])] EXCEPT ![m] = @ - 1]
    <2>1. Len(queue'[Main][m]) = Len(queue[Main][m]) - 1
      BY <1>1
    <2> QED BY <1>1, <2>1
  <1>7. Len(q) > 0
    BY <1>1
  <1>8. Pipeline!Take(m)
    BY <1>1, <1>5, <1>6, <1>7 DEF Pipeline!Take
  <1> QED BY <1>8

(* and a push is an update: nothing it could disturb is unanswered.        *)
LEMMA LoadUpdates ==
  ASSUME PInv, PInv', ~SkipSync, MainLoad
  PROVE  Pipeline!Update \/ UNCHANGED Pipeline!pipeline
  <1> USE MainAssumption DEF PInv, SInv, IInv, TypeInv
  <1>0. step[Main] \in Nat /\ UNCHANGED <<step, tasks, queue>>
    BY DEF MainLoad, BeginLoad, EndLoad, SkipLoad, TypeOK, Version, clock
  <1>1. CASE BeginLoad
    <2>1. /\ tasks[Main] = << >> /\ weights # Mixed /\ weights' = Mixed
          /\ UNCHANGED lastLoaded /\ step[Main] # lastLoaded[Main]
      BY <1>0, <1>1
      DEF BeginLoad, MayLoad, TypeOK, Loading, Pushed, NoLoadInFlight
    <2>2. CASE lastLoaded[Main] = NotLoaded
      <3>1. weights = 0 /\ step[Main] = 0
        BY <2>1, <2>2 DEF Pushed
      <3> QED BY <1>0, <2>1, <3>1, PipelineStutters
    <2>3. CASE lastLoaded[Main] # NotLoaded
      <3>1. weights < step[Main] /\ weights \in Nat
        <4>1. ~Loading /\ weights \in Version
          BY <2>1 DEF Pushed
        <4> QED BY <1>0, <2>1, <2>3, <4>1, StepAssumption DEF Pushed, Believed, Version
      <3>2. InPipeline /\ InPipeline'
        BY VersionsInLine, VersionsInLineNext
      <3>3. \A m \in Modes : Versions(m)' = Versions(m)
        BY <1>0, <2>1, <3>2 DEF InPipeline, LineNow, Owed
      <3>4. \A m \in Modes : Len(Versions(m)) = Len(queue[Main][m])
        <4>1. \A m \in Modes : queue[Main][m] \in Seq(Result) /\ Owed(m) = 0
          BY <2>1 DEF Owed, Waits, TypeOK
        <4>2. \A m \in Modes : Len(LineNow(m)) = Len(queue[Main][m])
          BY <4>1 DEF LineNow, LineOf
        <4> QED BY <3>2, <4>2 DEF InPipeline
      <3> QED BY <1>0, <2>1, <3>1, <3>3, <3>4 DEF Pipeline!Update
    <2> QED BY <2>2, <2>3
  <1>2. CASE EndLoad
    <2>1. /\ weights = Mixed /\ weights' = step[Main] /\ tasks[Main] = << >>
      BY <1>2 DEF EndLoad, Pushed, Loading, NoLoadInFlight
    <2> QED BY <1>0, <2>1, PipelineStutters
  <1>3. ~SkipLoad
    BY DEF SkipLoad, SkipsLoad
  <1> QED BY <1>1, <1>2, <1>3 DEF MainLoad

LEMMA RanksImplement ==
  ASSUME PInv, PInv', NEW r \in Ranks, RankStep(r)
  PROVE  [Pipeline!PipelineNext]_(Pipeline!pipeline)
  <1> USE MainAssumption DEF PInv, SInv, IInv, TypeInv
  <1>1. CASE r = Main /\ PrefetchInfer(r)
    BY <1>1, PrefetchAsksAndAnswers DEF Pipeline!PipelineNext
  <1>2. CASE r = Main /\ GetResult(r)
    BY <1>2, GetTakes DEF Pipeline!PipelineNext
  <1>3. CASE ~(r = Main /\ (PrefetchInfer(r) \/ GetResult(r)))
    <2>1. /\ tasks'[Main] = tasks[Main] /\ queue'[Main] = queue[Main]
          /\ lastLoaded'[Main] = lastLoaded[Main] /\ UNCHANGED <<step, weights>>
      <3>1. CASE FollowLoad(r) \/ StartMicroStep(r) \/ BeginEval(r) \/ EvalBatch(r)
                 \/ EndEval(r)
        BY <3>1 DEF FollowLoad, StartMicroStep, BeginEval, EvalBatch, EndEval,
                    TypeOK, clock, server
      <3>2. CASE r # Main /\ PrefetchInfer(r)
        BY <3>2 DEF PrefetchInfer, TypeOK, clock
      <3>3. CASE r # Main /\ GetResult(r)
        BY <3>3 DEF GetResult, TypeOK, clock, server
      <3> QED BY <1>3, <3>1, <3>2, <3>3, Zenon DEF RankStep
    <2> QED BY <2>1, PipelineStutters
  <1> QED BY <1>1, <1>2, <1>3

LEMMA NextImplements ==
  ASSUME ~SkipSync, ~InferMayFail, PInv, PInv', [Next]_vars
  PROVE  [Pipeline!PipelineNext]_(Pipeline!pipeline)
  <1> USE MainAssumption DEF PInv, SInv, IInv, TypeInv
  <1>1. CASE GatherObject
    <2>1. CASE pc[Main] = "genGather"
      BY <1>1, <2>1, SubmitAsks DEF Pipeline!PipelineNext
    <2>2. CASE pc[Main] # "genGather"
      <3>1. /\ tasks'[Main] = tasks[Main]
            /\ UNCHANGED <<queue, lastLoaded, weights, step>>
        BY <1>1, <2>2 DEF GatherObject, clock, server
      <3> QED BY <3>1, PipelineStutters
    <2> QED BY <2>1, <2>2
  <1>2. CASE Backward
    <2>1. /\ UNCHANGED <<tasks, queue, lastLoaded, weights>> /\ pc[Main] = "backward"
      BY <1>2 DEF Backward, server
    <2>2. weights # Mixed
      BY <2>1 DEF Pushed, Loading
    <2> QED BY <2>1, <2>2, PipelineStutters
  <1>3. CASE MainLoad
    BY <1>3, LoadUpdates DEF Pipeline!PipelineNext
  <1>4. CASE Executor
    <2>1. CASE FinishInfer
      BY <2>1, FinishAnswers DEF Pipeline!PipelineNext
    <2>2. CASE ~FinishInfer
      <3>1. /\ tasks'[Main] = tasks[Main] /\ queue'[Main] = queue[Main]
            /\ UNCHANGED <<step, lastLoaded, weights>>
        <4>1. CASE StartInfer
          BY <4>1 DEF StartInfer, clock
        <4>2. CASE FailInfer
          BY <4>2 DEF FailInfer
        <4>3. ASSUME NEW r \in Ranks, FollowInfer(r)
              PROVE  /\ tasks'[Main] = tasks[Main] /\ queue'[Main] = queue[Main]
                     /\ UNCHANGED <<step, lastLoaded, weights>>
          BY <4>3 DEF FollowInfer, PutResult, TypeOK, clock, server
        <4> QED BY <1>4, <2>2, <4>1, <4>2, <4>3, Zenon DEF Executor
      <3> QED BY <3>1, PipelineStutters
    <2> QED BY <2>1, <2>2
  <1>5. CASE \E r \in Ranks : RankStep(r)
    BY <1>5, RanksImplement
  <1>6. CASE Exit \/ UNCHANGED vars
    <2>1. UNCHANGED <<tasks, queue, lastLoaded, weights, step>>
      BY <1>6 DEF Exit, vars, clock, server
    <2> QED BY <2>1, PipelineStutters
  <1> QED BY <1>1, <1>2, <1>3, <1>4, <1>5, <1>6 DEF Next

(* Threads, queues, executors and waits implement RolloutPipeline: batches *)
(* are answered and taken in the order asked, each sampled from the weights *)
(* the server had when it was asked for, and weights are pushed only when  *)
(* every batch is answered. (That they are answered at all is liveness.)   *)
THEOREM RolloutIsPipeline ==
  ASSUME OneEvaluation, ~SkipSync, ~InferMayFail
  PROVE  Spec => Pipeline!PipelineSafe
  <1>1. Init => PInv
    BY InitTypeInv, InitOneAhead, InitSInv, InitAInv, InitPushed
    DEF PInv, SInv, IInv, TypeInv, FlowOK, OneAhead, NoLoadInFlight
  <1>2. PInv /\ [Next]_vars => PInv'
    BY StepSInv, NextAInv, NextPushed DEF PInv
  <1>3. Init => Pipeline!PipelineInit
    <2> SUFFICES ASSUME Init PROVE Pipeline!PipelineInit
      OBVIOUS
    <2>1. /\ weights = 0 /\ tasks[Main] = << >>
          /\ \A m \in Modes : queue[Main][m] = << >>
      BY MainAssumption DEF Init
    <2>2. \A m \in Modes : Versions(m) = << >>
      BY <2>1 DEF Versions, OwedTo
    <2> QED BY <2>1, <2>2 DEF Pipeline!PipelineInit, Mixed
  <1>4. PInv /\ PInv' /\ [Next]_vars => [Pipeline!PipelineNext]_(Pipeline!pipeline)
    BY NextImplements
  <1> QED BY <1>1, <1>2, <1>3, <1>4, PTL DEF Spec, Pipeline!PipelineSafe
=============================================================================

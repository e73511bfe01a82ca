------------------------ MODULE FlashCheckpointProofs ------------------------
(***************************************************************************)
(* Proofs about flash checkpoints: what the rotation may delete, and what  *)
(* a job resumes from, for every number of steps, every save_total_limit   *)
(* and every number of starts.                                             *)
(***************************************************************************)
EXTENDS FlashCheckpoint, FiniteSetTheorems, TLAPS

USE CountAssumption DEF Versions, Steps, Dir, NoDir

(* The rotation may not delete the tracer's checkpoint. *)
Spared == ~(limit = 1 /\ tracked)

(* Where the steps of the checkpoints lie: a version's whole ones up to    *)
(* its tracer, the one being persisted and the one being saved after it.   *)
Ages ==
    /\ \A d \in dirs : d[1] <= ver
    /\ \A d \in complete : d[2] <= tracer[d[1]]
    /\ \A v \in Versions :
           <<v, tracer[v]>> \in dirs => <<v, tracer[v]>> \in complete
    /\ \A v \in Versions : tracer[v] # 0 => v <= ver
    /\ pending # NoDir => tracer[pending[1]] < pending[2]
    /\ tracer[ver] <= step
    /\ pc = "resume" => tracer[ver] = 0 /\ pending[1] # ver
    /\ pending[1] = ver => pending[2] <= step
    /\ pc \in {"files", "store"} =>
           tracer[ver] < step /\ (pending[1] = ver => pending[2] < step)
    /\ pc = "store" => Here \in dirs

(* What a rotation has read and means to delete. *)
Rotating ==
    /\ lastStep <= tracer[ver]
    /\ pc # "delete" => toDelete = {}
    /\ pc \in {"list", "delete"} => limit # 0
    /\ \A d \in toDelete : d[1] = ver /\ d[2] <= lastStep /\ d # bestDir
    /\ Spared => <<ver, tracer[ver]>> \notin toDelete
    /\ ~tracked => bestDir = NoDir /\ \A d \in Dir : state[d][2] = NoDir

IInv == TypeOK /\ Ages /\ Rotating /\ (Spared => TracerAlwaysOnDisk)

-----------------------------------------------------------------------------
(* What stands above a checkpoint in the rotation's order.                 *)

LEMMA LatestLies ==
    ASSUME IInv, NEW last \in Latest
    PROVE  /\ last \in Dir /\ last \in dirs /\ last[1] = ver
           /\ \A e \in Valid : e \in Dir /\ e[1] = ver /\ e[2] <= last[2]
  BY DEF IInv, TypeOK, Latest, Listed, Valid

(* Only the best checkpoint can stand above the tracer's. *)
LEMMA AboveTracer ==
    ASSUME IInv, NEW last \in Latest, NEW d \in Valid, d[2] = lastStep
    PROVE  Above(d, last) \subseteq {bestDir}
<1> SUFFICES ASSUME NEW e \in Above(d, last), e # bestDir PROVE FALSE
  OBVIOUS
<1>1. /\ d \in Dir /\ e \in Dir /\ last \in Dir /\ e \in Valid
      /\ d[1] = ver /\ e[1] = ver /\ last[1] = ver
      /\ d[2] <= last[2] /\ e[2] <= last[2] /\ e[2] <= d[2]
  BY LatestLies DEF Above, Valid
<1>2. Rank(e, last) > Rank(d, last) /\ Rank(e, last) = 2 * e[2]
  BY DEF Above, Rank
<1>3. CASE d = bestDir /\ d # last
  <2>1. d[2] < last[2] \/ lastStep = last[2]
    BY <1>1
  <2>2. d[2] # last[2] /\ e[2] # d[2]
    BY <1>1, <1>2, <1>3
  <2>3. Rank(d, last) = 2 * last[2] - 1
    BY <1>3 DEF Rank
  <2> QED BY <1>1, <1>2, <2>2, <2>3
<1>4. CASE ~(d = bestDir /\ d # last)
  <2>1. Rank(d, last) = 2 * d[2]
    BY <1>4 DEF Rank
  <2> QED BY <1>1, <1>2, <2>1
<1> QED BY <1>3, <1>4

(* Only the last checkpoint can stand above the best one, with none above  *)
(* itself.                                                                 *)
LEMMA AboveBest ==
    ASSUME IInv, NEW last \in Latest, bestDir \in Valid
    PROVE  /\ Above(bestDir, last) \subseteq {last} \ {bestDir}
           /\ last # bestDir => Above(last, last) = {}
<1>1. /\ last \in Dir /\ bestDir \in Dir
      /\ \A e \in Valid : e \in Dir /\ e[1] = last[1] /\ e[2] <= last[2]
  BY LatestLies
<1>2. ASSUME NEW e \in Above(bestDir, last) PROVE e = last /\ e # bestDir
  <2>1. e \in Valid /\ Rank(e, last) > Rank(bestDir, last)
    BY <1>2 DEF Above
  <2>2. e # bestDir /\ Rank(e, last) = 2 * e[2] /\ e \in Dir /\ e[2] <= last[2]
        /\ e[1] = last[1]
    BY <1>1, <2>1 DEF Rank
  <2>3. Rank(bestDir, last) \in Int /\ Rank(bestDir, last) >= 2 * last[2] - 1
    BY <1>1 DEF Rank
  <2>4. e[2] = last[2]
    BY <1>1, <2>1, <2>2, <2>3
  <2> QED BY <1>1, <2>2, <2>4
<1>3. ASSUME last # bestDir, NEW e \in Above(last, last) PROVE FALSE
  <2>1. e \in Valid /\ Rank(e, last) > 2 * last[2]
    BY <1>3 DEF Above, Rank
  <2>2. e \in Dir /\ e[2] <= last[2]
    BY <1>1, <2>1
  <2>3. Rank(e, last) <= 2 * last[2]
    BY <1>1, <2>2 DEF Rank
  <2> QED BY <1>1, <2>1, <2>2, <2>3 DEF Rank
<1> QED BY <1>2, <1>3

LEMMA FewAbove ==
    ASSUME NEW S, NEW e, S \subseteq {e}
    PROVE  Cardinality(S) \in {0, 1}
<1>1. S = {} \/ S = {e}
  OBVIOUS
<1> QED BY <1>1, FS_EmptySet, FS_Singleton

-----------------------------------------------------------------------------
(* Every action keeps the invariant.                                       *)

LEMMA InitHolds == Init => IInv
<1> SUFFICES ASSUME Init PROVE IInv
  OBVIOUS
<1>1. TypeOK
  <2>1. state \in [Dir -> (0..MaxStep) \X (Dir \cup {NoDir})]
    BY DEF Init
  <2>2. tracked \in BOOLEAN /\ asked \in BOOLEAN /\ stopping \in BOOLEAN
    BY Zenon DEF Init
  <2> QED BY <2>1, <2>2 DEF Init, TypeOK
<1>2. Ages
  BY DEF Init, Ages
<1>3. Rotating
  BY DEF Init, Rotating
<1>4. TracerAlwaysOnDisk
  BY DEF Init, TracerAlwaysOnDisk, Named
<1> QED BY <1>1, <1>2, <1>3, <1>4 DEF IInv

LEMMA StartFromScratchKeeps == ASSUME IInv, StartFromScratch PROVE IInv'
<1>1. TypeOK'
  <2>1. /\ pc' = "train" /\ step' \in 0..MaxStep
        /\ bestStep' \in 0..MaxStep /\ bestDir' \in Dir \cup {NoDir}
    BY DEF StartFromScratch
  <2>2. UNCHANGED <<limit, tracked, ver, complete, dirs, state, tracer, pending,
                    toDelete, lastStep, asked, stopping>>
    BY DEF StartFromScratch, disk, config
  <2> QED BY <2>1, <2>2, Zenon DEF IInv, TypeOK
<1>2. Ages'
  BY DEF IInv, TypeOK, Ages, Here, StartFromScratch, disk, config, Previous
<1>3. Rotating'
  BY DEF IInv, TypeOK, Ages, Rotating, Spared, StartFromScratch, disk,
         config, Previous
<1>4. (Spared => TracerAlwaysOnDisk)'
  BY DEF IInv, TypeOK, Ages, Rotating, Spared, TracerAlwaysOnDisk, Named,
         StartFromScratch, disk, config, Previous
<1> QED BY <1>1, <1>2, <1>3, <1>4 DEF IInv

LEMMA ResumeKeeps == ASSUME IInv, Resume PROVE IInv'
<1>1. TypeOK'
  BY DEF IInv, TypeOK, Ages, Resume, disk, config, Previous
<1>2. Ages'
  BY DEF IInv, TypeOK, Ages, Here, Resume, disk, config, Previous
<1>3. Rotating'
  BY DEF IInv, TypeOK, Ages, Rotating, Spared, Resume, disk, config, Previous
<1>4. (Spared => TracerAlwaysOnDisk)'
  BY DEF IInv, TypeOK, Ages, Rotating, Spared, TracerAlwaysOnDisk, Named,
         Resume, disk, config, Previous
<1> QED BY <1>1, <1>2, <1>3, <1>4 DEF IInv

LEMMA ResumeFailsKeeps == ASSUME IInv, ResumeFails PROVE IInv'
<1>1. TypeOK'
  BY DEF IInv, TypeOK, ResumeFails, disk, best, config, Previous
<1>2. Ages'
  BY DEF IInv, TypeOK, Ages, Here, ResumeFails, disk, best, config, Previous
<1>3. Rotating'
  BY DEF IInv, TypeOK, Ages, Rotating, Spared, ResumeFails, disk, best,
         config, Previous
<1>4. (Spared => TracerAlwaysOnDisk)'
  BY DEF IInv, TypeOK, Ages, Rotating, Spared, TracerAlwaysOnDisk, Named,
         ResumeFails, disk, best, config, Previous
<1> QED BY <1>1, <1>2, <1>3, <1>4 DEF IInv

LEMMA AskToStopKeeps == ASSUME IInv, AskToStop PROVE IInv'
<1>1. TypeOK'
  BY DEF IInv, TypeOK, AskToStop, disk, best, config
<1>2. Ages'
  BY DEF IInv, TypeOK, Ages, Here, AskToStop, disk, best, config
<1>3. Rotating'
  BY DEF IInv, TypeOK, Ages, Rotating, Spared, AskToStop, disk, best, config
<1>4. (Spared => TracerAlwaysOnDisk)'
  BY DEF IInv, TypeOK, Ages, Rotating, Spared, TracerAlwaysOnDisk, Named,
         AskToStop, disk, best, config
<1> QED BY <1>1, <1>2, <1>3, <1>4 DEF IInv

LEMMA TrainKeeps == ASSUME IInv, Train PROVE IInv'
<1>1. TypeOK'
  <2>1. pc' \in {"files", "train"} /\ step' \in 0..MaxStep
    BY DEF IInv, TypeOK, Train
  <2>2. stopping' = asked
    BY DEF Train
  <2>3. UNCHANGED <<limit, tracked, ver, bestStep, bestDir, complete, dirs,
                    state, tracer, pending, toDelete, lastStep, asked>>
    BY DEF Train, disk, best, config
  <2> QED BY <2>1, <2>2, <2>3, Zenon DEF IInv, TypeOK
<1>2. Ages'
  BY DEF IInv, TypeOK, Ages, Here, Train, disk, best, config
<1>3. Rotating'
  BY DEF IInv, TypeOK, Ages, Rotating, Spared, Train, disk, best, config
<1>4. (Spared => TracerAlwaysOnDisk)'
  BY DEF IInv, TypeOK, Ages, Rotating, Spared, TracerAlwaysOnDisk, Named,
         Train, disk, best, config
<1> QED BY <1>1, <1>2, <1>3, <1>4 DEF IInv

LEMMA SaveFilesKeeps == ASSUME IInv, SaveFiles PROVE IInv'
<1>1. TypeOK'
  <2>1. Here \in Dir /\ bestStep' \in 0..MaxStep
    BY DEF IInv, TypeOK, Ages, SaveFiles, Here
  <2>2. bestDir' \in Dir \cup {NoDir} /\ dirs' \subseteq Dir
    BY <2>1 DEF IInv, TypeOK, SaveFiles
  <2>3. <<bestStep', bestDir'>> \in (0..MaxStep) \X (Dir \cup {NoDir})
    BY <2>1, <2>2
  <2>4. state' \in [Dir -> (0..MaxStep) \X (Dir \cup {NoDir})]
    BY <2>1, <2>3 DEF IInv, TypeOK, SaveFiles
  <2> QED BY <2>1, <2>2, <2>4 DEF IInv, TypeOK, SaveFiles, config
<1>2. Ages'
  BY DEF IInv, TypeOK, Ages, Here, SaveFiles, config
<1>3. Rotating'
  <2>1. ASSUME ~tracked
        PROVE  bestDir' = NoDir /\ \A d \in Dir : state'[d][2] = NoDir
    <3>1. bestStep' = 0 /\ Here \in Dir /\ dirs' \subseteq Dir
      BY <1>1, <2>1 DEF IInv, TypeOK, Ages, SaveFiles, Here
    <3>2. bestDir' = NoDir
      BY <2>1, <3>1 DEF IInv, Rotating, SaveFiles
    <3> QED BY <2>1, <3>1, <3>2 DEF IInv, TypeOK, Rotating, SaveFiles
  <2>2. toDelete = {} /\ toDelete' = {}
    BY DEF IInv, Rotating, SaveFiles
  <2> QED BY <2>1, <2>2 DEF IInv, Rotating, SaveFiles, config
<1>4. (Spared => TracerAlwaysOnDisk)'
  BY DEF IInv, TypeOK, Ages, Rotating, Spared, TracerAlwaysOnDisk, Named,
         SaveFiles, config
<1> QED BY <1>1, <1>2, <1>3, <1>4 DEF IInv

LEMMA StoreKeeps == ASSUME IInv, Store PROVE IInv'
<1>1. TypeOK'
  BY DEF IInv, TypeOK, Ages, Here, Store, disk, best, config
<1>2. Ages'
  BY DEF IInv, TypeOK, Ages, Here, Store, disk, best, config
<1>3. Rotating'
  BY DEF IInv, TypeOK, Ages, Rotating, Spared, Store, disk, best, config
<1>4. (Spared => TracerAlwaysOnDisk)'
  BY DEF IInv, TypeOK, Ages, Rotating, Spared, TracerAlwaysOnDisk, Named,
         Store, disk, best, config
<1> QED BY <1>1, <1>2, <1>3, <1>4 DEF IInv

LEMMA SkipKeeps == ASSUME IInv, Skip PROVE IInv'
<1>1. TypeOK'
  <2>1. Here \notin complete /\ pending # Here /\ toDelete = {}
    BY DEF IInv, TypeOK, Ages, Rotating, Here, Skip
  <2> QED BY <2>1 DEF IInv, TypeOK, Skip, best, config
<1>2. Ages'
  BY DEF IInv, TypeOK, Ages, Here, Skip, best, config
<1>3. Rotating'
  BY DEF IInv, TypeOK, Ages, Rotating, Spared, Skip, best, config
<1>4. (Spared => TracerAlwaysOnDisk)'
  BY DEF IInv, TypeOK, Ages, Rotating, Spared, TracerAlwaysOnDisk, Named,
         Skip, best, config
<1> QED BY <1>1, <1>2, <1>3, <1>4 DEF IInv

LEMMA ReadTracerKeeps == ASSUME IInv, ReadTracer PROVE IInv'
<1>1. TypeOK'
  <2>1. /\ pc' \in {"list", "wait", "train"}
        /\ lastStep' = lastStep \/ lastStep' = tracer[ver]
        /\ stopping' = stopping \/ stopping' = FALSE
    BY DEF ReadTracer, AfterSave
  <2>2. lastStep' \in 0..MaxStep
    BY <2>1 DEF IInv, TypeOK
  <2>3. stopping' \in BOOLEAN
    BY <2>1, Zenon DEF IInv, TypeOK
  <2>4. UNCHANGED <<limit, tracked, ver, step, bestStep, bestDir, complete,
                    dirs, state, tracer, pending, toDelete, asked>>
    BY DEF ReadTracer, disk, best, config
  <2> QED BY <2>1, <2>2, <2>3, <2>4, Zenon DEF IInv, TypeOK
<1>2. Ages'
  BY DEF IInv, TypeOK, Ages, Here, ReadTracer, disk, best, config, AfterSave
<1>3. Rotating'
  BY DEF IInv, TypeOK, Ages, Rotating, Spared, ReadTracer, disk, best,
         config, AfterSave
<1>4. (Spared => TracerAlwaysOnDisk)'
  BY DEF IInv, TypeOK, Ages, Rotating, Spared, TracerAlwaysOnDisk, Named,
         ReadTracer, disk, best, config, AfterSave
<1> QED BY <1>1, <1>2, <1>3, <1>4 DEF IInv

LEMMA ListKeeps == ASSUME IInv, List PROVE IInv'
<1>1. limit \in Nat \ {0} /\ toDelete = {}
  BY DEF IInv, TypeOK, Rotating, List
<1>2. toDelete' \subseteq Valid
  BY DEF List, Listed
<1>3. \A d \in toDelete' : d \in dirs /\ d[1] = ver /\ d[2] <= lastStep
  BY <1>2 DEF Valid, Listed
<1>4. ASSUME toDelete' # {}
      PROVE  \E last \in Latest :
                 toDelete' = {d \in Valid :
                                 Cardinality(Above(d, last)) >= Kept(last)}
  BY <1>4 DEF List
<1>5. bestDir \notin toDelete'
  <2> SUFFICES ASSUME bestDir \in toDelete' PROVE FALSE
    OBVIOUS
  <2>1. PICK last \in Latest :
            toDelete' = {d \in Valid :
                            Cardinality(Above(d, last)) >= Kept(last)}
    BY <1>4
  <2>2. bestDir \in Valid /\ Cardinality(Above(bestDir, last)) >= Kept(last)
    BY <2>1
  <2>3. Above(bestDir, last) \subseteq {last} \ {bestDir}
        /\ (last # bestDir => Above(last, last) = {})
    BY <2>2, AboveBest
  <2>4. CASE Above(bestDir, last) = {}
    <3>1. Cardinality(Above(bestDir, last)) = 0
      BY <2>4, FS_EmptySet
    <3>2. Kept(last) \in Nat \ {0}
      BY <1>1 DEF Kept
    <3> QED BY <2>2, <3>1, <3>2
  <2>5. CASE Above(bestDir, last) # {}
    <3>1. last # bestDir /\ last \in Valid /\ Above(last, last) = {}
      BY <2>3, <2>5 DEF Above
    <3>2. bestDir # NoDir
      BY <2>2 DEF IInv, TypeOK, Valid, Listed
    <3>3. Kept(last) \in Nat /\ Kept(last) >= 2
      BY <1>1, <3>1, <3>2 DEF Kept
    <3>4. Cardinality(Above(bestDir, last)) \in {0, 1}
      BY <2>3, FewAbove
    <3> QED BY <2>2, <3>3, <3>4
  <2> QED BY <2>4, <2>5
<1>6. ASSUME Spared PROVE <<ver, tracer[ver]>> \notin toDelete'
  <2> DEFINE t == <<ver, tracer[ver]>>
  <2> SUFFICES ASSUME t \in toDelete' PROVE FALSE
    OBVIOUS
  <2>1. PICK last \in Latest :
            toDelete' = {d \in Valid :
                            Cardinality(Above(d, last)) >= Kept(last)}
    BY <1>4
  <2>2. t \in Valid /\ Cardinality(Above(t, last)) >= Kept(last)
    BY <2>1
  <2>3. t[2] = lastStep
    BY <1>3 DEF IInv, TypeOK, Rotating
  <2> HIDE DEF t
  <2>4. Above(t, last) \subseteq {bestDir}
    BY <2>2, <2>3, AboveTracer
  <2>5. CASE limit = 1
    <3>1. bestDir = NoDir
      BY <1>6, <2>5 DEF IInv, Rotating, Spared
    <3>2. bestDir \notin Valid
      BY <3>1 DEF IInv, TypeOK, Valid, Listed
    <3>3. Above(t, last) = {}
      BY <2>4, <3>2 DEF Above
    <3>4. Cardinality(Above(t, last)) = 0
      BY <3>3, FS_EmptySet
    <3>5. Kept(last) = 1
      BY <2>5, <3>1 DEF Kept
    <3> QED BY <2>2, <3>4, <3>5
  <2>6. CASE limit # 1
    <3>1. Cardinality(Above(t, last)) \in {0, 1}
      BY <2>4, FewAbove
    <3>2. Kept(last) = limit
      BY <2>6 DEF Kept
    <3> QED BY <1>1, <2>2, <2>6, <3>1, <3>2
  <2> QED BY <2>5, <2>6
<1>7. TypeOK'
  BY <1>3 DEF IInv, TypeOK, List, disk, best, config
<1>8. Ages'
  BY DEF IInv, Ages, Here, List, disk, best, config
<1>9. Rotating'
  BY <1>1, <1>3, <1>5, <1>6 DEF IInv, Rotating, Spared, List, disk, best, config
<1>10. (Spared => TracerAlwaysOnDisk)'
  BY DEF IInv, Spared, TracerAlwaysOnDisk, Named, List, disk, config
<1> QED BY <1>7, <1>8, <1>9, <1>10 DEF IInv

LEMMA DeleteKeeps == ASSUME IInv, Delete PROVE IInv'
<1>1. TypeOK'
  <2>1. pending \notin toDelete
    BY DEF IInv, TypeOK, Ages, Rotating
  <2> QED BY <2>1 DEF IInv, TypeOK, Delete, best, config
<1>2. Ages'
  BY DEF IInv, TypeOK, Ages, Here, Delete, best, config
<1>3. Rotating'
  BY DEF IInv, TypeOK, Ages, Rotating, Spared, Delete, best, config
<1>4. (Spared => TracerAlwaysOnDisk)'
  <2> SUFFICES ASSUME Spared PROVE TracerAlwaysOnDisk'
    BY DEF Spared, Delete, config
  <2>1. \A v \in Versions : <<v, tracer[v]>> \notin toDelete
    BY DEF IInv, TypeOK, Rotating
  <2>2. TracerAlwaysOnDisk
    BY DEF IInv
  <2> QED BY <2>1, <2>2 DEF Delete, TracerAlwaysOnDisk, Named
<1> QED BY <1>1, <1>2, <1>3, <1>4 DEF IInv

LEMMA RotatedKeeps == ASSUME IInv, Rotated PROVE IInv'
<1>1. TypeOK'
  BY DEF IInv, TypeOK, Rotated, disk, best, config, AfterSave
<1>2. Ages'
  BY DEF IInv, TypeOK, Ages, Here, Rotated, disk, best, config, AfterSave
<1>3. Rotating'
  BY DEF IInv, TypeOK, Ages, Rotating, Spared, Rotated, disk, best, config,
         AfterSave
<1>4. (Spared => TracerAlwaysOnDisk)'
  BY DEF IInv, TypeOK, Ages, Rotating, Spared, TracerAlwaysOnDisk, Named,
         Rotated, disk, best, config, AfterSave
<1> QED BY <1>1, <1>2, <1>3, <1>4 DEF IInv

LEMMA WaitLatestKeeps == ASSUME IInv, WaitLatest PROVE IInv'
<1>1. TypeOK'
  BY DEF IInv, TypeOK, WaitLatest, disk, best, config
<1>2. Ages'
  BY DEF IInv, TypeOK, Ages, Here, WaitLatest, disk, best, config
<1>3. Rotating'
  BY DEF IInv, TypeOK, Ages, Rotating, Spared, WaitLatest, disk, best, config
<1>4. (Spared => TracerAlwaysOnDisk)'
  BY DEF IInv, TypeOK, Ages, Rotating, Spared, TracerAlwaysOnDisk, Named,
         WaitLatest, disk, best, config
<1> QED BY <1>1, <1>2, <1>3, <1>4 DEF IInv

LEMMA PersistKeeps == ASSUME IInv, Persist PROVE IInv'
<1>1. PICK v \in Versions, s \in Steps : pending = <<v, s>> /\ pending \in dirs
  BY DEF IInv, TypeOK, Persist
<1>2. tracer' = [tracer EXCEPT ![v] = s] /\ tracer[v] < s /\ v <= ver
  BY <1>1 DEF IInv, TypeOK, Ages, Persist
<1>3. /\ tracer'[v] = s
      /\ \A u \in Versions : u # v => tracer'[u] = tracer[u]
      /\ \A u \in Versions : tracer[u] <= tracer'[u]
      /\ tracer' \in [Versions -> 0..MaxStep]
  BY <1>1, <1>2 DEF IInv, TypeOK
<1>4. TypeOK'
  BY <1>1, <1>3 DEF IInv, TypeOK, Persist, best, config
<1>5. Ages'
  <2>1. /\ complete' = complete \cup {<<v, s>>} /\ pending' = NoDir
        /\ UNCHANGED <<ver, pc, step, dirs>>
    BY <1>1 DEF Persist
  <2>2. \A d \in dirs : d \in Dir /\ d[1] \in Versions /\ d[2] \in Steps
    BY DEF IInv, TypeOK
  <2>3. \A d \in complete' : d[2] <= tracer'[d[1]]
    <3> SUFFICES ASSUME NEW d \in complete' PROVE d[2] <= tracer'[d[1]]
      OBVIOUS
    <3>1. CASE d = <<v, s>>
      BY <1>3, <3>1
    <3>2. CASE d \in complete
      <4>1. d \in dirs /\ d[2] <= tracer[d[1]]
        BY <3>2 DEF IInv, TypeOK, Ages
      <4>2. d[1] \in Versions /\ d[2] \in Int
        BY <2>2, <4>1
      <4> QED BY <1>3, <4>1, <4>2 DEF IInv, TypeOK
    <3> QED BY <2>1, <3>1, <3>2
  <2>4. ASSUME NEW u \in Versions, <<u, tracer'[u]>> \in dirs
        PROVE  <<u, tracer'[u]>> \in complete'
    <3>1. CASE u = v
      BY <1>3, <2>1, <3>1
    <3>2. CASE u # v
      BY <1>3, <2>1, <2>4, <3>2 DEF IInv, Ages
    <3> QED BY <3>1, <3>2
  <2>5. \A u \in Versions : tracer'[u] # 0 => u <= ver
    BY <1>2, <1>3 DEF IInv, Ages
  <2>6. /\ ver \in Versions /\ tracer'[ver] \in 0..MaxStep
        /\ (tracer'[ver] = tracer[ver] \/ (v = ver /\ tracer'[ver] = s))
        /\ pending[1] = v /\ pending[2] = s
    BY <1>1, <1>3 DEF IInv, TypeOK
  <2>7. tracer'[ver] <= step /\ (pc = "resume" => tracer'[ver] = 0)
    BY <2>6 DEF IInv, Ages
  <2>8. pc \in {"files", "store"} => tracer'[ver] < step
    BY <2>6 DEF IInv, Ages
  <2>9. pc = "store" => Here \in dirs
    BY DEF IInv, Ages
  <2>10. pending'[1] # ver
    BY <2>1, <2>6
  <2>11. \A d \in dirs : d[1] <= ver
    BY DEF IInv, Ages
  <2> QED BY <2>1, <2>3, <2>4, <2>5, <2>7, <2>8, <2>9, <2>10, <2>11 DEF Ages, Here
<1>6. <<v, s>> \notin toDelete
  BY <1>1, <1>2 DEF IInv, TypeOK, Rotating
<1>7. Rotating'
  <2>1. lastStep' <= tracer'[ver]
    BY <1>3 DEF IInv, TypeOK, Rotating, Persist
  <2>2. Spared' => <<ver, tracer'[ver]>> \notin toDelete
    BY <1>3, <1>6 DEF IInv, TypeOK, Rotating, Spared, Persist, config
  <2> QED BY <2>1, <2>2 DEF IInv, Rotating, Persist, best, config
<1>8. (Spared => TracerAlwaysOnDisk)'
  <2> SUFFICES ASSUME Spared, NEW u \in Versions, tracer'[u] # 0
               PROVE  <<u, tracer'[u]>> \in complete'
    BY DEF Spared, TracerAlwaysOnDisk, Named, Persist, config
  <2>1. CASE u = v
    BY <2>1, <1>1, <1>3 DEF Persist
  <2>2. CASE u # v
    BY <2>2, <1>3 DEF IInv, TracerAlwaysOnDisk, Named, Persist
  <2> QED BY <2>1, <2>2
<1> QED BY <1>4, <1>5, <1>7, <1>8 DEF IInv

LEMMA RestartKeeps == ASSUME IInv, Restart PROVE IInv'
<1>1. TypeOK'
  <2>1. ver' \in Versions /\ pending' \in dirs \cup {NoDir}
    BY DEF IInv, TypeOK, Restart
  <2>2. limit' = limit /\ tracked' = tracked /\ dirs' = dirs /\ complete' = complete
        /\ state' = state /\ tracer' = tracer
    BY DEF Restart, disk, config
  <2>3. /\ pc' = "resume" /\ step' = 0 /\ bestStep' = 0 /\ bestDir' = NoDir
        /\ lastStep' = 0 /\ toDelete' = {}
    BY DEF Restart
  <2>4. tracked' \in BOOLEAN /\ asked' \in BOOLEAN /\ stopping' \in BOOLEAN
    BY Zenon DEF IInv, TypeOK, Restart, config
  <2>5. limit' \in Limits /\ complete' \subseteq dirs' /\ dirs' \subseteq Dir
    BY <2>2 DEF IInv, TypeOK
  <2>6. state' \in [Dir -> (0..MaxStep) \X (Dir \cup {NoDir})]
    BY <2>2 DEF IInv, TypeOK
  <2>7. tracer' \in [Versions -> 0..MaxStep]
    BY <2>2 DEF IInv, TypeOK
  <2>8. step' \in 0..MaxStep /\ bestStep' \in 0..MaxStep /\ lastStep' \in 0..MaxStep
    BY <2>3
  <2>9. bestDir' \in Dir \cup {NoDir} /\ toDelete' \subseteq dirs'
    BY <2>3
  <2> QED BY <2>1, <2>2, <2>3, <2>4, <2>5, <2>6, <2>7, <2>8, <2>9 DEF TypeOK
<1>2. Ages'
  <2>1. /\ ver' = ver + 1 /\ step' = 0 /\ pc' = "resume"
        /\ (pending' = NoDir \/ pending' = pending)
    BY DEF Restart
  <2>0. ver \in Nat
    BY DEF IInv, TypeOK
  <2>2. UNCHANGED <<dirs, complete, tracer>>
    BY DEF Restart, disk
  <2>3. \A d \in dirs : d[1] \in Nat /\ d[1] <= ver
    BY DEF IInv, TypeOK, Ages
  <2>4. \A v \in Versions : v \in Nat /\ (tracer[v] # 0 => v <= ver)
    BY DEF IInv, Ages
  <2>5. tracer'[ver'] = 0
    <3>1. ver' \in Versions /\ ~ (ver' <= ver)
      <4>1. ver < MaxStarts
        BY DEF Restart
      <4> QED BY <2>0, <2>1, <4>1
    <3> QED BY <2>2, <2>4, <3>1
  <2>6. pending'[1] # ver'
    <3>1. NoDir[1] # ver'
      BY <2>0, <2>1
    <3>2. pending \in dirs => pending[1] # ver'
      BY <2>0, <2>1, <2>3
    <3> QED BY <2>1, <3>1, <3>2, Zenon DEF IInv, TypeOK
  <2>7. pending' # NoDir => tracer'[pending'[1]] < pending'[2]
    BY <2>1, <2>2 DEF IInv, Ages
  <2>8. \A d \in dirs : d[1] <= ver'
    BY <2>0, <2>1, <2>3
  <2>9. \A v \in Versions : tracer[v] # 0 => v <= ver'
    BY <2>0, <2>1, <2>4
  <2> QED BY <2>1, <2>2, <2>5, <2>6, <2>7, <2>8, <2>9 DEF IInv, Ages
<1>3. Rotating'
  BY DEF IInv, TypeOK, Ages, Rotating, Spared, Restart, disk, config
<1>4. (Spared => TracerAlwaysOnDisk)'
  BY DEF IInv, TypeOK, Ages, Rotating, Spared, TracerAlwaysOnDisk, Named,
         Restart, disk, config
<1> QED BY <1>1, <1>2, <1>3, <1>4 DEF IInv

LEMMA StepKeeps == IInv /\ [Next]_vars => IInv'
<1> SUFFICES ASSUME IInv, [Next]_vars PROVE IInv'
  OBVIOUS
<1>1. CASE StartFromScratch BY <1>1, StartFromScratchKeeps
<1>2. CASE Resume BY <1>2, ResumeKeeps
<1>3. CASE ResumeFails BY <1>3, ResumeFailsKeeps
<1>4. CASE AskToStop BY <1>4, AskToStopKeeps
<1>5. CASE Train BY <1>5, TrainKeeps
<1>6. CASE SaveFiles BY <1>6, SaveFilesKeeps
<1>7. CASE Store BY <1>7, StoreKeeps
<1>8. CASE Skip BY <1>8, SkipKeeps
<1>9. CASE ReadTracer BY <1>9, ReadTracerKeeps
<1>10. CASE List BY <1>10, ListKeeps
<1>11. CASE Delete BY <1>11, DeleteKeeps
<1>12. CASE Rotated BY <1>12, RotatedKeeps
<1>13. CASE WaitLatest BY <1>13, WaitLatestKeeps
<1>14. CASE Persist BY <1>14, PersistKeeps
<1>15. CASE Restart BY <1>15, RestartKeeps
<1>16. CASE UNCHANGED vars
  <2>1. TypeOK'
    BY <1>16, Zenon DEF vars, disk, best, config, IInv, TypeOK
  <2>2. Ages' /\ Rotating'
    BY <1>16, Zenon DEF vars, disk, best, config, IInv, Ages, Rotating, Spared, Here
  <2>3. (Spared => TracerAlwaysOnDisk)'
    BY <1>16, Zenon DEF vars, disk, best, config, IInv, Spared,
                        TracerAlwaysOnDisk, Named
  <2> QED BY <2>1, <2>2, <2>3 DEF IInv
<1> QED
  BY <1>1, <1>2, <1>3, <1>4, <1>5, <1>6, <1>7, <1>8, <1>9, <1>10, <1>11, <1>12,
     <1>13, <1>14, <1>15, <1>16 DEF Next

LEMMA Invariance == Spec => []IInv
  BY InitHolds, StepKeeps, PTL DEF Spec

-----------------------------------------------------------------------------
(* The checkpoint that dlrover_latest.txt names stays on disk through every*)
(* interleaving of _rotate_flash_checkpoints with the agent, unless one    *)
(* checkpoint is kept and a best one is tracked.                           *)
THEOREM TracerStays == Spec => []TracerOnDisk
<1>1. IInv => TracerOnDisk
  BY DEF IInv, Spared, TracerOnDisk
<1> QED BY <1>1, Invariance, PTL

(* The rotation never deletes the whole best checkpoint of the job: it     *)
(* stands at most one place below the last, and then two are kept.         *)
THEOREM BestIsKept == Spec => BestStays
<1>1. ASSUME IInv, [Next]_vars, ver' = ver, bestDir' = bestDir,
             bestDir \in complete
      PROVE  bestDir \in complete'
  <2>1. CASE Delete
    BY <1>1, <2>1 DEF Delete, IInv, Rotating
  <2>2. CASE ~Delete
    BY <1>1, <2>2
       DEF Next, vars, disk, StartFromScratch, Resume, ResumeFails, AskToStop,
           Train, SaveFiles, Store, Skip, ReadTracer, List, Rotated, WaitLatest,
           Persist, Restart
  <2> QED BY <2>1, <2>2
<1>2. IInv /\ [Next]_vars =>
        [ver' = ver /\ bestDir' = bestDir /\ bestDir \in complete
             => bestDir \in complete']_vars
  BY <1>1
<1> QED BY <1>2, Invariance, PTL DEF Spec, BestStays

(* get_resume_checkpoint takes the newest whole checkpoint of the version  *)
(* before, though newer directories that are not whole lie beside it.      *)
THEOREM ResumesFromLast == Spec => ResumesLastComplete
<1>1. ASSUME IInv, [Next]_vars, pc = "resume", pc' = "train", NEW s \in Steps,
             <<ver - 1, s>> \in complete
      PROVE  \/ tracer[ver - 1] = MaxStep /\ step' = 0
             \/ s <= step' /\ <<ver - 1, step'>> \in complete
  <2>1. ver - 1 \in Versions /\ tracer[ver - 1] \in 0..MaxStep
        /\ s <= tracer[ver - 1] /\ tracer[ver - 1] # 0
    BY <1>1 DEF IInv, TypeOK, Ages
  <2>2. Previous = <<ver - 1, tracer[ver - 1]>>
    BY <2>1 DEF IInv, TypeOK, Previous
  <2>3. StartFromScratch \/ Resume
    BY <1>1
       DEF Next, vars, ResumeFails, AskToStop, Train, SaveFiles, Store, Skip,
           ReadTracer, List, Delete, Rotated, WaitLatest, Persist, Restart,
           AfterSave
  <2>4. CASE StartFromScratch
    BY <2>1, <2>2, <2>4 DEF StartFromScratch
  <2>5. CASE Resume
    <3>1. step' = tracer[ver - 1] /\ <<ver - 1, tracer[ver - 1]>> \in dirs
      BY <2>2, <2>5 DEF Resume
    <3>2. <<ver - 1, tracer[ver - 1]>> \in complete
      <4>1. \A u \in Versions :
                <<u, tracer[u]>> \in dirs => <<u, tracer[u]>> \in complete
        BY <1>1 DEF IInv, Ages
      <4> QED BY <2>1, <3>1, <4>1
    <3> QED BY <2>1, <3>1, <3>2
  <2> QED BY <2>3, <2>4, <2>5
<1>2. IInv /\ [Next]_vars =>
        [pc = "resume" /\ pc' = "train" =>
             \A s \in Steps : <<ver - 1, s>> \in complete =>
                 \/ tracer[ver - 1] = MaxStep /\ step' = 0
                 \/ s <= step' /\ <<ver - 1, step'>> \in complete]_vars
  BY <1>1
<1> QED BY <1>2, Invariance, PTL DEF Spec, ResumesLastComplete
==============================================================================

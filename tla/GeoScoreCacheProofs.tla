------------------------- MODULE GeoScoreCacheProofs -------------------------
(* Proofs that the shared cache file of GeoScoreCache only grows, and that  *)
(* every process remembers what the file says, for any set of processes,    *)
(* addresses, known places and faults; and that waiting for usage limits    *)
(* never makes a place that the service knows an error.                     *)
EXTENDS GeoScoreCache, SequenceTheorems, TLAPS

Inside(p) == pc[p] \in {"read", "replace"}

(* The functions that EXCEPT updates are functions. *)
AreFunctions ==
    /\ pc = [p \in Procs |-> pc[p]]
    /\ mem = [p \in Procs |-> mem[p]]
    /\ snap = [p \in Procs |-> snap[p]]
    /\ disk = [k \in Keys |-> disk[k]]
    /\ \A p \in Procs : mem[p] = [k \in Keys |-> mem[p][k]]
    /\ \A p \in Procs : snap[p] = [k \in Keys |-> snap[p][k]]

(* The steps between reading the file and replacing it hold the lock, *)
LockHeld == \A p \in Procs : Inside(p) => lock = p

(* and what was read is still what the file says when it is replaced. *)
SnapFresh ==
    \A p \in Procs : pc[p] = "replace" /\ "read" \notin faults => snap[p] = disk

IInv == AreFunctions /\ LockHeld /\ SnapFresh /\ MemoryAgrees

LEMMA InitIInv == Init => IInv
  BY DEF Init, IInv, AreFunctions, LockHeld, SnapFresh, MemoryAgrees, Inside,
         Empty

(* A step of p outside the lock that leaves memory and file alone.         *)
LEMMA QuietStep ==
  ASSUME IInv, NEW p \in Procs, NEW at, at \notin {"read", "replace"},
         pc' = [pc EXCEPT ![p] = at],
         UNCHANGED <<faults, mem, snap, disk, lock>>
  PROVE  IInv'
  <1>1. AreFunctions'
    BY DEF IInv, AreFunctions
  <1>2. \A q \in Procs : pc'[q] \in {"read", "replace"} => pc'[q] = pc[q]
    BY DEF IInv, AreFunctions
  <1>3. LockHeld' /\ SnapFresh' /\ MemoryAgrees'
    BY <1>2 DEF IInv, LockHeld, SnapFresh, MemoryAgrees, Inside
  <1> QED BY <1>1, <1>3 DEF IInv

(* Returning from a call stays outside the lock. *)
LEMMA ReturnPc ==
  ASSUME NEW p, NEW r, Return(p, r)
  PROVE  \E at : at \notin {"read", "replace"} /\ pc' = [pc EXCEPT ![p] = at]
  BY DEF Return

(* All steps outside the lock but LookUp. *)
LEMMA OutsideSteps ==
  ASSUME IInv, NEW p \in Procs,
         \/ Begin(p) \/ Reject(p) \/ Recall(p) \/ Ask(p) \/ Answered(p)
         \/ Limited(p) \/ Failed(p) \/ Denied(p) \/ SkipWrite(p)
  PROVE  IInv'
  <1> DEFINE Quiet ==
        /\ \E at : at \notin {"read", "replace"} /\ pc' = [pc EXCEPT ![p] = at]
        /\ UNCHANGED <<faults, mem, snap, disk, lock>>
  <1>1. Quiet => IInv'
    BY QuietStep
  <1>2. CASE Begin(p)
    BY <1>1, <1>2 DEF Begin
  <1>3. CASE Reject(p) \/ Recall(p) \/ SkipWrite(p)
    BY <1>1, <1>3, ReturnPc DEF Reject, Recall, SkipWrite, AfterWrite
  <1>4. CASE Ask(p)
    BY <1>1, <1>4 DEF Ask
  <1>5. CASE Answered(p)
    BY <1>1, <1>5 DEF Answered, Conclude
  <1>6. CASE Limited(p)
    <2>1. pc' = [pc EXCEPT ![p] = "request"]
      BY <1>6 DEF Limited, IInv, AreFunctions
    <2> QED BY <1>1, <1>6, <2>1 DEF Limited
  <1>7. CASE Failed(p)
    <2>1. CASE retry[p] < Retries
      <3>1. pc' = [pc EXCEPT ![p] = "request"]
        BY <1>7, <2>1 DEF Failed, IInv, AreFunctions
      <3> QED BY <1>1, <1>7, <3>1 DEF Failed
    <2>2. CASE ~ (retry[p] < Retries)
      BY <1>1, <1>7, <2>2 DEF Failed, Conclude
    <2> QED BY <2>1, <2>2
  <1>8. CASE Denied(p)
    BY <1>1, <1>8 DEF Denied, Conclude
  <1> QED BY <1>2, <1>3, <1>4, <1>5, <1>6, <1>7, <1>8

(* LookUp remembers what the file says. *)
LEMMA LookUpStep ==
  ASSUME IInv, NEW p \in Procs, LookUp(p)
  PROVE  IInv'
  <1>1. PICK at : at \notin {"read", "replace"} /\ pc' = [pc EXCEPT ![p] = at]
    BY ReturnPc DEF LookUp
  <1>2. /\ mem' = [mem EXCEPT ![p][TopKey(p)] = disk[TopKey(p)]]
        /\ UNCHANGED <<faults, snap, disk, lock>>
    BY DEF LookUp
  <1>3. AreFunctions'
    BY <1>1, <1>2 DEF IInv, AreFunctions
  <1>4. LockHeld' /\ SnapFresh'
    BY <1>1, <1>2 DEF IInv, AreFunctions, LockHeld, SnapFresh, Inside
  <1>5. MemoryAgrees'
    <2>1. ASSUME NEW q \in Procs, NEW k \in Keys
          PROVE  mem'[q][k] \in {mem[q][k], disk[k]}
      BY <1>2 DEF IInv, AreFunctions
    <2> QED BY <1>2, <2>1 DEF IInv, MemoryAgrees
  <1> QED BY <1>3, <1>4, <1>5 DEF IInv

(* Acquire enters when nobody is inside. *)
LEMMA AcquireStep ==
  ASSUME IInv, NEW p \in Procs, Acquire(p)
  PROVE  IInv'
  <1>1. /\ lock = Free /\ lock' = p
        /\ pc' = [pc EXCEPT ![p] = "read"]
        /\ UNCHANGED <<faults, mem, snap, disk>>
    BY DEF Acquire
  <1>2. AreFunctions' /\ MemoryAgrees'
    BY <1>1 DEF IInv, AreFunctions, MemoryAgrees
  <1>3. \A q \in Procs : ~ Inside(q)
    BY <1>1, LockAssumption DEF IInv, LockHeld
  <1>4. LockHeld' /\ SnapFresh'
    BY <1>1, <1>3 DEF IInv, AreFunctions, LockHeld, SnapFresh, Inside
  <1> QED BY <1>2, <1>4 DEF IInv

(* ReadFile takes a copy of the file. *)
LEMMA ReadFileStep ==
  ASSUME IInv, NEW p \in Procs, ReadFile(p)
  PROVE  IInv'
  <1>1. PICK file : /\ snap' = [snap EXCEPT ![p] = file]
                    /\ \/ file = disk
                       \/ "read" \in faults /\ file = Empty
    BY DEF ReadFile
  <1>2. /\ pc[p] = "read" /\ pc' = [pc EXCEPT ![p] = "replace"]
        /\ UNCHANGED <<faults, mem, disk, lock>>
    BY DEF ReadFile
  <1>3. AreFunctions' /\ MemoryAgrees'
    BY <1>1, <1>2 DEF IInv, AreFunctions, MemoryAgrees, Empty
  <1>4. LockHeld' /\ SnapFresh'
    BY <1>1, <1>2 DEF IInv, AreFunctions, LockHeld, SnapFresh, Inside
  <1> QED BY <1>3, <1>4 DEF IInv

(* What Replace leaves in the file: what was read, and the key it lacked.  *)
LEMMA ReplaceFile ==
  ASSUME IInv, NEW p \in Procs, Replace(p), "read" \notin faults
  PROVE  /\ mem' = [mem EXCEPT ![p] = disk']
         /\ \A k \in Keys : disk[k] # Absent => disk'[k] = disk[k]
  <1>1. snap[p] = disk
    BY DEF Replace, IInv, SnapFresh
  <1>2. CASE disk[TopKey(p)] = Absent
    <2>1. /\ disk' = [disk EXCEPT ![TopKey(p)] = result[p]]
          /\ mem' = [mem EXCEPT ![p] = disk']
      BY <1>1, <1>2 DEF Replace
    <2> QED BY <1>2, <2>1 DEF IInv, AreFunctions
  <1>3. CASE disk[TopKey(p)] # Absent
    BY <1>1, <1>3 DEF Replace
  <1> QED BY <1>2, <1>3

LEMMA ReplaceStep ==
  ASSUME IInv, NEW p \in Procs, Replace(p)
  PROVE  IInv'
  <1>1. PICK at : at \notin {"read", "replace"} /\ pc' = [pc EXCEPT ![p] = at]
    BY ReturnPc DEF Replace, AfterWrite
  <1>2. pc[p] = "replace" /\ snap' = [snap EXCEPT ![p] = Empty]
        /\ UNCHANGED faults
    BY DEF Replace
  <1>3. AreFunctions'
    <2>1. PICK file : /\ file = [k \in Keys |-> file[k]]
                      /\ mem' = [mem EXCEPT ![p] = file]
      BY DEF Replace, IInv, AreFunctions
    <2>2. disk' = [k \in Keys |-> disk'[k]]
      BY DEF Replace, IInv, AreFunctions
    <2> QED BY <1>1, <1>2, <2>1, <2>2 DEF IInv, AreFunctions, Empty
  <1>4. \A q \in Procs : ~ Inside(q)'
    BY <1>1, <1>2 DEF IInv, AreFunctions, LockHeld, Inside
  <1>5. LockHeld' /\ SnapFresh'
    BY <1>4 DEF LockHeld, SnapFresh, Inside
  <1>6. MemoryAgrees'
    <2>1. CASE "read" \in faults
      BY <1>2, <2>1 DEF MemoryAgrees
    <2>2. CASE "read" \notin faults
      <3>1. ASSUME NEW q \in Procs, NEW k \in Keys
            PROVE  mem'[q][k] \in {Absent, disk'[k]}
        <4>1. /\ mem' = [mem EXCEPT ![p] = disk']
              /\ \A x \in Keys : disk[x] # Absent => disk'[x] = disk[x]
          BY <2>2, ReplaceFile
        <4>2. CASE q = p
          BY <4>1, <4>2 DEF IInv, AreFunctions
        <4>3. CASE q # p
          <5>1. mem'[q] = mem[q]
            BY <4>1, <4>3 DEF IInv, AreFunctions
          <5>2. mem[q][k] \in {Absent, disk[k]}
            BY <2>2 DEF IInv, MemoryAgrees
          <5> QED BY <4>1, <5>1, <5>2
        <4> QED BY <4>2, <4>3
      <3> QED BY <3>1 DEF MemoryAgrees
    <2> QED BY <2>1, <2>2
  <1> QED BY <1>3, <1>5, <1>6 DEF IInv

(* A failed write, or a process that dies, gives the lock back, and only   *)
(* its own.                                                                *)
LEMMA LeaveStep ==
  ASSUME IInv, NEW p \in Procs, WriteFails(p) \/ Crash(p)
  PROVE  IInv'
  <1>1. PICK at : at \notin {"read", "replace"} /\ pc' = [pc EXCEPT ![p] = at]
    BY ReturnPc DEF WriteFails, Crash, Conclude
  <1>2. /\ snap' = [snap EXCEPT ![p] = Empty]
        /\ \/ mem' = mem
           \/ mem' = [mem EXCEPT ![p] = Empty]
        /\ lock' = lock \/ lock = p
        /\ UNCHANGED <<faults, disk>>
    BY DEF WriteFails, Crash, IInv, LockHeld, Inside
  <1>3. AreFunctions'
    <2>1. Empty = [k \in Keys |-> Empty[k]]
      BY DEF Empty
    <2>2. pc' = [q \in Procs |-> pc'[q]]
      BY <1>1 DEF IInv, AreFunctions
    <2>3. /\ snap' = [q \in Procs |-> snap'[q]]
          /\ \A q \in Procs : snap'[q] = [k \in Keys |-> snap'[q][k]]
      BY <1>2, <2>1 DEF IInv, AreFunctions
    <2>4. /\ mem' = [q \in Procs |-> mem'[q]]
          /\ \A q \in Procs : mem'[q] = [k \in Keys |-> mem'[q][k]]
      BY <1>2, <2>1 DEF IInv, AreFunctions
    <2>5. disk' = [k \in Keys |-> disk'[k]]
      BY <1>2 DEF IInv, AreFunctions
    <2> QED BY <2>2, <2>3, <2>4, <2>5 DEF AreFunctions
  <1>4. LockHeld' /\ SnapFresh'
    BY <1>1, <1>2 DEF IInv, AreFunctions, LockHeld, SnapFresh, Inside
  <1>5. MemoryAgrees'
    BY <1>2 DEF IInv, AreFunctions, MemoryAgrees, Empty
  <1> QED BY <1>3, <1>4, <1>5 DEF IInv

LEMMA NextIInv ==
  IInv /\ [Next]_vars => IInv'
  <1>1. ASSUME IInv, UNCHANGED vars
        PROVE  IInv'
    BY <1>1 DEF vars, process, IInv, AreFunctions, LockHeld, SnapFresh,
                MemoryAgrees, Inside
  <1>2. ASSUME IInv, NEW p \in Procs,
               \/ Begin(p) \/ Work(p) \/ Acquire(p) \/ Answered(p)
               \/ Limited(p) \/ Failed(p) \/ Denied(p) \/ WriteFails(p)
               \/ Crash(p)
        PROVE  IInv'
    BY <1>2, OutsideSteps, LookUpStep, AcquireStep, ReadFileStep, ReplaceStep,
       LeaveStep DEF Work
  <1> QED BY <1>1, <1>2 DEF Next

THEOREM IInvHolds == Spec => []IInv
  BY InitIInv, NextIInv, PTL DEF Spec

(* All processes remember the same thing for the same place, what the file *)
(* says (self.cache of GeoScoreAccuracy).                                  *)
THEOREM MemoriesAgree == Spec => []MemoryAgrees
  <1>1. IInv => MemoryAgrees
    BY DEF IInv
  <1> QED BY <1>1, IInvHolds, PTL

(* A step changes the file only by Replace, which keeps what is there.     *)
LEMMA StepKeepsEntries ==
  ASSUME IInv, [Next]_vars, "read" \notin faults,
         NEW k \in Keys, disk[k] # Absent
  PROVE  disk'[k] = disk[k]
  <1>1. CASE \E p \in Procs : Replace(p)
    BY <1>1, ReplaceFile
  <1>2. CASE ~ \E p \in Procs : Replace(p)
    <2>1. UNCHANGED disk
      BY <1>2 DEF Next, Work, Begin, Reject, Recall, LookUp, Ask, SkipWrite,
                  ReadFile, Acquire, Answered, Limited, Failed, Denied,
                  WriteFails, Crash, vars
    <2> QED BY <2>1
  <1> QED BY <1>1, <1>2

(* The cache file of _write_cache_once only grows: what one process wrote  *)
(* no other one loses or overwrites, whatever the interleaving.            *)
THEOREM FileOnlyGrows == Spec => WriteOnce
  <1>1. IInv /\ [Next]_vars
        => [\A k \in Keys : "read" \notin faults /\ disk[k] # Absent
                                => disk'[k] = disk[k]]_vars
    BY StepKeepsEntries
  <1> QED BY <1>1, IInvHolds, PTL DEF Spec, WriteOnce
-----------------------------------------------------------------------------
(* An address without its last part is an address. *)
LEMMA FrontAddress ==
  ASSUME NEW a \in Addresses, Len(a) > 1
  PROVE  Front(a) \in Addresses
  <1>1. PICK b \in Address : \E n \in 1..Len(b) : a = SubSeq(b, 1, n)
    BY DEF Addresses, Shortened
  <1>0. PICK n \in 1..Len(b) : a = SubSeq(b, 1, n)
    BY <1>1
  <1>2. b \in Seq(Range(b)) /\ Len(b) \in Nat
    BY AddressAssumption, LenProperties
  <1>3. Len(a) = n
    BY <1>0, <1>2
  <1>4. Front(a) = SubSeq(b, 1, n - 1)
    <2>1. SubSeq(SubSeq(b, 1, n), 1, n - 1) = SubSeq(b, 1, n - 1)
      BY <1>2, <1>3
    <2> QED BY <1>0, <1>3, <2>1 DEF Front
  <1>5. n - 1 \in 1..Len(b)
    BY <1>2, <1>3
  <1> QED BY <1>4, <1>5 DEF Addresses, Shortened

LEMMA WholeAddress == Address \subseteq Addresses
  <1>1. ASSUME NEW a \in Address
        PROVE  a \in Addresses
    <2>1. a \in Seq(Range(a)) /\ a # << >>
      BY AddressAssumption
    <2>2. SubSeq(a, 1, Len(a)) = a /\ Len(a) \in 1..Len(a)
      BY <2>1
    <2>3. a \in Shortened(a)
      BY <2>2 DEF Shortened
    <2> QED BY <2>3 DEF Addresses
  <1> QED BY <1>1

-----------------------------------------------------------------------------
(* As long as usage limits, kills and unreadable files are all that may     *)
(* happen,                                                                  *)
Mild == faults \subseteq {"limit", "crash", "read"}

Good(file) ==
    \A k \in (Known \cap Keys) \ Invalid : file[k] \in {Absent, Success(k)}

(* no copy of the file has an error for a known place,                      *)
FilesGood ==
    /\ Good(disk)
    /\ \A p \in Procs : Good(mem[p]) /\ Good(snap[p])

(* a call goes on to a shorter address only when the service does not know  *)
(* the longer one, so that what it gets from there is none of its own,      *)
StacksUnknown ==
    /\ stack = [p \in Procs |-> stack[p]]
    /\ \A p \in Procs :
          /\ stack[p] \in Seq(Addresses)
          /\ pc[p] # "idle" => stack[p] # << >>
          /\ \A i \in 1..(Len(stack[p]) - 1) : Key(stack[p][i]) \notin Known

(* and what is about to be written, or was answered, is right.              *)
Writing == {"write", "read", "replace"}
ResultsGood ==
    /\ result = [p \in Procs |-> result[p]]
    /\ Mild => \A p \in Procs :
          pc[p] \in Writing /\ TopKey(p) \in Known \ Invalid
              => result[p] = Success(TopKey(p))
AnswersGood ==
    /\ answer = [p \in Procs |-> answer[p]]
    /\ Mild => \A p \in Procs :
          answer[p].to \in Known \ Invalid
              => answer[p].is = Success(answer[p].to)

KInv == (Mild => FilesGood) /\ StacksUnknown /\ ResultsGood /\ AnswersGood

LEMMA InitKInv == Init => KInv
  BY KnownAssumption
  DEF Init, KInv, FilesGood, Good, Empty, StacksUnknown, ResultsGood, Writing,
      AnswersGood, NoAnswer

(* The address on top of a stack is one whose key is a key.                 *)
LEMMA TopIsAddress ==
  ASSUME StacksUnknown, NEW p \in Procs, pc[p] # "idle"
  PROVE  /\ Top(p) \in Addresses /\ TopKey(p) \in Keys
         /\ Len(stack[p]) \in Nat \ {0}
  <1>1. stack[p] \in Seq(Addresses) /\ stack[p] # << >>
    BY DEF StacksUnknown
  <1>2. Len(stack[p]) \in Nat \ {0}
    BY <1>1
  <1>3. Top(p) \in Addresses
    BY <1>1, <1>2 DEF Top, Last
  <1> QED BY <1>2, <1>3 DEF TopKey, Keys

(* A process moves on, with another stack of which the same is true.        *)
LEMMA StackChange ==
  ASSUME StacksUnknown, AreFunctions,
         NEW p \in Procs, NEW at, NEW st \in Seq(Addresses),
         at # "idle" => st # << >>,
         \A i \in 1..(Len(st) - 1) : Key(st[i]) \notin Known,
         pc' = [pc EXCEPT ![p] = at], stack' = [stack EXCEPT ![p] = st]
  PROVE  StacksUnknown'
  <1>1. stack' = [q \in Procs |-> stack'[q]]
    BY DEF StacksUnknown
  <1>2. ASSUME NEW q \in Procs
        PROVE  /\ stack'[q] = IF q = p THEN st ELSE stack[q]
               /\ pc'[q] = IF q = p THEN at ELSE pc[q]
    BY DEF StacksUnknown, AreFunctions
  <1>3. ASSUME NEW q \in Procs
        PROVE  /\ stack'[q] \in Seq(Addresses)
               /\ pc'[q] # "idle" => stack'[q] # << >>
               /\ \A i \in 1..(Len(stack'[q]) - 1) :
                     Key(stack'[q][i]) \notin Known
    <2>1. CASE q = p
      BY <1>2, <2>1
    <2>2. CASE q # p
      BY <1>2, <2>2 DEF StacksUnknown
    <2> QED BY <2>1, <2>2
  <1> QED BY <1>1, <1>3 DEF StacksUnknown

(* A call returns: a longer one gets a result for another place.            *)
LEMMA ReturnKeeps ==
  ASSUME StacksUnknown, ResultsGood, AnswersGood, AreFunctions,
         NEW p \in Procs, pc[p] # "idle", NEW r, Return(p, r),
         Mild /\ TopKey(p) \in Known \ Invalid => r = Success(TopKey(p)),
         UNCHANGED faults
  PROVE  StacksUnknown' /\ ResultsGood' /\ AnswersGood'
  <1>1. /\ stack[p] \in Seq(Addresses) /\ Len(stack[p]) \in Nat \ {0}
        /\ \A i \in 1..(Len(stack[p]) - 1) : Key(stack[p][i]) \notin Known
    BY TopIsAddress DEF StacksUnknown
  <1>2. /\ Front(stack[p]) \in Seq(Addresses)
        /\ Len(Front(stack[p])) = Len(stack[p]) - 1
        /\ \A i \in 1..(Len(stack[p]) - 1) : Front(stack[p])[i] = stack[p][i]
    BY <1>1 DEF Front
  <1>3. stack' = [stack EXCEPT ![p] = Front(stack[p])]
    BY DEF Return
  <1>4. Mild' = Mild
    BY DEF Mild
  <1>5. CASE Len(stack[p]) > 1
    <2>1. /\ pc' = [pc EXCEPT ![p] = "write"]
          /\ result' = [result EXCEPT ![p] = r]
          /\ UNCHANGED answer
      BY <1>5 DEF Return
    <2>2. stack'[p] = Front(stack[p])
      BY <1>3 DEF StacksUnknown
    <2>3. TopKey(p)' \notin Known
      BY <1>1, <1>2, <1>5, <2>2 DEF TopKey, Top, Last
    <2>4. StacksUnknown'
      <3>1. Front(stack[p]) # << >>
        BY <1>2, <1>5
      <3>2. \A i \in 1..(Len(Front(stack[p])) - 1) :
                Key(Front(stack[p])[i]) \notin Known
        BY <1>1, <1>2
      <3> QED BY <1>2, <1>3, <2>1, <3>1, <3>2, StackChange
    <2>5. ResultsGood'
      BY <1>3, <1>4, <2>1, <2>3
      DEF ResultsGood, AreFunctions, StacksUnknown, TopKey, Top
    <2>6. AnswersGood'
      BY <1>4, <2>1 DEF AnswersGood
    <2> QED BY <2>4, <2>5, <2>6
  <1>6. CASE ~ (Len(stack[p]) > 1)
    <2>1. /\ pc' = [pc EXCEPT ![p] = "idle"]
          /\ result' = [result EXCEPT ![p] = Absent]
          /\ answer' = [answer EXCEPT ![p] = [to |-> TopKey(p), is |-> r]]
      BY <1>6 DEF Return
    <2>2. StacksUnknown'
      <3>1. \A i \in 1..(Len(Front(stack[p])) - 1) :
                Key(Front(stack[p])[i]) \notin Known
        BY <1>1, <1>2
      <3> QED BY <1>2, <1>3, <2>1, <3>1, StackChange
    <2>3. ResultsGood'
      BY <1>3, <1>4, <2>1
      DEF ResultsGood, Writing, AreFunctions, StacksUnknown, TopKey, Top
    <2>4. AnswersGood'
      BY <1>4, <2>1 DEF AnswersGood
    <2> QED BY <2>2, <2>3, <2>4
  <1> QED BY <1>5, <1>6

-----------------------------------------------------------------------------
(* The steps, when there is nothing worse than limits, kills and reading.   *)

LEMMA BeginKeeps ==
  ASSUME KInv, IInv, NEW p \in Procs, Begin(p)
  PROVE  KInv'
  <1>1. PICK a \in Address : stack' = [stack EXCEPT ![p] = <<a>>]
    BY DEF Begin
  <1>2. /\ pc' = [pc EXCEPT ![p] = "call"]
        /\ answer' = [answer EXCEPT ![p] = NoAnswer]
        /\ UNCHANGED <<faults, result, mem, snap, disk>>
    BY DEF Begin
  <1>3. StacksUnknown'
    <2>1. <<a>> \in Seq(Addresses) /\ <<a>> # << >> /\ Len(<<a>>) = 1
      BY WholeAddress
    <2>2. \A i \in 1..(Len(<<a>>) - 1) : Key(<<a>>[i]) \notin Known
      BY <2>1
    <2> QED BY <1>1, <1>2, <2>1, <2>2, StackChange DEF KInv, IInv
  <1>4. ResultsGood'
    BY <1>1, <1>2 DEF KInv, ResultsGood, Writing, IInv, AreFunctions,
                      StacksUnknown, Mild, TopKey, Top
  <1>5. AnswersGood'
    BY <1>2, KnownAssumption DEF KInv, AnswersGood, Mild, NoAnswer
  <1>6. (Mild => FilesGood)'
    BY <1>2 DEF KInv, Mild, FilesGood, Good
  <1> QED BY <1>3, <1>4, <1>5, <1>6 DEF KInv

(* A call that returns without touching the files.                          *)
LEMMA QuietReturnKeeps ==
  ASSUME KInv, IInv, NEW p \in Procs, pc[p] # "idle", NEW r, Return(p, r),
         Mild /\ TopKey(p) \in Known \ Invalid => r = Success(TopKey(p)),
         UNCHANGED <<faults, snap, disk>>,
         (Mild => FilesGood)'
  PROVE  KInv'
  BY ReturnKeeps DEF KInv, IInv

LEMMA RecallKeeps ==
  ASSUME KInv, IInv, NEW p \in Procs,
         Reject(p) \/ Recall(p) \/ LookUp(p) \/ SkipWrite(p)
  PROVE  KInv'
  <1>1. CASE Reject(p)
    BY <1>1, QuietReturnKeeps
    DEF Reject, KInv, Mild, FilesGood, Good
  <1>2. CASE Recall(p)
    <2>1. Mild /\ TopKey(p) \in Known \ Invalid
            => mem[p][TopKey(p)] = Success(TopKey(p))
      BY <1>2, TopIsAddress DEF Recall, KInv, FilesGood, Good
    <2> QED BY <1>2, <2>1, QuietReturnKeeps
            DEF Recall, KInv, Mild, FilesGood, Good
  <1>3. CASE LookUp(p)
    <2>1. Mild /\ TopKey(p) \in Known \ Invalid
            => disk[TopKey(p)] = Success(TopKey(p))
      BY <1>3, TopIsAddress DEF LookUp, KInv, FilesGood, Good
    <2>2. /\ mem' = [mem EXCEPT ![p][TopKey(p)] = disk[TopKey(p)]]
          /\ UNCHANGED <<faults, snap, disk>>
      BY <1>3 DEF LookUp
    <2>3. ASSUME Mild, NEW q \in Procs,
                 NEW k \in (Known \cap Keys) \ Invalid
          PROVE  mem'[q][k] \in {Absent, Success(k)}
      <3>1. mem'[q][k] \in {mem[q][k], disk[k]}
        BY <2>2 DEF IInv, AreFunctions
      <3> QED BY <2>3, <3>1 DEF KInv, FilesGood, Good
    <2>4. (Mild => FilesGood)'
      BY <2>2, <2>3 DEF KInv, Mild, FilesGood, Good
    <2> QED BY <1>3, <2>1, <2>2, <2>4, QuietReturnKeeps DEF LookUp
  <1>4. CASE SkipWrite(p)
    <2>1. /\ pc[p] = "write" /\ Return(p, result[p])
          /\ UNCHANGED <<faults, mem, snap, disk>>
      BY <1>4 DEF SkipWrite, AfterWrite
    <2>2. Mild /\ TopKey(p) \in Known \ Invalid
            => result[p] = Success(TopKey(p))
      BY <2>1 DEF KInv, ResultsGood, Writing
    <2> QED BY <2>1, <2>2, QuietReturnKeeps DEF KInv, Mild, FilesGood, Good
  <1> QED BY <1>1, <1>2, <1>3, <1>4

(* A call goes on with the same stack.                                      *)
LEMMA SameStack ==
  ASSUME StacksUnknown, AreFunctions, NEW p \in Procs, pc[p] # "idle",
         NEW at, pc' = [pc EXCEPT ![p] = at], UNCHANGED stack
  PROVE  StacksUnknown'
  <1>1. /\ stack[p] \in Seq(Addresses) /\ stack[p] # << >>
        /\ \A i \in 1..(Len(stack[p]) - 1) : Key(stack[p][i]) \notin Known
        /\ stack' = [stack EXCEPT ![p] = stack[p]]
    BY DEF StacksUnknown
  <1> QED BY <1>1, StackChange

LEMMA SameStackResults ==
  ASSUME ResultsGood, AreFunctions, NEW p \in Procs,
         NEW at, at \in Writing => pc[p] \in Writing,
         pc' = [pc EXCEPT ![p] = at],
         UNCHANGED <<faults, stack, result>>
  PROVE  ResultsGood'
  <1>1. \A q \in Procs : pc'[q] \in Writing => pc[q] \in Writing
    BY DEF AreFunctions
  <1>2. \A q \in Procs : TopKey(q)' = TopKey(q)
    BY DEF TopKey, Top
  <1> QED BY <1>1, <1>2 DEF ResultsGood, Mild

(* What Conclude leaves, if it is right.                                    *)
LEMMA ConcludeKeeps ==
  ASSUME KInv, IInv, NEW p \in Procs, pc[p] # "idle",
         NEW r, NEW h, Conclude(p, r, h),
         Mild /\ TopKey(p) \in Known \ Invalid => r = Success(TopKey(p)),
         UNCHANGED <<faults, stack, answer>>,
         (Mild => FilesGood)'
  PROVE  KInv'
  <1>1. /\ pc' = [pc EXCEPT ![p] = "write"]
        /\ result' = [result EXCEPT ![p] = r]
    BY DEF Conclude
  <1>2. StacksUnknown'
    BY <1>1, SameStack DEF KInv, IInv
  <1>3. ResultsGood'
    <2>1. \A q \in Procs : TopKey(q)' = TopKey(q)
      BY DEF TopKey, Top
    <2> QED BY <1>1, <2>1 DEF KInv, ResultsGood, Mild, IInv, AreFunctions
  <1> QED BY <1>2, <1>3 DEF KInv, AnswersGood, Mild

LEMMA RequestKeeps ==
  ASSUME KInv, IInv, NEW p \in Procs, Ask(p) \/ Limited(p)
  PROVE  KInv'
  <1>1. /\ pc[p] # "idle"
        /\ pc' = [pc EXCEPT ![p] = "request"]
        /\ UNCHANGED <<faults, stack, result, mem, snap, answer, disk>>
    BY DEF Ask, Limited, IInv, AreFunctions
  <1>2. StacksUnknown'
    BY <1>1, SameStack DEF KInv, IInv
  <1>3. ResultsGood'
    <2>1. "request" \notin Writing
      BY DEF Writing
    <2> QED BY <1>1, <2>1, SameStackResults DEF KInv, IInv
  <1> QED BY <1>1, <1>2, <1>3 DEF KInv, AnswersGood, Mild, FilesGood, Good

(* The service answers: for a place it does not know, the next one is asked. *)
LEMMA AnsweredKeeps ==
  ASSUME KInv, IInv, NEW p \in Procs, Answered(p)
  PROVE  KInv'
  <1>1. /\ pc[p] = "request"
        /\ UNCHANGED <<faults, mem, snap, answer, disk>>
    BY DEF Answered
  <1>2. (Mild => FilesGood)'
    BY <1>1 DEF KInv, Mild, FilesGood, Good
  <1>3. CASE TopKey(p) \in Known
    <2>1. Conclude(p, Success(TopKey(p)), FALSE) /\ UNCHANGED stack
      BY <1>3 DEF Answered
    <2> QED BY <1>1, <1>2, <2>1, ConcludeKeeps
  <1>4. CASE TopKey(p) \notin Known /\ Len(Top(p)) > 1
    <2>1. /\ stack' = [stack EXCEPT ![p] = Append(stack[p], Front(Top(p)))]
          /\ pc' = [pc EXCEPT ![p] = "call"]
          /\ UNCHANGED result
      BY <1>4 DEF Answered
    <2>2. /\ stack[p] \in Seq(Addresses) /\ Len(stack[p]) \in Nat \ {0}
          /\ Front(Top(p)) \in Addresses
      BY <1>1, <1>4, TopIsAddress, FrontAddress DEF KInv, StacksUnknown
    <2> DEFINE st == Append(stack[p], Front(Top(p)))
    <2>3. /\ st \in Seq(Addresses) /\ st # << >>
          /\ Len(st) = Len(stack[p]) + 1
          /\ \A i \in 1..Len(stack[p]) : st[i] = stack[p][i]
      BY <2>2, AppendProperties
    <2>4. ASSUME NEW i \in 1..(Len(st) - 1)
          PROVE  Key(st[i]) \notin Known
      <3>1. i \in 1..Len(stack[p]) /\ st[i] = stack[p][i]
        BY <2>2, <2>3
      <3>2. CASE i = Len(stack[p])
        BY <1>4, <3>1, <3>2 DEF TopKey, Top, Last
      <3>3. CASE i # Len(stack[p])
        <4>1. i \in 1..(Len(stack[p]) - 1)
          BY <2>2, <3>1, <3>3
        <4> QED BY <3>1, <4>1 DEF KInv, StacksUnknown
      <3> QED BY <3>2, <3>3
    <2>5. StacksUnknown'
      <3> HIDE DEF st
      <3>1. stack' = [stack EXCEPT ![p] = st]
        BY <2>1 DEF st
      <3> QED BY <2>1, <2>3, <2>4, <3>1, StackChange DEF KInv, IInv
    <2>6. ResultsGood'
      BY <1>1, <2>1 DEF KInv, ResultsGood, Writing, IInv, AreFunctions,
                        StacksUnknown, Mild, TopKey, Top
    <2> QED BY <1>1, <1>2, <2>5, <2>6 DEF KInv, AnswersGood, Mild
  <1>5. CASE TopKey(p) \notin Known /\ ~ (Len(Top(p)) > 1)
    <2>1. Conclude(p, Error("empty"), FALSE) /\ UNCHANGED stack
      BY <1>5 DEF Answered
    <2> QED BY <1>1, <1>2, <1>5, <2>1, ConcludeKeeps
  <1> QED BY <1>3, <1>4, <1>5

(* What fails otherwise is not among the mild faults.                       *)
LEMMA FailureKeeps ==
  ASSUME KInv, IInv, NEW p \in Procs,
         Failed(p) \/ Denied(p) \/ WriteFails(p)
  PROVE  KInv'
  <1>1. ~ Mild /\ ~ Mild' /\ pc[p] # "idle"
    BY DEF Failed, Denied, WriteFails, Mild
  <1>2. CASE Failed(p)
    <2>1. CASE retry[p] < Retries
      <3>1. UNCHANGED <<faults, pc, stack, result, answer>>
        BY <1>2, <2>1 DEF Failed
      <3> QED BY <1>1, <3>1
              DEF KInv, StacksUnknown, ResultsGood, AnswersGood
    <2>2. CASE ~ (retry[p] < Retries)
      <3>1. PICK h \in BOOLEAN : Conclude(p, Error("network"), h)
        BY <1>2, <2>2 DEF Failed
      <3>2. UNCHANGED <<faults, stack, answer>>
        BY <1>2 DEF Failed
      <3> QED BY <1>1, <3>1, <3>2, ConcludeKeeps
    <2> QED BY <2>1, <2>2
  <1>3. CASE Denied(p)
    <2>1. PICK h \in BOOLEAN : Conclude(p, Error("denied"), h)
      BY <1>3 DEF Denied
    <2>2. UNCHANGED <<faults, stack, answer>>
      BY <1>3 DEF Denied
    <2> QED BY <1>1, <2>1, <2>2, ConcludeKeeps
  <1>4. CASE WriteFails(p)
    <2>1. CASE Conclude(p, Error("exception"), TRUE)
                  /\ UNCHANGED <<stack, answer>>
      BY <1>1, <1>4, <2>1, ConcludeKeeps DEF WriteFails
    <2>2. CASE Return(p, Error("exception"))
      <3>1. StacksUnknown' /\ ResultsGood' /\ AnswersGood'
        BY <1>1, <1>4, <2>2, ReturnKeeps DEF WriteFails, KInv, IInv
      <3> QED BY <1>1, <3>1 DEF KInv
    <2> QED BY <1>4, <2>1, <2>2 DEF WriteFails
  <1> QED BY <1>2, <1>3, <1>4

(* Entering the lock and reading.                                           *)
LEMMA ReadKeeps ==
  ASSUME KInv, IInv, NEW p \in Procs, Acquire(p) \/ ReadFile(p)
  PROVE  KInv'
  <1>1. PICK at \in {"read", "replace"} : pc' = [pc EXCEPT ![p] = at]
    BY DEF Acquire, ReadFile
  <1>2. /\ pc[p] \in Writing /\ pc[p] # "idle"
        /\ UNCHANGED <<faults, stack, result, mem, answer, disk>>
    BY DEF Acquire, ReadFile, Writing
  <1>3. StacksUnknown' /\ ResultsGood'
    BY <1>1, <1>2, SameStack, SameStackResults DEF KInv, IInv
  <1>4. \A q \in Procs : snap'[q] \in {snap[q], disk, Empty}
    BY DEF Acquire, ReadFile, IInv, AreFunctions
  <1>5. Good(Empty)
    BY DEF Good, Empty
  <1>6. (Mild => FilesGood)'
    <2>1. ASSUME Mild
          PROVE  FilesGood'
      <3>1. Good(disk)' /\ \A q \in Procs : Good(mem[q])'
        BY <1>2, <2>1 DEF KInv, FilesGood, Good
      <3>2. \A q \in Procs : Good(snap'[q])
        BY <1>4, <1>5, <2>1 DEF KInv, FilesGood
      <3> QED BY <3>1, <3>2 DEF FilesGood, Good
    <2> QED BY <1>2, <2>1 DEF Mild
  <1> QED BY <1>2, <1>3, <1>6 DEF KInv, AnswersGood, Mild

(* What is written is right, and so is then what is remembered.             *)
LEMMA ReplaceKeeps ==
  ASSUME KInv, IInv, NEW p \in Procs, Replace(p)
  PROVE  KInv'
  <1>1. /\ pc[p] = "replace" /\ Return(p, result[p])
        /\ snap' = [snap EXCEPT ![p] = Empty]
        /\ UNCHANGED faults
    BY DEF Replace, AfterWrite
  <1>2. Mild /\ TopKey(p) \in Known \ Invalid
          => result[p] = Success(TopKey(p))
    BY <1>1 DEF KInv, ResultsGood, Writing
  <1>3. StacksUnknown' /\ ResultsGood' /\ AnswersGood'
    BY <1>1, <1>2, ReturnKeeps DEF KInv, IInv
  <1>4. ASSUME Mild
        PROVE  FilesGood'
    <2> DEFINE file == IF snap[p][TopKey(p)] = Absent
                       THEN [snap[p] EXCEPT ![TopKey(p)] = result[p]]
                       ELSE snap[p]
    <2>1. Good(snap[p]) /\ Good(disk) /\ \A q \in Procs : Good(mem[q])
      BY <1>4 DEF KInv, FilesGood
    <2>2. Good(file)
      <3>1. ASSUME NEW k \in (Known \cap Keys) \ Invalid
            PROVE  file[k] \in {Absent, Success(k)}
        <4>1. snap[p][k] \in {Absent, Success(k)}
          BY <2>1 DEF Good
        <4>2. CASE k = TopKey(p)
          BY <1>2, <1>4, <4>1, <4>2 DEF IInv, AreFunctions
        <4>3. CASE k # TopKey(p)
          BY <4>1, <4>3 DEF IInv, AreFunctions
        <4> QED BY <4>2, <4>3
      <3> QED BY <3>1 DEF Good
    <2>3. disk' \in {file, disk} /\ mem' = [mem EXCEPT ![p] = file]
      BY DEF Replace
    <2> HIDE DEF file
    <2>4. Good(disk') /\ \A q \in Procs : Good(mem'[q])
      BY <2>1, <2>2, <2>3 DEF IInv, AreFunctions
    <2>5. \A q \in Procs : snap'[q] \in {snap[q], Empty}
      BY <1>1 DEF IInv, AreFunctions
    <2>6. \A q \in Procs : Good(snap'[q])
      BY <1>4, <2>5 DEF KInv, FilesGood, Good, Empty
    <2> QED BY <2>4, <2>6 DEF FilesGood, Good
  <1> QED BY <1>1, <1>3, <1>4 DEF KInv, Mild

LEMMA CrashKeeps ==
  ASSUME KInv, IInv, NEW p \in Procs, Crash(p)
  PROVE  KInv'
  <1>1. /\ pc' = [pc EXCEPT ![p] = "idle"]
        /\ stack' = [stack EXCEPT ![p] = << >>]
        /\ result' = [result EXCEPT ![p] = Absent]
        /\ mem' = [mem EXCEPT ![p] = Empty]
        /\ snap' = [snap EXCEPT ![p] = Empty]
        /\ answer' = [answer EXCEPT ![p] = NoAnswer]
        /\ UNCHANGED <<faults, disk>>
    BY DEF Crash
  <1>2. StacksUnknown'
    <2>1. << >> \in Seq(Addresses) /\ Len(<< >>) = 0
      OBVIOUS
    <2>2. \A i \in 1..(Len(<< >>) - 1) : Key(<< >>[i]) \notin Known
      BY <2>1
    <2> QED BY <1>1, <2>1, <2>2, StackChange DEF KInv, IInv
  <1>3. ResultsGood'
    BY <1>1 DEF KInv, ResultsGood, Writing, IInv, AreFunctions,
                StacksUnknown, Mild, TopKey, Top
  <1>4. AnswersGood'
    BY <1>1, KnownAssumption DEF KInv, AnswersGood, Mild, NoAnswer
  <1>5. (Mild => FilesGood)'
    <2>1. \A q \in Procs : /\ mem'[q] \in {mem[q], Empty}
                           /\ snap'[q] \in {snap[q], Empty}
      BY <1>1 DEF IInv, AreFunctions
    <2> QED BY <1>1, <2>1 DEF KInv, Mild, FilesGood, Good, Empty
  <1> QED BY <1>2, <1>3, <1>4, <1>5 DEF KInv

LEMMA NextKInv ==
  KInv /\ IInv /\ [Next]_vars => KInv'
  <1>1. ASSUME KInv, IInv, UNCHANGED vars
        PROVE  KInv'
    BY <1>1 DEF vars, process, KInv, Mild, FilesGood, Good, StacksUnknown,
                ResultsGood, AnswersGood, TopKey, Top
  <1>2. ASSUME KInv, IInv, NEW p \in Procs,
               \/ Begin(p) \/ Work(p) \/ Acquire(p) \/ Answered(p)
               \/ Limited(p) \/ Failed(p) \/ Denied(p) \/ WriteFails(p)
               \/ Crash(p)
        PROVE  KInv'
    BY <1>2, BeginKeeps, RecallKeeps, RequestKeeps, AnsweredKeeps,
       FailureKeeps, ReadKeeps, ReplaceKeeps, CrashKeeps DEF Work
  <1> QED BY <1>1, <1>2 DEF Next

(* Whatever limits the service sets, however often processes are killed or  *)
(* find the file unreadable, a place the service knows is never written as  *)
(* an error, nor does a reward get one for it (_sleep_for_usage_limit).     *)
THEOREM KnownPlacesNeverZero == Spec => []KnownNeverZero
  <1>1. KInv => KnownNeverZero
    BY DEF KInv, FilesGood, Good, AnswersGood, Mild, KnownNeverZero
  <1> QED BY <1>1, InitKInv, NextKInv, IInvHolds, PTL DEF Spec
-----------------------------------------------------------------------------
(* Types. A process has a stack of addresses just when it is not idle.      *)
Files == [Keys -> Entry \cup {Absent}]

LEMMA EmptyIsFile == Empty \in Files
  BY DEF Empty, Files

LEMMA InitTypes == Init => TypeOK
  BY EmptyIsFile, RetryAssumption DEF Init, TypeOK, NoAnswer, Files

LEMMA TypedTop ==
  ASSUME TypeOK, NEW p \in Procs, pc[p] # "idle"
  PROVE  /\ Top(p) \in Addresses /\ TopKey(p) \in Keys
         /\ stack[p] \in Seq(Addresses) /\ Len(stack[p]) \in Nat \ {0}
  <1>1. stack[p] \in Seq(Addresses) /\ stack[p] # << >>
    BY DEF TypeOK
  <1>2. Len(stack[p]) \in Nat \ {0}
    BY <1>1
  <1>3. Top(p) \in Addresses
    BY <1>1, <1>2 DEF Top, Last
  <1> QED BY <1>1, <1>2, <1>3 DEF TopKey, Keys

(* The state of one process changes, and keeps its types.                   *)
Stages == {"idle", "call", "request", "write", "read", "replace"}

LEMMA TypedStage ==
  ASSUME TypeOK, NEW p \in Procs, NEW at \in Stages,
         NEW st \in Seq(Addresses), at = "idle" <=> st = << >>,
         pc' = [pc EXCEPT ![p] = at], stack' = [stack EXCEPT ![p] = st]
  PROVE  /\ pc' \in [Procs -> Stages] /\ stack' \in [Procs -> Seq(Addresses)]
         /\ \A q \in Procs : pc'[q] = "idle" <=> stack'[q] = << >>
  <1>1. ASSUME NEW q \in Procs
        PROVE  pc'[q] = "idle" <=> stack'[q] = << >>
    BY DEF TypeOK
  <1> QED BY <1>1 DEF TypeOK, Stages

(* A call returns a value that may be in a file.                            *)
LEMMA TypedReturn ==
  ASSUME TypeOK, NEW p \in Procs, pc[p] # "idle",
         NEW r \in Entry \cup {Absent}, Return(p, r)
  PROVE  /\ pc' \in [Procs -> Stages] /\ stack' \in [Procs -> Seq(Addresses)]
         /\ \A q \in Procs : pc'[q] = "idle" <=> stack'[q] = << >>
         /\ result' \in [Procs -> Entry \cup {Absent}]
         /\ answer' \in [Procs -> [to : Keys \cup {<< >>},
                                   is : Entry \cup {Absent}]]
  <1> DEFINE st == Front(stack[p])
  <1>1. TopKey(p) \in Keys
    BY TypedTop
  <1>2. /\ st \in Seq(Addresses) /\ Len(stack[p]) \in Nat \ {0}
        /\ Len(st) = Len(stack[p]) - 1
    BY TypedTop DEF Front
  <1>3. Len(stack[p]) > 1 <=> st # << >>
    BY <1>2
  <1>4. stack' = [stack EXCEPT ![p] = st]
    BY DEF Return
  <1> HIDE DEF st
  <1>5. PICK at \in {"write", "idle"} :
            /\ pc' = [pc EXCEPT ![p] = at]
            /\ at = "idle" <=> st = << >>
    BY <1>3 DEF Return
  <1>6. /\ pc' \in [Procs -> Stages] /\ stack' \in [Procs -> Seq(Addresses)]
        /\ \A q \in Procs : pc'[q] = "idle" <=> stack'[q] = << >>
    BY <1>2, <1>4, <1>5, TypedStage DEF Stages
  <1>7. result' \in [Procs -> Entry \cup {Absent}]
    BY DEF Return, TypeOK
  <1>8. answer' \in [Procs -> [to : Keys \cup {<< >>},
                               is : Entry \cup {Absent}]]
    <2>1. answer \in [Procs -> [to : Keys \cup {<< >>},
                                is : Entry \cup {Absent}]]
      BY DEF TypeOK
    <2>2. [to |-> TopKey(p), is |-> r]
              \in [to : Keys \cup {<< >>}, is : Entry \cup {Absent}]
      BY <1>1
    <2>3. answer' \in {answer,
                  [answer EXCEPT ![p] = [to |-> TopKey(p), is |-> r]]}
      BY DEF Return
    <2> QED BY <2>1, <2>2, <2>3
  <1> QED BY <1>6, <1>7, <1>8

LEMMA TypedConclude ==
  ASSUME TypeOK, NEW p \in Procs, pc[p] # "idle",
         NEW r \in Entry \cup {Absent}, NEW h \in BOOLEAN,
         Conclude(p, r, h), UNCHANGED stack
  PROVE  /\ pc' \in [Procs -> Stages] /\ stack' \in [Procs -> Seq(Addresses)]
         /\ \A q \in Procs : pc'[q] = "idle" <=> stack'[q] = << >>
         /\ result' \in [Procs -> Entry \cup {Absent}]
         /\ handling' \in [Procs -> BOOLEAN]
  <1>1. stack' = [stack EXCEPT ![p] = stack[p]]
    BY DEF TypeOK
  <1>2. stack[p] \in Seq(Addresses) /\ stack[p] # << >>
    BY DEF TypeOK
  <1>3. pc' = [pc EXCEPT ![p] = "write"] /\ "write" \in Stages
    BY DEF Conclude, Stages
  <1>4. /\ pc' \in [Procs -> Stages] /\ stack' \in [Procs -> Seq(Addresses)]
        /\ \A q \in Procs : pc'[q] = "idle" <=> stack'[q] = << >>
    BY <1>1, <1>2, <1>3, TypedStage
  <1> QED BY <1>4 DEF Conclude, TypeOK

(* A call goes on with the same stack.                                      *)
LEMMA TypedSameStack ==
  ASSUME TypeOK, NEW p \in Procs, pc[p] # "idle",
         NEW at \in Stages \ {"idle"},
         pc' = [pc EXCEPT ![p] = at], UNCHANGED stack
  PROVE  /\ pc' \in [Procs -> Stages] /\ stack' \in [Procs -> Seq(Addresses)]
         /\ \A q \in Procs : pc'[q] = "idle" <=> stack'[q] = << >>
  <1>1. stack' = [stack EXCEPT ![p] = stack[p]]
    BY DEF TypeOK
  <1>2. stack[p] \in Seq(Addresses) /\ stack[p] # << >>
    BY DEF TypeOK
  <1> QED BY <1>1, <1>2, TypedStage

LEMMA TypedErrors ==
  /\ \A why \in Reasons : Error(why) \in Entry
  /\ \A k \in Keys : Success(k) \in Entry
  BY DEF Entry

LEMMA TypedReturns ==
  ASSUME TypeOK, NEW p \in Procs,
         Reject(p) \/ Recall(p) \/ LookUp(p) \/ SkipWrite(p)
  PROVE  TypeOK'
  <1>1. pc[p] # "idle"
    BY DEF Reject, Recall, LookUp, SkipWrite
  <1>2. TopKey(p) \in Keys
    BY <1>1, TypedTop
  <1>3. PICK r \in Entry \cup {Absent} : Return(p, r)
    <2>1. Error("invalid") \in Entry
      BY TypedErrors DEF Reasons
    <2>2. /\ mem[p][TopKey(p)] \in Entry \cup {Absent}
          /\ disk[TopKey(p)] \in Entry \cup {Absent}
          /\ result[p] \in Entry \cup {Absent}
      BY <1>2 DEF TypeOK
    <2> QED BY <2>1, <2>2
            DEF Reject, Recall, LookUp, SkipWrite, AfterWrite
  <1>4. mem' \in [Procs -> [Keys -> Entry \cup {Absent}]]
    <2>1. disk[TopKey(p)] \in Entry \cup {Absent}
      BY <1>2 DEF TypeOK
    <2>2. mem' \in {mem, [mem EXCEPT ![p][TopKey(p)] = disk[TopKey(p)]]}
      BY DEF Reject, Recall, LookUp, SkipWrite
    <2>3. mem \in [Procs -> [Keys -> Entry \cup {Absent}]]
      BY DEF TypeOK
    <2> QED BY <1>2, <2>1, <2>2, <2>3
  <1>5. /\ UNCHANGED <<faults, retry, snap, disk, lock>>
        /\ handling' \in [Procs -> BOOLEAN]
    BY DEF Reject, Recall, LookUp, SkipWrite, AfterWrite, TypeOK
  <1>6. /\ pc' \in [Procs -> Stages] /\ stack' \in [Procs -> Seq(Addresses)]
        /\ \A q \in Procs : pc'[q] = "idle" <=> stack'[q] = << >>
        /\ result' \in [Procs -> Entry \cup {Absent}]
        /\ answer' \in [Procs -> [to : Keys \cup {<< >>},
                                  is : Entry \cup {Absent}]]
    BY <1>1, <1>3, TypedReturn
  <1> QED BY <1>4, <1>5, <1>6 DEF TypeOK, Stages

LEMMA TypedRequests ==
  ASSUME TypeOK, NEW p \in Procs,
         Ask(p) \/ Limited(p) \/ Acquire(p) \/ ReadFile(p)
  PROVE  TypeOK'
  <1>1. PICK at \in Stages \ {"idle"} : pc' = [pc EXCEPT ![p] = at]
    <2>1. Limited(p) => pc' = [pc EXCEPT ![p] = "request"]
      BY DEF Limited, TypeOK
    <2> QED BY <2>1 DEF Ask, Acquire, ReadFile, Stages
  <1>2. /\ pc[p] # "idle"
        /\ UNCHANGED <<faults, stack, handling, result, mem, answer, disk>>
    BY DEF Ask, Limited, Acquire, ReadFile
  <1>3. retry' \in [Procs -> 0..Retries]
    <2>1. (IF retry[p] < Retries THEN retry[p] + 1 ELSE retry[p])
              \in 0..Retries
      BY RetryAssumption DEF TypeOK
    <2> QED BY <2>1 DEF Ask, Limited, Acquire, ReadFile, TypeOK
  <1>4. /\ snap' \in [Procs -> [Keys -> Entry \cup {Absent}]]
        /\ lock' \in Procs \cup {Free}
    BY EmptyIsFile DEF Ask, Limited, Acquire, ReadFile, TypeOK, Files
  <1>5. /\ pc' \in [Procs -> Stages] /\ stack' \in [Procs -> Seq(Addresses)]
        /\ \A q \in Procs : pc'[q] = "idle" <=> stack'[q] = << >>
    BY <1>1, <1>2, TypedSameStack
  <1> QED BY <1>2, <1>3, <1>4, <1>5 DEF TypeOK, Stages

LEMMA TypedAnswered ==
  ASSUME TypeOK, NEW p \in Procs, Answered(p)
  PROVE  TypeOK'
  <1>1. /\ pc[p] = "request"
        /\ UNCHANGED <<faults, retry, mem, snap, answer, disk, lock>>
    BY DEF Answered
  <1>2. /\ Top(p) \in Addresses /\ TopKey(p) \in Keys
        /\ stack[p] \in Seq(Addresses)
    BY <1>1, TypedTop
  <1>3. CASE TopKey(p) \notin Known /\ Len(Top(p)) > 1
    <2>1. /\ stack' = [stack EXCEPT ![p] = Append(stack[p], Front(Top(p)))]
          /\ pc' = [pc EXCEPT ![p] = "call"]
          /\ UNCHANGED <<result, handling>>
      BY <1>3 DEF Answered
    <2>2. /\ Append(stack[p], Front(Top(p))) \in Seq(Addresses)
          /\ Append(stack[p], Front(Top(p))) # << >>
      <3>1. Front(Top(p)) \in Addresses
        BY <1>2, <1>3, FrontAddress
      <3> QED BY <1>2, <3>1, AppendProperties
    <2>3. /\ pc' \in [Procs -> Stages]
          /\ stack' \in [Procs -> Seq(Addresses)]
          /\ \A q \in Procs : pc'[q] = "idle" <=> stack'[q] = << >>
      <3>1. "call" \in Stages /\ "call" # "idle"
        BY DEF Stages
      <3> QED BY <2>1, <2>2, <3>1, TypedStage
    <2> QED BY <1>1, <2>1, <2>3 DEF TypeOK, Stages
  <1>4. CASE ~ (TopKey(p) \notin Known /\ Len(Top(p)) > 1)
    <2>1. PICK r \in Entry : Conclude(p, r, FALSE) /\ UNCHANGED stack
      <3>1. Success(TopKey(p)) \in Entry /\ Error("empty") \in Entry
        BY <1>2, TypedErrors DEF Reasons
      <3> QED BY <1>4, <3>1 DEF Answered
    <2>2. /\ pc' \in [Procs -> Stages]
          /\ stack' \in [Procs -> Seq(Addresses)]
          /\ \A q \in Procs : pc'[q] = "idle" <=> stack'[q] = << >>
          /\ result' \in [Procs -> Entry \cup {Absent}]
          /\ handling' \in [Procs -> BOOLEAN]
      BY <1>1, <2>1, TypedConclude
    <2> QED BY <1>1, <2>2 DEF TypeOK, Stages
  <1> QED BY <1>3, <1>4

(* Errors are concluded, or leave the handler they were raised in.          *)
LEMMA TypedFailures ==
  ASSUME TypeOK, NEW p \in Procs,
         Failed(p) \/ Denied(p) \/ WriteFails(p)
  PROVE  TypeOK'
  <1>1. /\ pc[p] # "idle" /\ UNCHANGED <<faults, mem, disk>>
        /\ lock' \in Procs \cup {Free}
        /\ snap' \in [Procs -> [Keys -> Entry \cup {Absent}]]
    <2>1. lock \in Procs \cup {Free} /\ snap \in [Procs -> Files]
      BY DEF TypeOK, Files
    <2>2. /\ pc[p] # "idle" /\ UNCHANGED <<faults, mem, disk>>
          /\ (lock' = lock \/ lock' = Free)
          /\ (snap' = snap \/ snap' = [snap EXCEPT ![p] = Empty])
      BY Zenon DEF Failed, Denied, WriteFails
    <2>3. lock' \in Procs \cup {Free} /\ snap' \in [Procs -> Files]
      BY <2>1, <2>2, EmptyIsFile
    <2> QED BY <2>2, <2>3 DEF Files
  <1>2. \A why \in Reasons : Error(why) \in Entry \cup {Absent}
    BY TypedErrors
  <1>3. CASE Failed(p) /\ retry[p] < Retries
    <2>1. /\ retry' = [retry EXCEPT ![p] = retry[p] + 1]
          /\ UNCHANGED <<pc, stack, handling, result, answer>>
      BY <1>3 DEF Failed
    <2>2. retry' \in [Procs -> 0..Retries]
      BY <1>3, <2>1, RetryAssumption DEF TypeOK
    <2> QED BY <1>1, <2>1, <2>2 DEF TypeOK
  <1>4. CASE \/ Failed(p) /\ ~ (retry[p] < Retries)
             \/ Denied(p)
             \/ WriteFails(p) /\ UNCHANGED <<stack, answer>>
                              /\ Conclude(p, Error("exception"), TRUE)
    <2>1. PICK why \in Reasons, h \in BOOLEAN : Conclude(p, Error(why), h)
      BY <1>4 DEF Failed, Denied, Reasons
    <2>2. UNCHANGED <<stack, retry, answer>>
      BY <1>4 DEF Failed, Denied, WriteFails
    <2>3. /\ pc' \in [Procs -> Stages]
          /\ stack' \in [Procs -> Seq(Addresses)]
          /\ \A q \in Procs : pc'[q] = "idle" <=> stack'[q] = << >>
          /\ result' \in [Procs -> Entry \cup {Absent}]
          /\ handling' \in [Procs -> BOOLEAN]
      <3>1. Error(why) \in Entry \cup {Absent}
        BY <1>2
      <3> QED BY <1>1, <2>1, <2>2, <3>1, TypedConclude
    <2> QED BY <1>1, <2>2, <2>3 DEF TypeOK, Stages
  <1>5. CASE /\ WriteFails(p) /\ Return(p, Error("exception"))
             /\ UNCHANGED handling
    <2>1. Error("exception") \in Entry \cup {Absent}
      BY <1>2 DEF Reasons
    <2>2. /\ pc' \in [Procs -> Stages]
          /\ stack' \in [Procs -> Seq(Addresses)]
          /\ \A q \in Procs : pc'[q] = "idle" <=> stack'[q] = << >>
          /\ result' \in [Procs -> Entry \cup {Absent}]
          /\ answer' \in [Procs -> [to : Keys \cup {<< >>},
                                    is : Entry \cup {Absent}]]
      BY <1>1, <1>5, <2>1, TypedReturn
    <2>3. UNCHANGED <<retry, handling>>
      BY <1>5 DEF WriteFails
    <2> QED BY <1>1, <2>2, <2>3 DEF TypeOK, Stages
  <1>6. WriteFails(p) => \/ /\ Conclude(p, Error("exception"), TRUE)
                            /\ UNCHANGED <<stack, answer>>
                         \/ /\ Return(p, Error("exception"))
                            /\ UNCHANGED handling
    BY DEF WriteFails
  <1> QED BY <1>3, <1>4, <1>5, <1>6

LEMMA TypedReplace ==
  ASSUME TypeOK, NEW p \in Procs, Replace(p)
  PROVE  TypeOK'
  <1>1. /\ pc[p] = "replace" /\ lock' = Free
        /\ Return(p, result[p])
        /\ handling' = [handling EXCEPT ![p] = FALSE]
        /\ snap' = [snap EXCEPT ![p] = Empty]
        /\ UNCHANGED <<faults, retry>>
    BY DEF Replace, AfterWrite
  <1>2. TopKey(p) \in Keys /\ result[p] \in Entry \cup {Absent}
    BY <1>1, TypedTop DEF TypeOK
  <1>3. PICK file \in Files : /\ disk' \in {file, disk}
                              /\ mem' = [mem EXCEPT ![p] = file]
    <2>1. /\ snap[p] \in Files
          /\ [snap[p] EXCEPT ![TopKey(p)] = result[p]] \in Files
      BY <1>2 DEF TypeOK, Files
    <2> QED BY <2>1 DEF Replace
  <1>4. /\ disk' \in [Keys -> Entry \cup {Absent}]
        /\ mem' \in [Procs -> [Keys -> Entry \cup {Absent}]]
        /\ snap' \in [Procs -> [Keys -> Entry \cup {Absent}]]
    BY <1>1, <1>3, EmptyIsFile DEF TypeOK, Files
  <1>5. /\ pc' \in [Procs -> Stages] /\ stack' \in [Procs -> Seq(Addresses)]
        /\ \A q \in Procs : pc'[q] = "idle" <=> stack'[q] = << >>
        /\ result' \in [Procs -> Entry \cup {Absent}]
        /\ answer' \in [Procs -> [to : Keys \cup {<< >>},
                                  is : Entry \cup {Absent}]]
    BY <1>1, <1>2, TypedReturn
  <1>6. handling' \in [Procs -> BOOLEAN] /\ lock' \in Procs \cup {Free}
    BY <1>1 DEF TypeOK
  <1> QED BY <1>1, <1>4, <1>5, <1>6 DEF TypeOK, Stages

LEMMA TypedBeginAndCrash ==
  ASSUME TypeOK, NEW p \in Procs, Begin(p) \/ Crash(p)
  PROVE  TypeOK'
  <1>1. PICK at \in Stages, st \in Seq(Addresses) :
            /\ at = "idle" <=> st = << >>
            /\ pc' = [pc EXCEPT ![p] = at]
            /\ stack' = [stack EXCEPT ![p] = st]
    <2>1. CASE Begin(p)
      <3>1. PICK a \in Address : stack' = [stack EXCEPT ![p] = <<a>>]
        BY <2>1 DEF Begin
      <3>2. <<a>> \in Seq(Addresses) /\ <<a>> # << >>
        BY WholeAddress
      <3> QED BY <2>1, <3>1, <3>2 DEF Begin, Stages
    <2>2. CASE Crash(p)
      <3>1. "idle" \in Stages /\ << >> \in Seq(Addresses)
        BY DEF Stages
      <3> QED BY <2>2, <3>1 DEF Crash
    <2> QED BY <2>1, <2>2
  <1>2. /\ pc' \in [Procs -> Stages] /\ stack' \in [Procs -> Seq(Addresses)]
        /\ \A q \in Procs : pc'[q] = "idle" <=> stack'[q] = << >>
    BY <1>1, TypedStage
  <1>3. /\ retry' = [retry EXCEPT ![p] = 0]
        /\ handling' = [handling EXCEPT ![p] = FALSE]
        /\ answer' = [answer EXCEPT ![p] = NoAnswer]
        /\ result' \in {result, [result EXCEPT ![p] = Absent]}
        /\ mem' \in {mem, [mem EXCEPT ![p] = Empty]}
        /\ snap' \in {snap, [snap EXCEPT ![p] = Empty]}
        /\ lock' \in {lock, Free}
        /\ UNCHANGED <<faults, disk>>
    BY DEF Begin, Crash
  <1>4. /\ mem' \in [Procs -> [Keys -> Entry \cup {Absent}]]
        /\ snap' \in [Procs -> [Keys -> Entry \cup {Absent}]]
    <2>1. mem \in [Procs -> Files] /\ snap \in [Procs -> Files]
      BY DEF TypeOK, Files
    <2>2. mem' \in [Procs -> Files] /\ snap' \in [Procs -> Files]
      BY <1>3, <2>1, EmptyIsFile
    <2> QED BY <2>2 DEF Files
  <1>5. /\ retry' \in [Procs -> 0..Retries]
        /\ handling' \in [Procs -> BOOLEAN]
        /\ result' \in [Procs -> Entry \cup {Absent}]
    <2>1. /\ retry \in [Procs -> 0..Retries]
          /\ handling \in [Procs -> BOOLEAN]
          /\ result \in [Procs -> Entry \cup {Absent}]
      BY DEF TypeOK
    <2>2. [result EXCEPT ![p] = Absent] \in [Procs -> Entry \cup {Absent}]
      BY <2>1
    <2>3. retry' \in [Procs -> 0..Retries]
      BY <1>3, <2>1, RetryAssumption
    <2>4. handling' \in [Procs -> BOOLEAN]
      <3>1. [handling EXCEPT ![p] = FALSE] \in [Procs -> BOOLEAN]
        BY <2>1
      <3> QED BY <1>3, <3>1, Zenon
    <2>5. result' \in [Procs -> Entry \cup {Absent}]
      <3>1. result' = result \/ result' = [result EXCEPT ![p] = Absent]
        BY <1>3, Zenon
      <3> QED BY <2>1, <2>2, <3>1, Zenon
    <2> QED BY <2>3, <2>4, <2>5
  <1>6. answer' \in [Procs -> [to : Keys \cup {<< >>},
                               is : Entry \cup {Absent}]]
    BY <1>3 DEF TypeOK, NoAnswer
  <1>7. lock' \in Procs \cup {Free} /\ faults' \in FaultSets
        /\ disk' \in [Keys -> Entry \cup {Absent}]
    BY <1>3 DEF TypeOK
  <1> QED BY <1>2, <1>4, <1>5, <1>6, <1>7 DEF TypeOK, Stages

LEMMA NextTypes == TypeOK /\ [Next]_vars => TypeOK'
  <1>1. ASSUME TypeOK, UNCHANGED vars
        PROVE  TypeOK'
    BY <1>1 DEF vars, process, TypeOK
  <1>2. ASSUME TypeOK, NEW p \in Procs,
               \/ Begin(p) \/ Work(p) \/ Acquire(p) \/ Answered(p)
               \/ Limited(p) \/ Failed(p) \/ Denied(p) \/ WriteFails(p)
               \/ Crash(p)
        PROVE  TypeOK'
    BY <1>2, TypedReturns, TypedRequests, TypedAnswered, TypedFailures,
       TypedReplace, TypedBeginAndCrash DEF Work
  <1> QED BY <1>1, <1>2 DEF Next

(* The calls of _call_opencage_geocoding nest and return like a stack: a    *)
(* process is idle just when no call of it is open, and every file, in      *)
(* memory or on disk, has an entry or nothing for each key.                 *)
THEOREM CallsNest == Spec => []TypeOK
  BY InitTypes, NextTypes, PTL DEF Spec
==============================================================================

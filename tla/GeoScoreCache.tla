---------------------------- MODULE GeoScoreCache ----------------------------
(***************************************************************************)
(* The geocoding behind the geoscore_accuracy reward. Every training rank  *)
(* (and every evaluation run) asks a web service for the coordinates of    *)
(* the places its completions name, and keeps the answers, errors          *)
(* included, in memory and in one JSON file that all processes share. An   *)
(* address the service does not know is asked again without its last part. *)
(* The file is read without a lock and replaced as a whole under one.      *)
(*                                                                         *)
(* rewards/orm.py, class GeoScoreAccuracy.                                 *)
(***************************************************************************)
EXTENDS Integers, Sequences, SequencesExt

CONSTANTS
    Procs,          \* the processes that share the cache file
    Free,           \* nobody holds the lock
    Address,        \* what completions name: parts, each a list of names
    Known,          \* the places the service knows, as lists of names
    Invalid,        \* numbers, which are not sent to the service
    Retries,        \* how often an error is retried: 5
    FaultSets       \* which kinds of fault may occur together

(* "France; Paris, XIV" is << <<"France">>, <<"Paris", "XIV">> >>: parts    *)
(* are split at semicolons. The cache key and the query have commas only.  *)
Key(a) == FlattenSeq(a)
Shortened(a) == {SubSeq(a, 1, n) : n \in 1..Len(a)}
Addresses == UNION {Shortened(a) : a \in Address}
Keys == {Key(a) : a \in Addresses}

ASSUME LockAssumption == Free \notin Procs
ASSUME RetryAssumption == Retries \in Nat
ASSUME AddressAssumption == \A a \in Address : a \in Seq(Range(a)) /\ a # << >>
ASSUME KnownAssumption == << >> \notin Known

(* The service refuses for a while (402, 429, 503), requests fail or time  *)
(* out, the service denies (403 and other codes), the file system fails on *)
(* writing or on reading, the process is killed.                           *)
FaultKinds == {"limit", "network", "denied", "write", "read", "crash"}
ASSUME FaultAssumption == FaultSets \subseteq SUBSET FaultKinds

Success(k) == [status |-> "success", of |-> k]
Error(why) == [status |-> "error", of |-> why]
Reasons == {"invalid", "empty", "network", "denied", "exception"}
Entry == {Success(k) : k \in Keys} \cup {Error(why) : why \in Reasons}
Absent == [status |-> "absent", of |-> "nothing"]
Empty == [k \in Keys |-> Absent]

VARIABLES
    faults,     \* the kinds of fault of this behaviour
    pc,         \* what each process is doing
    stack,      \* the address it asks for, and its shortened ones
    retry,      \* retry_count, which counts no further than Retries
    handling,   \* an exception now would leave the handler of another one
    result,     \* what the call has found out
    mem,        \* self.cache
    snap,       \* the file as read under the lock, until it is replaced
    answer,     \* the last address each process asked for, and its result
    disk,       \* the cache file
    lock        \* who holds the flock on the lock file

process == <<pc, stack, retry, handling, result, mem, snap, answer>>
vars == <<faults, process, disk, lock>>

NoAnswer == [to |-> << >>, is |-> Absent]

Init ==
    /\ faults \in FaultSets
    /\ pc = [p \in Procs |-> "idle"]
    /\ stack = [p \in Procs |-> << >>]
    /\ retry = [p \in Procs |-> 0]
    /\ handling = [p \in Procs |-> FALSE]
    /\ result = [p \in Procs |-> Absent]
    /\ mem = [p \in Procs |-> Empty]
    /\ snap = [p \in Procs |-> Empty]
    /\ answer = [p \in Procs |-> NoAnswer]
    /\ disk = Empty
    /\ lock = Free

Top(p) == Last(stack[p])
TopKey(p) == Key(Top(p))

-----------------------------------------------------------------------------
(* _call_opencage_geocoding.                                               *)

(* A reward call comes to the next completion. *)
Begin(p) ==
    /\ pc[p] = "idle"
    /\ \E a \in Address : stack' = [stack EXCEPT ![p] = <<a>>]
    /\ pc' = [pc EXCEPT ![p] = "call"]
    /\ retry' = [retry EXCEPT ![p] = 0]
    /\ handling' = [handling EXCEPT ![p] = FALSE]
    /\ answer' = [answer EXCEPT ![p] = NoAnswer]
    /\ UNCHANGED <<faults, result, mem, snap, disk, lock>>

(* The call for the top address returns r: to the call for a longer one,   *)
(* which writes it under its own key, or to the reward.                    *)
Return(p, r) ==
    /\ stack' = [stack EXCEPT ![p] = Front(@)]
    /\ IF Len(stack[p]) > 1
       THEN /\ pc' = [pc EXCEPT ![p] = "write"]
            /\ result' = [result EXCEPT ![p] = r]
            /\ UNCHANGED answer
       ELSE /\ pc' = [pc EXCEPT ![p] = "idle"]
            /\ result' = [result EXCEPT ![p] = Absent]
            /\ answer' = [answer EXCEPT ![p] = [to |-> TopKey(p), is |-> r]]

(* A number is answered with an error that is not written. *)
Reject(p) ==
    /\ pc[p] = "call"
    /\ TopKey(p) \in Invalid
    /\ Return(p, Error("invalid"))
    /\ UNCHANGED <<faults, retry, handling, mem, snap, disk, lock>>

(* _get_cached_geocoding, which a retried call does not try: from memory, *)
Recall(p) ==
    /\ pc[p] = "call"
    /\ TopKey(p) \notin Invalid
    /\ retry[p] = 0
    /\ mem[p][TopKey(p)] # Absent
    /\ Return(p, mem[p][TopKey(p)])
    /\ UNCHANGED <<faults, retry, handling, mem, snap, disk, lock>>

(* Faulty variant: the calls for longer addresses are forgotten. *)
LookUpForget(p) ==
    /\ pc[p] = "call"
    /\ TopKey(p) \notin Invalid
    /\ retry[p] = 0
    /\ mem[p][TopKey(p)] = Absent
    /\ disk[TopKey(p)] # Absent
    /\ pc' = [pc EXCEPT ![p] = "idle"]
    /\ UNCHANGED <<faults, stack, retry, handling, result, mem, snap, answer,
                   disk, lock>>

(* and from the file, whose entry is remembered. *)
LookUp(p) ==
    /\ pc[p] = "call"
    /\ TopKey(p) \notin Invalid
    /\ retry[p] = 0
    /\ mem[p][TopKey(p)] = Absent
    /\ disk[TopKey(p)] # Absent
    /\ mem' = [mem EXCEPT ![p][TopKey(p)] = disk[TopKey(p)]]
    /\ Return(p, disk[TopKey(p)])
    /\ UNCHANGED <<faults, retry, handling, snap, disk, lock>>

(* The address is in neither, or the file cannot be read: ask the service. *)
Ask(p) ==
    /\ pc[p] = "call"
    /\ TopKey(p) \notin Invalid
    /\ \/ retry[p] > 0
       \/ mem[p][TopKey(p)] = Absent
          /\ (disk[TopKey(p)] = Absent \/ "read" \in faults)
    /\ pc' = [pc EXCEPT ![p] = "request"]
    /\ UNCHANGED <<faults, stack, retry, handling, result, mem, snap, answer,
                   disk, lock>>

(* What the call has found is written next, by the body or by a handler.   *)
Conclude(p, r, inHandler) ==
    /\ pc' = [pc EXCEPT ![p] = "write"]
    /\ result' = [result EXCEPT ![p] = r]
    /\ handling' = [handling EXCEPT ![p] = inHandler]

(* The service answers: coordinates; or nothing (200 with no results, or   *)
(* 410), and then the address without its last part is tried.              *)
Answered(p) ==
    /\ pc[p] = "request"
    /\ IF TopKey(p) \in Known
       THEN Conclude(p, Success(TopKey(p)), FALSE) /\ UNCHANGED stack
       ELSE IF Len(Top(p)) > 1
       THEN /\ stack' = [stack EXCEPT ![p] = Append(@, Front(Top(p)))]
            /\ pc' = [pc EXCEPT ![p] = "call"]
            /\ UNCHANGED <<result, handling>>
       ELSE Conclude(p, Error("empty"), FALSE) /\ UNCHANGED stack
    /\ UNCHANGED <<faults, retry, mem, snap, answer, disk, lock>>

(* Faulty variant: a limit that lasts is taken for an error. *)
LimitedOnce(p) ==
    /\ "limit" \in faults
    /\ pc[p] = "request"
    /\ IF retry[p] < Retries
       THEN /\ retry' = [retry EXCEPT ![p] = @ + 1]
            /\ UNCHANGED <<pc, result, handling>>
       ELSE Conclude(p, Error("denied"), FALSE) /\ UNCHANGED retry
    /\ UNCHANGED <<faults, stack, mem, snap, answer, disk, lock>>

(* Usage limits, of the service or of daily_limit, are waited out. *)
Limited(p) ==
    /\ "limit" \in faults
    /\ pc[p] = "request"
    /\ retry' = [retry EXCEPT ![p] = IF @ < Retries THEN @ + 1 ELSE @]
    /\ UNCHANGED <<faults, pc, stack, handling, result, mem, snap, answer,
                   disk, lock>>

(* A RequestException, or a timeout reported by the service (408). *)
Failed(p) ==
    /\ "network" \in faults
    /\ pc[p] = "request"
    /\ IF retry[p] < Retries
       THEN /\ retry' = [retry EXCEPT ![p] = @ + 1]
            /\ UNCHANGED <<pc, result, handling>>
       ELSE /\ \E h \in BOOLEAN : Conclude(p, Error("network"), h)
            /\ UNCHANGED retry
    /\ UNCHANGED <<faults, stack, mem, snap, answer, disk, lock>>

(* 403, any other code, or an answer that cannot be understood. *)
Denied(p) ==
    /\ "denied" \in faults
    /\ pc[p] = "request"
    /\ \E h \in BOOLEAN : Conclude(p, Error("denied"), h)
    /\ UNCHANGED <<faults, stack, retry, mem, snap, answer, disk, lock>>

-----------------------------------------------------------------------------
(* _write_cache_once.                                                      *)

(* The result is returned; a call for a longer address goes on in its body. *)
AfterWrite(p) ==
    /\ Return(p, result[p])
    /\ handling' = [handling EXCEPT ![p] = FALSE]

SkipWrite(p) ==
    /\ pc[p] = "write"
    /\ mem[p][TopKey(p)] # Absent
    /\ AfterWrite(p)
    /\ UNCHANGED <<faults, retry, mem, snap, disk, lock>>

(* Faulty variant: the lock is not waited for. *)
AcquireAny(p) ==
    /\ pc[p] = "write"
    /\ mem[p][TopKey(p)] = Absent
    /\ lock' = p
    /\ pc' = [pc EXCEPT ![p] = "read"]
    /\ UNCHANGED <<faults, stack, retry, handling, result, mem, snap, answer,
                   disk>>

Acquire(p) ==
    /\ pc[p] = "write"
    /\ mem[p][TopKey(p)] = Absent
    /\ lock = Free
    /\ lock' = p
    /\ pc' = [pc EXCEPT ![p] = "read"]
    /\ UNCHANGED <<faults, stack, retry, handling, result, mem, snap, answer,
                   disk>>

(* A file that cannot be read counts as empty. *)
ReadFile(p) ==
    /\ pc[p] = "read"
    /\ \/ snap' = [snap EXCEPT ![p] = disk]
       \/ "read" \in faults /\ snap' = [snap EXCEPT ![p] = Empty]
    /\ pc' = [pc EXCEPT ![p] = "replace"]
    /\ UNCHANGED <<faults, stack, retry, handling, result, mem, answer, disk,
                   lock>>

(* Faulty variant: a later result replaces an entry. *)
ReplaceAlways(p) ==
    /\ pc[p] = "replace"
    /\ LET file == [snap[p] EXCEPT ![TopKey(p)] = result[p]]
       IN  disk' = file /\ mem' = [mem EXCEPT ![p] = file]
    /\ lock' = Free
    /\ AfterWrite(p)
    /\ snap' = [snap EXCEPT ![p] = Empty]
    /\ UNCHANGED <<faults, retry>>

(* Faulty variant: memory gets the entry, not what the file has. *)
ReplaceOwn(p) ==
    /\ pc[p] = "replace"
    /\ disk' = IF snap[p][TopKey(p)] = Absent
               THEN [snap[p] EXCEPT ![TopKey(p)] = result[p]] ELSE disk
    /\ mem' = [mem EXCEPT ![p][TopKey(p)] = result[p]]
    /\ lock' = Free
    /\ AfterWrite(p)
    /\ snap' = [snap EXCEPT ![p] = Empty]
    /\ UNCHANGED <<faults, retry>>

(* The first result for a key is added and the file replaced; memory then  *)
(* holds what the file does. *)
Replace(p) ==
    /\ pc[p] = "replace"
    /\ LET file == IF snap[p][TopKey(p)] = Absent
                   THEN [snap[p] EXCEPT ![TopKey(p)] = result[p]] ELSE snap[p]
       IN  /\ disk' = IF snap[p][TopKey(p)] = Absent THEN file ELSE disk
           /\ mem' = [mem EXCEPT ![p] = file]
    /\ lock' = Free
    /\ AfterWrite(p)
    /\ snap' = [snap EXCEPT ![p] = Empty]
    /\ UNCHANGED <<faults, retry>>

(* Faulty variant: the lock is not released by an exception. *)
WriteFailsLocked(p) ==
    /\ "write" \in faults
    /\ pc[p] \in {"read", "replace"}
    /\ ~ handling[p]
    /\ Conclude(p, Error("exception"), TRUE)
    /\ snap' = [snap EXCEPT ![p] = Empty]
    /\ UNCHANGED <<faults, stack, retry, mem, answer, disk, lock>>

(* An OSError closes, and so unlocks, the lock file. Raised in the body it *)
(* is a result of its own, which the handler writes; raised in a handler,  *)
(* it goes to the frame of an earlier try of the same address, if it has   *)
(* one, or to the call for the longer address, and at last to the reward.  *)
WriteFails(p) ==
    /\ "write" \in faults
    /\ pc[p] \in {"read", "replace"}
    /\ lock' = Free
    /\ \/ /\ ~ handling[p] \/ retry[p] > 0
          /\ Conclude(p, Error("exception"), TRUE)
          /\ UNCHANGED <<stack, answer>>
       \/ /\ handling[p]
          /\ Return(p, Error("exception"))
          /\ UNCHANGED handling
    /\ snap' = [snap EXCEPT ![p] = Empty]
    /\ UNCHANGED <<faults, retry, mem, disk>>

(* The process is killed, and a new one starts with an empty memory. *)
Crash(p) ==
    /\ "crash" \in faults
    /\ pc' = [pc EXCEPT ![p] = "idle"]
    /\ stack' = [stack EXCEPT ![p] = << >>]
    /\ retry' = [retry EXCEPT ![p] = 0]
    /\ handling' = [handling EXCEPT ![p] = FALSE]
    /\ result' = [result EXCEPT ![p] = Absent]
    /\ mem' = [mem EXCEPT ![p] = Empty]
    /\ snap' = [snap EXCEPT ![p] = Empty]
    /\ answer' = [answer EXCEPT ![p] = NoAnswer]
    /\ lock' = IF lock = p THEN Free ELSE lock
    /\ UNCHANGED <<faults, disk>>

Work(p) == \/ Reject(p) \/ Recall(p) \/ LookUp(p) \/ Ask(p)
           \/ SkipWrite(p) \/ ReadFile(p) \/ Replace(p)

Next == \E p \in Procs :
            \/ Begin(p) \/ Work(p) \/ Acquire(p) \/ Answered(p)
            \/ Limited(p) \/ Failed(p) \/ Denied(p) \/ WriteFails(p)
            \/ Crash(p)

Spec == Init /\ [][Next]_vars

(* A process runs and gets the lock in its turn; a limit is lifted some    *)
(* day, and there are only so many earlier tries of an address to raise an *)
(* error to.                                                               *)
FairSpec ==
    /\ Spec
    /\ \A p \in Procs : /\ WF_vars(Work(p))
                        /\ SF_vars(Acquire(p))
                        /\ SF_vars(Answered(p))
                        /\ SF_vars(Replace(p))

-----------------------------------------------------------------------------
(* Types of the processes' state, the file and the lock. *)
TypeOK ==
    /\ faults \in FaultSets
    /\ pc \in [Procs -> {"idle", "call", "request", "write", "read",
                         "replace"}]
    /\ stack \in [Procs -> Seq(Addresses)]
    /\ \A p \in Procs : pc[p] = "idle" <=> stack[p] = << >>
    /\ retry \in [Procs -> 0..Retries] /\ handling \in [Procs -> BOOLEAN]
    /\ result \in [Procs -> Entry \cup {Absent}]
    /\ mem \in [Procs -> [Keys -> Entry \cup {Absent}]]
    /\ snap \in [Procs -> [Keys -> Entry \cup {Absent}]]
    /\ answer \in [Procs -> [to : Keys \cup {<< >>}, is : Entry \cup {Absent}]]
    /\ disk \in [Keys -> Entry \cup {Absent}]
    /\ lock \in Procs \cup {Free}

(* What is in the cache file stays there as it is: no write of another     *)
(* process, in whatever interleaving or after whatever crash, loses an     *)
(* entry or overwrites it. (A file that cannot be read for once counts as  *)
(* empty, and the next write replaces it with its one entry.)              *)
WriteOnce ==
    [][\A k \in Keys : "read" \notin faults /\ disk[k] # Absent
                            => disk'[k] = disk[k]]_vars

(* All processes remember the same thing for the same place: what the file *)
(* says. Equal answers of two ranks are rewarded equally from then on.     *)
MemoryAgrees ==
    "read" \notin faults =>
        \A p \in Procs, k \in Keys : mem[p][k] \in {Absent, disk[k]}

(* Usage limits are waited out: as long as they are all that goes wrong, a *)
(* place the service knows is never written as an error nor answered with  *)
(* one (which would be a reward of zero).                                  *)
KnownNeverZero ==
    faults \subseteq {"limit", "crash", "read"} =>
        /\ \A k \in (Known \cap Keys) \ Invalid :
               disk[k] \in {Absent, Success(k)}
        /\ \A p \in Procs : answer[p].to \in Known \ Invalid =>
               answer[p].is = Success(answer[p].to)

(* The reward of a completion is always found in the end. *)
EveryCallEnds == \A p \in Procs : pc[p] = "call" ~> pc[p] = "idle"
=============================================================================

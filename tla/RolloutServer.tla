---------------------------- MODULE RolloutServer ----------------------------
(***************************************************************************)
(* `swift rollout` and its client.  The trainer's main process talks to    *)
(* several servers by HTTP, one thread each; a server's handlers run on    *)
(* one event loop and never await, so they run one at a time; they put     *)
(* commands on the pipes of the server's engine processes, which execute   *)
(* them in order.  A weight update is a fire-and-forget command followed   *)
(* by a broadcast in which client and engines meet; reset_prefix_cache and *)
(* infer wait for the reply of every engine.  A new client first closes    *)
(* the communicators a crashed one may have left, then makes its own.      *)
(*                                                                         *)
(* rlhf_trainers/vllm_client.py and pipelines/infer/rollout.py.            *)
(***************************************************************************)
EXTENDS Integers, Sequences, FiniteSets, SequencesExt

CONSTANTS
    NServers,       \* rollout servers of the client
    NWorkers,       \* engine processes (data parallel ranks) of a server
    NBuckets,       \* parameter buckets of one weight push
    MaxVersion,     \* bound: weight pushes of all clients together
    Lengths,        \* how many requests an infer call may have
    MaxClient,      \* bound: clients after the first, each after a crash
    FaultSets       \* which kinds of fault may occur together

ASSUME SizeAssumption == {NServers, NWorkers, NBuckets} \subseteq Nat \ {0}
ASSUME BoundAssumption == {MaxVersion, MaxClient} \cup Lengths \subseteq Nat

(* HTTP calls fail, infer raises in engines, the trainer is killed; and,   *)
(* once in a behaviour, an engine raises where nobody is told: in          *)
(* load_weights or reset_prefix_cache. It may yet, or it has.              *)
FaultKinds == {"post", "infer", "crash", "quiet"}
Raised == "raised"
ASSUME FaultAssumption == FaultSets \subseteq SUBSET FaultKinds

Servers == 1..NServers
Engines == Servers \X (1..NWorkers)
EnginesOf(s) == {e \in Engines : e[1] = s}
Buckets == 1..NBuckets
Version == 0..MaxVersion        \* 0: the dummy weights an engine starts with
Clients == 0..MaxClient
NoComm == -1                    \* self.communicator is None
Placeholder == 0                \* the prompt sent when a chunk is empty

Close == [type |-> "close"]
InitComm(k) == [type |-> "init", client |-> k]
Update(k, v, b) == [type |-> "update", client |-> k, version |-> v, bucket |-> b]
Reset == [type |-> "reset"]
Infer(reqs) == [type |-> "infer", requests |-> reqs]

(* An answer: to which request, and the weights that had a part in it. *)
Answer(q, by) == [of |-> q, by |-> by]
Replied(answers) == [ok |-> TRUE, answers |-> answers]
NoResult == [ok |-> FALSE, answers |-> << >>]       \* None, after an error

VARIABLES
    faults,     \* the kinds of fault that may happen, or have
    client,     \* which client lives, counted from 0
    cpc,        \* what its main thread is doing
    at,         \* the server a sequential loop over servers is at
    version,    \* weights of the latest push begun
    bucket,     \* the bucket being pushed
    pushed,     \* the live client has completed a push
    asked,      \* the requests of the infer call
    th,         \* the client's thread for each server
    part,       \* what each server answered
    got,        \* what infer returned last
    busy,       \* the client whose call a server's handler waits to answer
    pipe,       \* commands for each engine, head executing
    wst,        \* what each engine is doing with it
    comm,       \* the client its communicator is shared with
    weights,    \* version of each bucket on each engine
    cache,      \* versions whose KV blocks its prefix cache may hold
    reply       \* replies on the way back from each engine

main == <<cpc, at, bucket, asked, th, part, got>>
engine == <<pipe, wst, comm, weights, cache, reply>>
vars == <<faults, client, version, pushed, main, busy, engine>>

NoThread == [s \in Servers |-> "none"]
Posting == [s \in Servers |-> "post"]
Free == -1

Init ==
    /\ faults \in FaultSets
    /\ client = 0 /\ cpc = "close" /\ at = 1
    /\ version = 0 /\ bucket = 1 /\ pushed = FALSE
    /\ asked = << >> /\ th = NoThread
    /\ part = [s \in Servers |-> << >>] /\ got = << >>
    /\ busy = [s \in Servers |-> Free]
    /\ pipe = [e \in Engines |-> << >>]
    /\ wst = [e \in Engines |-> "idle"]
    /\ comm = [e \in Engines |-> NoComm]
    /\ weights = [e \in Engines |-> [b \in Buckets |-> 0]]
    /\ cache = [e \in Engines |-> {}]
    /\ reply = [e \in Engines |-> << >>]

-----------------------------------------------------------------------------
(* Splitting the requests.                                                 *)
Smaller(a, b) == IF a < b THEN a ELSE b

(* Faulty variant: the remainder is dropped. *)
ChunkFloor(lst, n, i) ==
    LET k == Len(lst) \div n
    IN  SubSeq(lst, (i - 1) * k + 1, i * k)

(* chunk_list: the i-th of n parts whose lengths differ by at most one. *)
Chunk(lst, n, i) ==
    LET k == Len(lst) \div n
        r == Len(lst) % n
    IN  SubSeq(lst, (i - 1) * k + Smaller(i - 1, r) + 1, i * k + Smaller(i, r))

(* VLLMClient.infer: chunks of equal length, the last ones shorter or empty. *)
ServerChunk(lst, i) ==
    LET size == (Len(lst) + NServers - 1) \div NServers
    IN  SubSeq(lst, (i - 1) * size + 1, Smaller(i * size, Len(lst)))

(* What an engine is sent: vLLM wants at least one prompt. *)
EngineRequests(s, w) ==
    LET chunk == Chunk(ServerChunk(asked, s), NWorkers, w)
    IN  IF chunk = << >> THEN <<Placeholder>> ELSE chunk

-----------------------------------------------------------------------------
(* HTTP handlers: a free event loop puts one command on every pipe.        *)
Send(s, command) ==
    /\ busy[s] = Free
    /\ pipe' = [e \in Engines |->
                   IF e[1] = s THEN Append(pipe[e], command) ELSE pipe[e]]

(* VLLMClient.close_communicator: one server after the other; errors are   *)
(* only logged. *)
CloseAll ==
    /\ cpc \in {"close", "atexit"}
    /\ \/ Send(at, Close)
       \/ "post" \in faults /\ UNCHANGED pipe
    /\ IF at < NServers
       THEN at' = at + 1 /\ UNCHANGED cpc
       ELSE at' = 1 /\ cpc' = IF cpc = "close" THEN "init" ELSE "gone"
    /\ UNCHANGED <<faults, client, version, pushed, bucket, asked, th, part, got, busy,
                   wst, comm, weights, cache, reply>>

(* VLLMClient.init_communicator, up to the rendezvous with the engines. *)
InitPost ==
    /\ cpc = "init"
    /\ Send(at, InitComm(client))
    /\ cpc' = "rendezvous"
    /\ UNCHANGED <<faults, client, version, pushed, at, bucket, asked, th, part, got,
                   busy, wst, comm, weights, cache, reply>>

InitPostFails ==
    /\ cpc = "init"
    /\ "post" \in faults
    /\ cpc' = "gone"
    /\ UNCHANGED <<faults, client, version, pushed, at, bucket, asked, th, part, got,
                   busy, engine>>

(* StatelessProcessGroup.create returns when every rank has joined. *)
Rendezvous ==
    /\ cpc = "rendezvous"
    /\ \A e \in EnginesOf(at) :
           wst[e] = "rendezvous" /\ Head(pipe[e]).client = client
    /\ comm' = [e \in Engines |-> IF e[1] = at THEN client ELSE comm[e]]
    /\ wst' = [e \in Engines |-> IF e[1] = at THEN "idle" ELSE wst[e]]
    /\ pipe' = [e \in Engines |-> IF e[1] = at THEN Tail(pipe[e]) ELSE pipe[e]]
    /\ IF at < NServers
       THEN at' = at + 1 /\ cpc' = "init"
       ELSE at' = 1 /\ cpc' = "idle"
    /\ UNCHANGED <<faults, client, version, pushed, bucket, asked, th, part, got, busy,
                   weights, cache, reply>>

-----------------------------------------------------------------------------
(* The trainer pushes its weights: every bucket, then the prefix caches.   *)
BeginPush ==
    /\ cpc = "idle"
    /\ version < MaxVersion
    /\ version' = version + 1
    /\ bucket' = 1
    /\ cpc' = "update"
    /\ th' = Posting
    /\ got' = << >>
    /\ UNCHANGED <<faults, client, pushed, at, asked, part, busy, engine>>

(* A rollout; the first one of a trainer comes after a push. *)
BeginInfer ==
    /\ cpc = "idle"
    /\ pushed
    /\ \E n \in Lengths \ {0} : asked' = [q \in 1..n |-> q]
    /\ cpc' = "infer"
    /\ th' = Posting
    /\ got' = << >>
    /\ UNCHANGED <<faults, client, version, pushed, at, bucket, part, busy, engine>>

(* The POST of one thread; reset and infer keep the handler until the      *)
(* engines have replied.                                                   *)
Post(s) ==
    /\ th[s] = "post"
    /\ th' = [th EXCEPT ![s] = "wait"]
    /\ CASE cpc = "update" -> /\ Send(s, Update(client, version, bucket))
                              /\ UNCHANGED busy
         [] cpc = "reset" -> /\ Send(s, Reset)
                             /\ busy' = [busy EXCEPT ![s] = client]
         [] cpc = "infer" ->
                /\ busy[s] = Free
                /\ pipe' = [e \in Engines |->
                       IF e[1] = s
                       THEN Append(pipe[e], Infer(EngineRequests(s, e[2])))
                       ELSE pipe[e]]
                /\ busy' = [busy EXCEPT ![s] = client]
    /\ UNCHANGED <<faults, client, version, pushed, cpc, at, bucket, asked, part, got,
                   wst, comm, weights, cache, reply>>

PostFails(s) ==
    /\ "post" \in faults
    /\ th[s] = "post"
    /\ th' = [th EXCEPT ![s] = "failed"]
    /\ UNCHANGED <<faults, client, version, pushed, cpc, at, bucket, asked, part, got,
                   busy, engine>>

(* Broadcast and barrier: the thread meets all engines of its server. *)
Broadcast(s) ==
    /\ cpc = "update"
    /\ th[s] = "wait"
    /\ \A e \in EnginesOf(s) : wst[e] = "recv" /\ comm[e] = client
    /\ wst' = [e \in Engines |-> IF e[1] = s THEN "load" ELSE wst[e]]
    /\ th' = [th EXCEPT ![s] = "done"]
    /\ UNCHANGED <<faults, client, version, pushed, cpc, at, bucket, asked, part, got,
                   busy, pipe, comm, weights, cache, reply>>

(* The engines of a server whose output the handler uses. *)
Asked(s) == {e \in EnginesOf(s) :
    Chunk(ServerChunk(asked, s), NWorkers, e[2]) # << >>}

(* Faulty variant: the answers to placeholders are kept. *)
AnswersAll(s) == FlattenSeq([w \in 1..NWorkers |-> Head(reply[<<s, w>>]).answers])

Answers(s) ==
    FlattenSeq([w \in 1..NWorkers |->
        IF <<s, w>> \in Asked(s) THEN Head(reply[<<s, w>>]).answers
        ELSE << >>])

(* Faulty variant: the handler stops reading at the first None. *)
CollectStops(s) ==
    /\ busy[s] # Free
    /\ \A e \in EnginesOf(s) : reply[e] # << >>
    /\ LET bad == {e \in EnginesOf(s) : Head(reply[e]) = NoResult}
           read == {e \in EnginesOf(s) : \A d \in bad : e[2] <= d[2]}
       IN  /\ reply' = [e \in Engines |->
                            IF e \in read THEN Tail(reply[e]) ELSE reply[e]]
           /\ th' = IF th[s] = "wait" /\ busy[s] = client
                    THEN [th EXCEPT ![s] = IF bad = {} THEN "done" ELSE "failed"]
                    ELSE th
           /\ part' = IF th[s] = "wait" /\ busy[s] = client /\ bad = {}
                         /\ cpc = "infer"
                      THEN [part EXCEPT ![s] = Answers(s)] ELSE part
    /\ busy' = [busy EXCEPT ![s] = Free]
    /\ UNCHANGED <<faults, client, version, pushed, cpc, at, bucket, asked, got, pipe,
                   wst, comm, weights, cache>>

(* The handler has every reply: it answers the call, with an error if the  *)
(* infer of an engine with requests raised and its None cannot be chained  *)
(* with the rest. The answer to a client that is gone is dropped.          *)
Collect(s) ==
    /\ busy[s] # Free
    /\ \A e \in EnginesOf(s) : reply[e] # << >>
    /\ reply' = [e \in Engines |-> IF e[1] = s THEN Tail(reply[e]) ELSE reply[e]]
    /\ busy' = [busy EXCEPT ![s] = Free]
    /\ IF th[s] = "wait" /\ busy[s] = client
       THEN IF cpc = "infer" /\ \E e \in Asked(s) : Head(reply[e]) = NoResult
            THEN th' = [th EXCEPT ![s] = "failed"] /\ UNCHANGED part
            ELSE /\ th' = [th EXCEPT ![s] = "done"]
                 /\ part' = IF cpc = "infer"
                            THEN [part EXCEPT ![s] = Answers(s)] ELSE part
       ELSE UNCHANGED <<th, part>>
    /\ UNCHANGED <<faults, client, version, pushed, cpc, at, bucket, asked, got, pipe,
                   wst, comm, weights, cache>>

(* Faulty variant: a failed thread does not fail the call. *)
JoinQuietly ==
    /\ cpc \in {"update", "reset", "infer"}
    /\ \A s \in Servers : th[s] \in {"done", "failed"}
    /\ CASE cpc = "update" /\ bucket < NBuckets ->
                bucket' = bucket + 1 /\ th' = Posting /\ UNCHANGED <<cpc, pushed>>
         [] cpc = "update" /\ bucket = NBuckets ->
                cpc' = "reset" /\ th' = Posting /\ UNCHANGED <<bucket, pushed>>
         [] OTHER -> /\ cpc' = "idle" /\ th' = NoThread
                     /\ pushed' = (pushed \/ cpc = "reset") /\ UNCHANGED bucket
    /\ got' = IF cpc = "infer" THEN FlattenSeq(part) ELSE got
    /\ part' = [s \in Servers |-> << >>]
    /\ UNCHANGED <<faults, client, version, at, asked, busy, engine>>

(* Faulty variant: one bucket too many. *)
JoinPastEnd ==
    /\ cpc \in {"update", "reset", "infer"}
    /\ \A s \in Servers : th[s] \in {"done", "failed"}
    /\ IF cpc = "update" /\ bucket <= NBuckets
       THEN bucket' = bucket + 1 /\ th' = Posting /\ UNCHANGED <<cpc, pushed>>
       ELSE /\ cpc' = IF cpc = "update" THEN "reset" ELSE "idle"
            /\ th' = IF cpc = "update" THEN Posting ELSE NoThread
            /\ pushed' = (pushed \/ cpc = "reset") /\ UNCHANGED bucket
    /\ got' = IF cpc = "infer" THEN FlattenSeq(part) ELSE got
    /\ part' = [s \in Servers |-> << >>]
    /\ UNCHANGED <<faults, client, version, at, asked, busy, engine>>

(* The thread pool is joined: any error is raised, and ends the trainer,   *)
(* whose atexit hook closes the communicators.                             *)
Join ==
    /\ cpc \in {"update", "reset", "infer"}
    /\ \A s \in Servers : th[s] \in {"done", "failed"}
    /\ IF \E s \in Servers : th[s] = "failed"
       THEN /\ cpc' = "atexit" /\ at' = 1 /\ th' = NoThread /\ got' = << >>
            /\ UNCHANGED <<bucket, pushed>>
       ELSE /\ CASE cpc = "update" /\ bucket < NBuckets ->
                        /\ bucket' = bucket + 1
                        /\ th' = Posting
                        /\ UNCHANGED <<cpc, pushed>>
                 [] cpc = "update" /\ bucket = NBuckets ->
                        /\ cpc' = "reset"
                        /\ th' = Posting
                        /\ UNCHANGED <<bucket, pushed>>
                 [] OTHER ->
                        /\ cpc' = "idle"
                        /\ th' = NoThread
                        /\ pushed' = (pushed \/ cpc = "reset")
                        /\ UNCHANGED bucket
            /\ got' = IF cpc = "infer" THEN FlattenSeq(part) ELSE got
            /\ UNCHANGED at
    /\ part' = [s \in Servers |-> << >>]
    /\ UNCHANGED <<faults, client, version, asked, busy, engine>>

(* The trainer is killed at any point; what it sent stays on the way. *)
Crash ==
    /\ "crash" \in faults
    /\ client < MaxClient
    /\ cpc # "gone"
    /\ cpc' = "gone"
    /\ th' = NoThread
    /\ part' = [s \in Servers |-> << >>]
    /\ got' = << >>
    /\ UNCHANGED <<faults, client, version, pushed, at, bucket, asked, busy, engine>>

(* Faulty variant: a restarted trainer believes its weights are loaded. *)
RestartPushed ==
    /\ cpc = "gone" /\ client < MaxClient
    /\ client' = client + 1
    /\ cpc' = "close" /\ at' = 1
    /\ UNCHANGED <<faults, version, pushed, bucket, asked, th, part, got, busy, engine>>

(* A new trainer: close_communicator, then init_communicator. *)
Restart ==
    /\ cpc = "gone"
    /\ client < MaxClient
    /\ client' = client + 1
    /\ cpc' = "close"
    /\ at' = 1
    /\ pushed' = FALSE
    /\ UNCHANGED <<faults, version, bucket, asked, th, part, got, busy, engine>>

-----------------------------------------------------------------------------
(* An engine process: the loop of llm_worker.                              *)
Command(e) == Head(pipe[e])
Ready(e, type) == wst[e] = "idle" /\ pipe[e] # << >> /\ Command(e).type = type

Step(e, next) == wst' = [wst EXCEPT ![e] = next]
Done(e) == pipe' = [pipe EXCEPT ![e] = Tail(@)]

DoClose(e) ==
    /\ Ready(e, "close")
    /\ comm' = [comm EXCEPT ![e] = NoComm]
    /\ Done(e)
    /\ UNCHANGED <<faults, client, version, pushed, main, busy, wst, weights, cache, reply>>

(* A communicator that exists already is an error, which is only logged. *)
DoInit(e) ==
    /\ Ready(e, "init")
    /\ IF comm[e] = NoComm THEN Step(e, "rendezvous") /\ UNCHANGED pipe
       ELSE Done(e) /\ UNCHANGED wst
    /\ UNCHANGED <<faults, client, version, pushed, main, busy, comm, weights, cache, reply>>

DoUpdate(e) ==
    /\ Ready(e, "update")
    /\ IF comm[e] # NoComm THEN Step(e, "recv") /\ UNCHANGED pipe
       ELSE Done(e) /\ UNCHANGED wst
    /\ UNCHANGED <<faults, client, version, pushed, main, busy, comm, weights, cache, reply>>

(* After the barrier, so possibly after the client has gone on. *)
Load(e) ==
    /\ wst[e] = "load"
    /\ weights' = [weights EXCEPT ![e][Command(e).bucket] = Command(e).version]
    /\ Step(e, "idle")
    /\ Done(e)
    /\ UNCHANGED <<faults, client, version, pushed, main, busy, comm, cache, reply>>

(* The exception of a fire-and-forget command is logged by the engine.     *)
LoadFails(e) ==
    /\ "quiet" \in faults
    /\ wst[e] = "load"
    /\ faults' = {Raised} \cup (faults \ {"quiet"})
    /\ Step(e, "idle")
    /\ Done(e)
    /\ UNCHANGED <<client, version, pushed, main, busy, comm, weights, cache, reply>>

(* A rank of the group that was killed never joins or sends: the call may  *)
(* raise, which is logged, or block for ever.                              *)
PeerLost(e) ==
    /\ wst[e] \in {"rendezvous", "recv"}
    /\ Command(e).client # client \/ cpc = "gone"
    /\ Step(e, "idle")
    /\ Done(e)
    /\ UNCHANGED <<faults, client, version, pushed, main, busy, comm, weights, cache, reply>>

(* Faulty variant: blocks of the prefix cache are kept. *)
ResetNothing(e) ==
    /\ Ready(e, "reset")
    /\ reply' = [reply EXCEPT ![e] = Append(@, Replied(<< >>))]
    /\ Done(e)
    /\ UNCHANGED <<faults, client, version, pushed, main, busy, wst, comm, weights, cache>>

(* Faulty variant: reset_prefix_cache is answered by nobody. *)
ResetSilent(e) ==
    /\ Ready(e, "reset")
    /\ cache' = [cache EXCEPT ![e] = {}]
    /\ Done(e)
    /\ UNCHANGED <<faults, client, version, pushed, main, busy, wst, comm, weights, reply>>

DoReset(e) ==
    /\ Ready(e, "reset")
    /\ cache' = [cache EXCEPT ![e] = {}]
    /\ reply' = [reply EXCEPT ![e] = Append(@, Replied(<< >>))]
    /\ Done(e)
    /\ UNCHANGED <<faults, client, version, pushed, main, busy, wst, comm, weights>>

(* The None it replies makes the handler report a status of False. *)
ResetFails(e) ==
    /\ "quiet" \in faults
    /\ Ready(e, "reset")
    /\ faults' = {Raised} \cup (faults \ {"quiet"})
    /\ reply' = [reply EXCEPT ![e] = Append(@, NoResult)]
    /\ Done(e)
    /\ UNCHANGED <<client, version, pushed, main, busy, wst, comm, weights, cache>>

(* Faulty variant: an engine with nothing to do does not reply. *)
InferNotPlaceholder(e) ==
    /\ Ready(e, "infer")
    /\ LET held == {weights[e][b] : b \in Buckets}
           reqs == Command(e).requests
       IN  reply' = IF reqs = <<Placeholder>> THEN reply
                    ELSE [reply EXCEPT ![e] = Append(@, Replied(
                  [i \in DOMAIN reqs |-> Answer(reqs[i], held \cup cache[e])]))]
    /\ Done(e)
    /\ UNCHANGED <<faults, client, version, pushed, main, busy, wst, comm, weights, cache>>

DoInfer(e) ==
    /\ Ready(e, "infer")
    /\ LET held == {weights[e][b] : b \in Buckets}
           reqs == Command(e).requests
       IN  /\ reply' = [reply EXCEPT ![e] = Append(@, Replied(
                  [i \in DOMAIN reqs |-> Answer(reqs[i], held \cup cache[e])]))]
           /\ cache' = [cache EXCEPT ![e] = @ \cup held]
    /\ Done(e)
    /\ UNCHANGED <<faults, client, version, pushed, main, busy, wst, comm, weights>>

InferFails(e) ==
    /\ "infer" \in faults
    /\ Ready(e, "infer")
    /\ reply' = [reply EXCEPT ![e] = Append(@, NoResult)]
    /\ Done(e)
    /\ UNCHANGED <<faults, client, version, pushed, main, busy, wst, comm, weights, cache>>

Engine(e) == \/ DoClose(e) \/ DoInit(e) \/ DoUpdate(e) \/ Load(e) \/ LoadFails(e)
             \/ DoReset(e) \/ ResetFails(e) \/ DoInfer(e) \/ InferFails(e)

Trainer == \/ CloseAll \/ InitPost \/ Rendezvous \/ BeginPush \/ BeginInfer \/ Join

Thread(s) == Post(s) \/ Broadcast(s) \/ Collect(s)

Next == \/ Trainer \/ InitPostFails \/ Crash \/ Restart
        \/ \E s \in Servers : Thread(s) \/ PostFails(s)
        \/ \E e \in Engines : Engine(e) \/ PeerLost(e)

Spec == Init /\ [][Next]_vars

(* Processes and threads run. Whether a lost peer is noticed is not known. *)
FairSpec == /\ Spec
            /\ WF_vars(Trainer)
            /\ \A s \in Servers : WF_vars(Thread(s))
            /\ \A e \in Engines : WF_vars(Engine(e))

-----------------------------------------------------------------------------
Commands == {Close, Reset}
    \cup {InitComm(k) : k \in Clients}
    \cup {Update(k, v, b) : k \in Clients, v \in Version, b \in Buckets}
    \cup [type : {"infer"}, requests : Seq(Nat)]
Answered == Seq([of : Nat, by : SUBSET Version])
Reply == [ok : BOOLEAN, answers : Answered]

(* Types of the client's, the servers' and the engines' state. *)
TypeOK ==
    /\ faults \subseteq FaultKinds \cup {Raised}
    /\ client \in Clients /\ at \in Servers /\ version \in Version
    /\ cpc \in {"close", "init", "rendezvous", "idle", "update", "reset",
                "infer", "atexit", "gone"}
    /\ bucket \in Buckets /\ pushed \in BOOLEAN
    /\ asked \in Seq(Nat)
    /\ th \in [Servers -> {"none", "post", "wait", "done", "failed"}]
    /\ part \in [Servers -> Answered] /\ got \in Answered
    /\ busy \in [Servers -> Clients \cup {Free}]
    /\ \A e \in Engines :
           /\ pipe[e] \in Seq(Commands) /\ reply[e] \in Seq(Reply)
           /\ wst[e] \in {"idle", "rendezvous", "recv", "load"}
           /\ comm[e] \in Clients \cup {NoComm}
           /\ weights[e] \in [Buckets -> Version] /\ cache[e] \subseteq Version

(* What infer returns was computed, on every engine, with the weights of   *)
(* the latest push and nothing else: no dummy weights, no bucket or prefix *)
(* cache block of an older push, none left by a client that crashed in the *)
(* middle of one. (Unless load_weights or reset_prefix_cache raised in an   *)
(* engine: the one is a fire-and-forget command, and of the other the      *)
(* client is told only in a message it does not read.)                     *)
AnswersFromLastPush ==
    Raised \notin faults => \A i \in DOMAIN got : got[i].by = {version}

(* infer returns one answer per request, in the order of the requests,     *)
(* through both levels of splitting and with the placeholders left out,    *)
(* and a handler that starts finds no reply left over from an earlier      *)
(* call, so that a call never takes the reply to another one.              *)
AnswersInOrder ==
    /\ TypeOK
    /\ got # << >> => [i \in DOMAIN got |-> got[i].of] = asked
    /\ \A s \in Servers : busy[s] = Free =>
           \A e \in EnginesOf(s) : reply[e] = << >>

(* Unless a call fails or the trainer is killed every push of weights,     *)
(* over all servers and buckets and the reset of the prefix caches, ends,  *)
(* and so does every rollout, whatever the number of its requests, if no   *)
(* engine's infer raises either.                                           *)
CallsEnd ==
    /\ faults \cap {"post", "crash"} = {} /\ cpc = "update" ~> cpc = "idle"
    /\ faults \cap {"post", "crash", "infer"} = {} /\ cpc = "infer"
          ~> cpc = "idle"
=============================================================================

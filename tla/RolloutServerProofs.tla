------------------------- MODULE RolloutServerProofs -------------------------
(* Proofs that every answer a rollout gets was computed with the weights of *)
(* the latest push, and that there is one for each request, in their order, *)
(* for any numbers of servers, engines, buckets, pushes, requests, restarts *)
(* of the trainer and faults.                                               *)
EXTENDS RolloutServer, SequenceFacts

-----------------------------------------------------------------------------
(* The inductive invariant.                                                 *)

(* Types, and that what EXCEPT updates are functions.                       *)
Phases == {"close", "init", "rendezvous", "idle", "update", "reset", "infer",
           "atexit", "gone"}
ThreadStates == {"none", "post", "wait", "done", "failed"}
Types ==
    /\ faults \subseteq FaultKinds \cup {Raised}
    /\ client \in Clients /\ at \in Servers /\ version \in Version
    /\ cpc \in Phases /\ bucket \in Buckets /\ pushed \in BOOLEAN
    /\ asked \in Seq(Nat) /\ th \in [Servers -> ThreadStates]
    /\ part \in [Servers -> Answered] /\ got \in Answered
    /\ busy \in [Servers -> Clients \cup {Free}]
    /\ pipe \in [Engines -> Seq(Commands)]
    /\ reply \in [Engines -> Seq(Reply)]
    /\ wst \in [Engines -> {"idle", "rendezvous", "recv", "load"}]
    /\ comm \in [Engines -> Clients \cup {NoComm}]
    /\ weights \in [Engines -> [Buckets -> Version]]
    /\ cache \in [Engines -> SUBSET Version]

(* The threads live during a call; an answer waits for nothing but the end  *)
(* of a rollout.                                                            *)
Calling == {"update", "reset", "infer"}
ThreadsLive ==
    /\ \A s \in Servers : th[s] = "none" <=> cpc \notin Calling
    /\ cpc = "infer" => pushed
    /\ cpc \in {"close", "init", "rendezvous"} => ~pushed

(* An engine that does not wait for a command is executing the one at the   *)
(* head of its pipe.                                                        *)
AtWork(e) ==
    /\ wst[e] = "rendezvous" => pipe[e] # << >> /\ pipe[e][1].type = "init"
    /\ wst[e] \in {"recv", "load"} => pipe[e] # << >> /\ pipe[e][1].type = "update"

(* A handler that waits has one command or one reply at every engine, and   *)
(* nothing behind it; one that does not has none.                           *)
Waited(c) == c.type \in {"reset", "infer"}
OneReply(e) ==
    IF busy[e[1]] = Free
    THEN /\ reply[e] = << >>
         /\ \A i \in DOMAIN pipe[e] : ~Waited(pipe[e][i])
    ELSE \/ /\ reply[e] = << >> /\ pipe[e] # << >>
            /\ \A i \in DOMAIN pipe[e] :
                   Waited(pipe[e][i]) <=> i = Len(pipe[e])
         \/ pipe[e] = << >> /\ Len(reply[e]) = 1

(* The handshake of the live client is behind all that older ones sent.     *)
OwnInit(e) == {i \in DOMAIN pipe[e] : pipe[e][i].type = "init"
                                          /\ pipe[e][i].client = client}
Handshake(e) ==
    /\ \A i \in DOMAIN pipe[e] :
           pipe[e][i].type = "init" => pipe[e][i].client <= client
    /\ cpc = "close" => OwnInit(e) = {}
    /\ cpc \in {"init", "rendezvous"} /\ e[1] >= at =>
           IF cpc = "rendezvous" /\ e[1] = at
           THEN OwnInit(e) \subseteq {Len(pipe[e])} /\ busy[e[1]] = Free
           ELSE OwnInit(e) = {}

(* An engine that has joined the live client has nothing to do but what     *)
(* this client sent, of which at most two commands are on the way.          *)
Joined(e) == \/ cpc \in Calling \cup {"idle"}
             \/ cpc \in {"init", "rendezvous"} /\ e[1] < at

Rested(e) == pipe[e] = << >> /\ wst[e] = "idle"
Push(b) == Update(client, version, b)
Loading(e, b) == pipe[e] = <<Push(b)>> /\ wst[e] = "load"
Behind(e, n) == Rested(e) \/ (n > 0 /\ Loading(e, n))

Spells(answers, reqs) ==
    /\ answers \in Answered /\ Len(answers) = Len(reqs)
    /\ \A i \in 1..Len(reqs) : answers[i].of = reqs[i]

Updating(e) ==
    /\ busy[e[1]] = Free
    /\ CASE th[e[1]] \in {"post", "failed"} -> Behind(e, bucket - 1)
         [] th[e[1]] = "wait" ->
              \/ pipe[e] = <<Push(bucket)>> /\ wst[e] \in {"idle", "recv"}
              \/ /\ bucket > 1 /\ wst[e] = "load"
                 /\ pipe[e] = <<Push(bucket - 1), Push(bucket)>>
         [] th[e[1]] = "done" -> Behind(e, bucket)

Resetting(e) ==
    CASE th[e[1]] \in {"post", "failed"} ->
           busy[e[1]] = Free /\ Behind(e, NBuckets)
      [] th[e[1]] = "wait" ->
           /\ busy[e[1]] = client
           /\ \/ pipe[e] = <<Reset>> /\ wst[e] = "idle"
              \/ pipe[e] = <<Push(NBuckets), Reset>> /\ wst[e] = "load"
              \/ Rested(e)
      [] th[e[1]] = "done" -> busy[e[1]] = Free /\ Rested(e)

Requested(e) == EngineRequests(e[1], e[2])
Inferring(e) ==
    CASE th[e[1]] \in {"post", "failed"} -> busy[e[1]] = Free /\ Rested(e)
      [] th[e[1]] = "wait" ->
           /\ busy[e[1]] = client /\ wst[e] = "idle"
           /\ \/ pipe[e] = <<Infer(Requested(e))>>
              \/ /\ pipe[e] = << >>
                 /\ \/ reply[e][1] = NoResult
                    \/ /\ reply[e][1].ok
                       /\ Spells(reply[e][1].answers, Requested(e))
      [] th[e[1]] = "done" ->
           /\ busy[e[1]] = Free /\ Rested(e)
           /\ Spells(part[e[1]], ServerChunk(asked, e[1]))

OnlyOurs(e) ==
    Joined(e) =>
        /\ comm[e] = client
        /\ CASE cpc = "update" -> Updating(e)
             [] cpc = "reset" -> Resetting(e)
             [] cpc = "infer" -> Inferring(e)
             [] OTHER -> busy[e[1]] = Free /\ Rested(e)

(* Unless something raised where nobody is told, the buckets pushed so far  *)
(* are loaded, the last one perhaps in a moment, and the prefix cache is    *)
(* empty when it has been reset: what is computed from then on comes from   *)
(* the latest push.                                                         *)
Loaded(e, n) ==
    \A b \in 1..n : \/ weights[e][b] = version
                    \/ /\ wst[e] = "load" /\ pipe[e] # << >>
                       /\ pipe[e][1] = Push(b)
By(answers, v) == \A i \in 1..Len(answers) : answers[i].by = {v}

Fresh(e) ==
    Raised \notin faults =>
        /\ cpc = "update" =>
               Loaded(e, IF th[e[1]] = "done" THEN bucket ELSE bucket - 1)
        /\ cpc = "reset" =>
               /\ Loaded(e, NBuckets)
               /\ \/ th[e[1]] = "done"
                  \/ th[e[1]] = "wait" /\ pipe[e] = << >>
                  => cache[e] = {}
        /\ cpc \in {"idle", "infer"} /\ pushed =>
               Loaded(e, NBuckets) /\ cache[e] \subseteq {version}
        /\ cpc = "infer" =>
               /\ th[e[1]] = "wait" /\ reply[e] # << >> =>
                      By(reply[e][1].answers, version)
               /\ th[e[1]] = "done" => By(part[e[1]], version)

(* What infer has returned.                                                 *)
GotAll ==
    /\ cpc # "idle" => got = << >>
    /\ got # << >> => /\ Spells(got, asked)
                      /\ Raised \notin faults => By(got, version)

EngineInv(e) == /\ AtWork(e) /\ OneReply(e) /\ Handshake(e)
                /\ OnlyOurs(e) /\ Fresh(e)
IInv == Types /\ ThreadsLive /\ GotAll /\ \A e \in Engines : EngineInv(e)
-----------------------------------------------------------------------------
(* Commands and pipes.                                                      *)

(* The commands of each type have the fields that belong to it.             *)
LEMMA CommandKinds ==
  ASSUME NEW c \in Commands
  PROVE  /\ c.type \in {"close", "init", "update", "reset", "infer"}
         /\ c.type = "close" => c = Close
         /\ c.type = "reset" => c = Reset
         /\ c.type = "init" => c = InitComm(c.client) /\ c.client \in Clients
         /\ c.type = "update" => /\ c = Update(c.client, c.version, c.bucket)
                                 /\ c.client \in Clients
                                 /\ c.version \in Version
                                 /\ c.bucket \in Buckets
         /\ c.type = "infer" => /\ c = Infer(c.requests)
                                /\ c.requests \in Seq(Nat)
  <1>1. CASE c \in {Close, Reset}
    BY <1>1 DEF Close, Reset
  <1>2. CASE c \in {InitComm(k) : k \in Clients}
    BY <1>2 DEF InitComm
  <1>3. CASE c \in {Update(k, v, b) : k \in Clients, v \in Version, b \in Buckets}
    BY <1>3 DEF Update
  <1>4. CASE c \in [type : {"infer"}, requests : Seq(Nat)]
    BY <1>4 DEF Infer
  <1> QED BY <1>1, <1>2, <1>3, <1>4 DEF Commands

LEMMA CommandTypes ==
  /\ Close \in Commands /\ Close.type = "close"
  /\ Reset \in Commands /\ Reset.type = "reset"
  /\ \A k \in Clients : /\ InitComm(k) \in Commands
                        /\ InitComm(k).type = "init" /\ InitComm(k).client = k
  /\ \A k \in Clients, v \in Version, b \in Buckets :
        /\ Update(k, v, b) \in Commands /\ Update(k, v, b).type = "update"
        /\ Update(k, v, b).client = k /\ Update(k, v, b).version = v
        /\ Update(k, v, b).bucket = b
  /\ \A reqs \in Seq(Nat) : /\ Infer(reqs) \in Commands
                            /\ Infer(reqs).type = "infer"
                            /\ Infer(reqs).requests = reqs
  <1>1. /\ Close \in Commands /\ Close.type = "close"
        /\ Reset \in Commands /\ Reset.type = "reset"
    BY DEF Commands, Close, Reset
  <1>2. ASSUME NEW k \in Clients
        PROVE  /\ InitComm(k) \in Commands
               /\ InitComm(k).type = "init" /\ InitComm(k).client = k
    BY DEF Commands, InitComm
  <1>3. ASSUME NEW k \in Clients, NEW v \in Version, NEW b \in Buckets
        PROVE  /\ Update(k, v, b) \in Commands
               /\ Update(k, v, b).type = "update"
               /\ Update(k, v, b).client = k /\ Update(k, v, b).version = v
               /\ Update(k, v, b).bucket = b
    <2>1. Update(k, v, b) \in Commands
      BY DEF Commands
    <2> QED BY <2>1 DEF Update
  <1>4. ASSUME NEW reqs \in Seq(Nat)
        PROVE  /\ Infer(reqs) \in Commands /\ Infer(reqs).type = "infer"
               /\ Infer(reqs).requests = reqs
    <2>1. Infer(reqs) \in [type : {"infer"}, requests : Seq(Nat)]
      BY DEF Infer
    <2> QED BY <2>1 DEF Commands, Infer
  <1> QED BY <1>1, <1>2, <1>3, <1>4

(* Where the i-th of n chunks of lst ends, *)
ChunkEnd(lst, n) ==
    [i \in 0..n |-> i * (Len(lst) \div n) + Smaller(i, Len(lst) % n)]

(* and where the i-th server's share of it does.                            *)
Share(lst) == (Len(lst) + NServers - 1) \div NServers
ShareEnd(lst) == [i \in 0..NServers |-> Smaller(i * Share(lst), Len(lst))]

Cuts(b, n, len) ==
    /\ b \in [0..n -> Nat] /\ b[0] = 0 /\ b[n] = len
    /\ \A i \in 1..n : b[i - 1] <= b[i] /\ b[i] <= len

LEMMA ChunkCuts ==
  ASSUME NEW T, NEW lst \in Seq(T), NEW n \in Nat \ {0}
  PROVE  /\ Cuts(ChunkEnd(lst, n), n, Len(lst))
         /\ \A i \in 1..n : Chunk(lst, n, i) = SubSeq(lst,
               ChunkEnd(lst, n)[i - 1] + 1, ChunkEnd(lst, n)[i])
  <1> DEFINE l == Len(lst)
             k == l \div n
             r == l % n
             b == ChunkEnd(lst, n)
  <1>1. l \in Nat
    OBVIOUS
  <1>2. k \in Nat /\ r \in Nat /\ r < n /\ l = n * k + r
    BY <1>1
  <1>3. \A i \in 0..n : b[i] = i * k + Smaller(i, r)
    BY DEF ChunkEnd
  <1>b. DOMAIN b = 0..n /\ b = [i \in 0..n |-> b[i]]
    BY DEF ChunkEnd
  <1>c. \A i \in 1..n : Chunk(lst, n, i) = SubSeq(lst,
            (i - 1) * k + Smaller(i - 1, r) + 1, i * k + Smaller(i, r))
    BY DEF Chunk
  <1> HIDE DEF b, k, r, l
  <1>4. \A i \in 0..n : i * k \in Nat
    BY <1>2
  <1>5. \A i \in 0..n : b[i] \in Nat
    BY <1>2, <1>3, <1>4 DEF Smaller
  <1>6. b[0] = 0 /\ b[n] = l
    <2>1. 0 * k = 0
      BY <1>2
    <2> QED BY <1>2, <1>3, <2>1 DEF Smaller
  <1>7. \A i \in 1..n : i - 1 \in 0..n /\ i * k = (i - 1) * k + k
    BY <1>2
  <1>8. ASSUME NEW i \in 1..n
        PROVE  b[i - 1] <= b[i]
    <2>1. /\ b[i - 1] = (i - 1) * k + Smaller(i - 1, r)
          /\ b[i] = i * k + Smaller(i, r)
          /\ (i - 1) * k \in Nat /\ i * k = (i - 1) * k + k
      BY <1>3, <1>4, <1>7
    <2>2. Smaller(i - 1, r) <= Smaller(i, r)
          /\ Smaller(i - 1, r) \in Nat /\ Smaller(i, r) \in Nat
      BY <1>2 DEF Smaller
    <2> QED BY <1>2, <2>1, <2>2
  <1>9. ASSUME NEW i \in 1..n
        PROVE  b[i] <= l
    <2>1. i * k <= n * k
      BY <1>2
    <2>2. Smaller(i, r) <= r /\ Smaller(i, r) \in Nat /\ i * k \in Nat
          /\ n * k \in Nat /\ b[i] = i * k + Smaller(i, r)
      BY <1>2, <1>3, <1>4 DEF Smaller
    <2> QED BY <1>2, <2>1, <2>2
  <1>10. \A i \in 1..n : Chunk(lst, n, i) = SubSeq(lst, b[i - 1] + 1, b[i])
    BY <1>3, <1>7, <1>c
  <1>11. Cuts(b, n, l)
    BY <1>5, <1>6, <1>8, <1>9, <1>b DEF Cuts
  <1> QED BY <1>10, <1>11 DEF b, l

(* A piece between two cuts.                                                *)
LEMMA PieceOf ==
  ASSUME NEW T, NEW lst \in Seq(T), NEW m \in Nat, NEW n \in Nat,
         m <= n, n <= Len(lst)
  PROVE  /\ SubSeq(lst, m + 1, n) \in Seq(T)
         /\ Len(SubSeq(lst, m + 1, n)) = n - m
         /\ \A j \in 1..(n - m) : SubSeq(lst, m + 1, n)[j] = lst[m + j]
  <1>1. Len(lst) \in Nat /\ \A i \in 1..Len(lst) : lst[i] \in T
    OBVIOUS
  <1>2. \A j \in 1..(n - m) : m + j \in 1..Len(lst)
    BY <1>1
  <1> QED BY <1>1, <1>2

LEMMA PieceOfNats ==
  \A lst \in Seq(Nat), m, n \in Nat :
      m <= n /\ n <= Len(lst) =>
          /\ Len(SubSeq(lst, m + 1, n)) = n - m
          /\ \A j \in 1..(n - m) : SubSeq(lst, m + 1, n)[j] = lst[m + j]
  BY PieceOf

LEMMA ShareCuts ==
  ASSUME NEW T, NEW lst \in Seq(T)
  PROVE  /\ Cuts(ShareEnd(lst), NServers, Len(lst))
         /\ \A i \in 1..NServers :
               /\ ServerChunk(lst, i) \in Seq(T)
               /\ ServerChunk(lst, i) = SubSeq(lst, ShareEnd(lst)[i - 1] + 1,
                                               ShareEnd(lst)[i])
  <1> DEFINE l == Len(lst)
             size == Share(lst)
             b == ShareEnd(lst)
  <1>0. NServers \in Nat \ {0}
    BY SizeAssumption
  <1>1. l \in Nat
    OBVIOUS
  <1>2. size \in Nat /\ NServers * size >= l
    <2> DEFINE t == l + NServers - 1
    <2>1. t \in Nat
      BY <1>0, <1>1
    <2>2. /\ t \div NServers \in Nat /\ t % NServers \in 0..(NServers - 1)
          /\ t = NServers * (t \div NServers) + (t % NServers)
      <3> HIDE DEF t
      <3> QED BY <1>0, <2>1
    <2>3. size = t \div NServers
      BY DEF Share
    <2>4. t = l + NServers - 1
      OBVIOUS
    <2> HIDE DEF size, t
    <2>5. PICK m \in 0..(NServers - 1) : t = NServers * size + m
      BY <2>2, <2>3
    <2>6. size \in Nat /\ NServers * size \in Nat
      <3>1. size \in Nat
        BY <2>2, <2>3
      <3> QED BY <1>0, <3>1
    <2>7. NServers * size >= l
      <3> HIDE DEF l
      <3> QED BY <1>0, <1>1, <2>4, <2>5, <2>6
    <2> QED BY <2>6, <2>7
  <1>3. \A i \in 0..NServers : b[i] = Smaller(i * size, l)
    BY DEF ShareEnd
  <1>b. DOMAIN b = 0..NServers /\ b = [i \in 0..NServers |-> b[i]]
    BY DEF ShareEnd
  <1>c. \A i \in 1..NServers : ServerChunk(lst, i) =
            SubSeq(lst, (i - 1) * size + 1, Smaller(i * size, l))
    BY DEF ServerChunk, Share
  <1> HIDE DEF b, size, l
  <1>4. \A i \in 0..NServers : i * size \in Nat
    BY <1>2
  <1>5. \A i \in 0..NServers : b[i] \in Nat /\ b[i] <= l
    BY <1>1, <1>3, <1>4 DEF Smaller
  <1>6. b[0] = 0 /\ b[NServers] = l
    <2>1. 0 * size = 0
      BY <1>2
    <2> QED BY <1>0, <1>1, <1>2, <1>3, <2>1 DEF Smaller
  <1>7. ASSUME NEW i \in 1..NServers
        PROVE  /\ i - 1 \in 0..NServers /\ i \in 0..NServers
               /\ i * size = (i - 1) * size + size
    <2>1. size \in Nat /\ i \in Nat
      BY <1>2
    <2>2. i * size = (i - 1) * size + size
      BY <2>1
    <2> QED BY <1>0, <2>2
  <1>8. ASSUME NEW i \in 1..NServers
        PROVE  b[i - 1] <= b[i]
    <2>1. /\ b[i - 1] = Smaller((i - 1) * size, l)
          /\ b[i] = Smaller(i * size, l)
          /\ (i - 1) * size \in Nat /\ i * size = (i - 1) * size + size
      BY <1>3, <1>4, <1>7
    <2> DEFINE x == (i - 1) * size
               y == i * size
    <2>4. b[i - 1] = Smaller(x, l) /\ b[i] = Smaller(y, l)
      BY <2>1
    <2>2. x \in Nat /\ y = x + size
      BY <2>1
    <2> HIDE DEF x, y
    <2>3. x <= y /\ y \in Nat
      <3>1. size \in Nat
        BY <1>2
      <3> QED BY <2>2, <3>1
    <2> QED BY <1>1, <2>2, <2>3, <2>4 DEF Smaller
  <1>9. Cuts(b, NServers, l)
    BY <1>0, <1>5, <1>6, <1>7, <1>8, <1>b DEF Cuts
  <1>10. ASSUME NEW i \in 1..NServers
         PROVE  /\ ServerChunk(lst, i) \in Seq(T)
                /\ ServerChunk(lst, i) = SubSeq(lst, b[i - 1] + 1, b[i])
    <2>1. ServerChunk(lst, i) = SubSeq(lst, (i - 1) * size + 1, b[i])
      BY <1>3, <1>c
    <2> DEFINE x == (i - 1) * size
    <2>4. x \in Nat /\ b[i - 1] = Smaller(x, l)
      BY <1>3, <1>4, <1>7
    <2>5. ServerChunk(lst, i) = SubSeq(lst, x + 1, b[i])
      BY <2>1
    <2>6. /\ b[i - 1] \in Nat /\ b[i] \in Nat /\ b[i - 1] <= b[i]
          /\ b[i] <= Len(lst)
      BY <1>5, <1>7, <1>8 DEF l
    <2> HIDE DEF x
    <2>2. CASE x <= l
      <3>1. b[i - 1] = x
        BY <1>1, <2>2, <2>4 DEF Smaller
      <3>2. ServerChunk(lst, i) = SubSeq(lst, b[i - 1] + 1, b[i])
        BY <2>5, <3>1, Zenon
      <3>3. SubSeq(lst, b[i - 1] + 1, b[i]) \in Seq(T)
        BY <2>6, PieceOf
      <3> QED BY <3>2, <3>3, Zenon
    <2>3. CASE ~ (x <= l)
      <3>1. b[i - 1] = l
        BY <1>1, <2>3, <2>4 DEF Smaller
      <3>2. b[i] = l
        BY <1>1, <2>6, <3>1 DEF l
      <3>3. SubSeq(lst, x + 1, b[i]) = << >>
        <4>1. SubSeq(lst, x + 1, l) = << >>
          BY <1>1, <2>3, <2>4
        <4> QED BY <3>2, <4>1
      <3>4. SubSeq(lst, b[i - 1] + 1, b[i]) = << >>
        BY <1>1, <3>1, <3>2
      <3>5. ServerChunk(lst, i) = << >>
        BY <2>5, <3>3, Zenon
      <3>6. << >> \in Seq(T)
        OBVIOUS
      <3> QED BY <3>4, <3>5, <3>6, Zenon
    <2> QED BY <2>2, <2>3
  <1> QED BY <1>9, <1>10 DEF b, l

-----------------------------------------------------------------------------
(* Answers to the pieces of lst, put one after the other, answer lst.       *)
AnAnswer == [of : Nat, by : SUBSET Version]

Placed(f, ss, n, b) ==
    /\ f \in Seq(AnAnswer) /\ Len(f) = b[n]
    /\ \A i \in 1..n, j \in Nat \ {0} :
           j <= Len(ss[i]) => /\ b[i - 1] + j \in 1..b[n]
                              /\ f[b[i - 1] + j] = ss[i][j]
    /\ \A x \in 1..b[n] : \E i \in 1..n, j \in Nat \ {0} :
           j <= Len(ss[i]) /\ x = b[i - 1] + j

LEMMA AnswersPlaced ==
  ASSUME NEW n \in Nat \ {0}, NEW ss \in Seq(Seq(AnAnswer)), Len(ss) = n,
         NEW b, Ends(ss, n, b)
  PROVE  Placed(FlattenSeq(ss), ss, n, b)
  BY FlattenPlaces DEF Placed

LEMMA PiecesSpell ==
  ASSUME NEW n \in Nat \ {0}, NEW lst \in Seq(Nat),
         NEW b, Cuts(b, n, Len(lst)),
         NEW ss \in Seq(Answered), Len(ss) = n,
         \A i \in 1..n : Spells(ss[i], SubSeq(lst, b[i - 1] + 1, b[i]))
  PROVE  /\ Spells(FlattenSeq(ss), lst)
         /\ \A v : (\A i \in 1..n : By(ss[i], v)) => By(FlattenSeq(ss), v)
  <1>1. ASSUME NEW i \in 1..n
        PROVE  /\ b[i - 1] \in Nat /\ b[i] \in Nat
               /\ ss[i] \in Answered /\ Len(ss[i]) = b[i] - b[i - 1]
               /\ \A j \in 1..Len(ss[i]) : ss[i][j].of = lst[b[i - 1] + j]
    <2>1. /\ b[i - 1] \in Nat /\ b[i] \in Nat /\ b[i - 1] <= b[i]
          /\ b[i] <= Len(lst)
      BY DEF Cuts
    <2>2. /\ Len(SubSeq(lst, b[i - 1] + 1, b[i])) = b[i] - b[i - 1]
          /\ \A j \in 1..(b[i] - b[i - 1]) :
                 SubSeq(lst, b[i - 1] + 1, b[i])[j] = lst[b[i - 1] + j]
      <3>1. PICK m \in Nat, k \in Nat : m = b[i - 1] /\ k = b[i]
        BY <2>1
      <3>2. /\ Len(SubSeq(lst, m + 1, k)) = k - m
            /\ \A j \in 1..(k - m) : SubSeq(lst, m + 1, k)[j] = lst[m + j]
        <4>1. m <= k /\ k <= Len(lst)
          BY <2>1, <3>1
        <4> QED BY <4>1, PieceOfNats, Zenon
      <3> QED BY <3>1, <3>2, Zenon
    <2>3. /\ ss[i] \in Answered
          /\ Len(ss[i]) = Len(SubSeq(lst, b[i - 1] + 1, b[i]))
          /\ \A j \in 1..Len(SubSeq(lst, b[i - 1] + 1, b[i])) :
                 ss[i][j].of = SubSeq(lst, b[i - 1] + 1, b[i])[j]
      BY DEF Spells
    <2> QED BY <2>1, <2>2, <2>3
  <1>2. Ends(ss, n, b)
    <2>1. b \in [0..n -> Nat] /\ b[0] = 0
      BY DEF Cuts
    <2>2. \A i \in 1..n : b[i] = b[i - 1] + Len(ss[i])
      BY <1>1
    <2> QED BY <2>1, <2>2 DEF Ends
  <1>3. ss \in Seq(Seq(AnAnswer))
    BY DEF Answered, AnAnswer
  <1> DEFINE f == FlattenSeq(ss)
  <1>p. Placed(f, ss, n, b)
    BY <1>2, <1>3, AnswersPlaced
  <1>4. /\ f \in Seq(AnAnswer) /\ Len(f) = b[n]
        /\ \A i \in 1..n, j \in Nat \ {0} :
                j <= Len(ss[i]) => /\ b[i - 1] + j \in 1..b[n]
                                   /\ f[b[i - 1] + j] = ss[i][j]
        /\ \A x \in 1..b[n] : \E i \in 1..n, j \in Nat \ {0} :
                j <= Len(ss[i]) /\ x = b[i - 1] + j
    BY <1>p, Zenon DEF Placed
  <1>5. b[n] = Len(lst)
    BY DEF Cuts
  <1> HIDE DEF f
  <1>6. ASSUME NEW x \in 1..Len(lst)
        PROVE  \E i \in 1..n : \E j \in 1..Len(ss[i]) :
                   f[x] = ss[i][j] /\ f[x].of = lst[x]
    <2>1. PICK i \in 1..n, j \in Nat \ {0} :
              j <= Len(ss[i]) /\ x = b[i - 1] + j
      BY <1>4, <1>5
    <2>2. j \in 1..Len(ss[i])
      BY <1>1, <2>1
    <2>3. f[x] = ss[i][j]
      BY <1>4, <2>1
    <2>4. ss[i][j].of = lst[x]
      BY <1>1, <2>1, <2>2
    <2> QED BY <2>2, <2>3, <2>4
  <1>7. Spells(f, lst)
    <2>1. f \in Answered /\ Len(f) = Len(lst)
      BY <1>4, <1>5 DEF Answered, AnAnswer
    <2> QED BY <1>6, <2>1 DEF Spells
  <1>8. ASSUME NEW v, \A i \in 1..n : By(ss[i], v)
        PROVE  By(f, v)
    <2>1. ASSUME NEW x \in 1..Len(f)
          PROVE  f[x].by = {v}
      <3>0. x \in 1..Len(lst)
        BY <1>4, <1>5
      <3>1. PICK i \in 1..n : \E j \in 1..Len(ss[i]) : f[x] = ss[i][j]
        BY <1>6, <3>0
      <3> QED BY <1>8, <3>1 DEF By
    <2> QED BY <2>1 DEF By
  <1> QED BY <1>7, <1>8 DEF f

(* The engines of a server,                                                 *)
LEMMA EnginesAre ==
  /\ \A s \in Servers, w \in 1..NWorkers :
         /\ <<s, w>> \in Engines /\ <<s, w>>[1] = s /\ <<s, w>>[2] = w
         /\ <<s, w>> \in EnginesOf(s)
  /\ \A e \in Engines : /\ e[1] \in Servers /\ e[2] \in 1..NWorkers
                        /\ e = <<e[1], e[2]>>
  /\ \A s \in Servers : \A e \in EnginesOf(s) : e \in Engines /\ e[1] = s
  BY DEF Engines, EnginesOf

(* what they are asked,                                                     *)
LEMMA RequestsTyped ==
  ASSUME asked \in Seq(Nat), NEW s \in Servers, NEW w \in 1..NWorkers
  PROVE  /\ EngineRequests(s, w) \in Seq(Nat)
         /\ Chunk(ServerChunk(asked, s), NWorkers, w) \in Seq(Nat)
         /\ Chunk(ServerChunk(asked, s), NWorkers, w) # << >> =>
                EngineRequests(s, w) = Chunk(ServerChunk(asked, s), NWorkers, w)
  <1> DEFINE lst == ServerChunk(asked, s)
             b == ChunkEnd(lst, NWorkers)
  <1>1. NWorkers \in Nat \ {0}
    BY SizeAssumption
  <1>2. lst \in Seq(Nat)
    BY ShareCuts DEF Servers
  <1>3. /\ Cuts(b, NWorkers, Len(lst))
        /\ Chunk(lst, NWorkers, w) = SubSeq(lst, b[w - 1] + 1, b[w])
    <2>1. PICK l : l = lst
      OBVIOUS
    <2>2. l \in Seq(Nat)
      BY <1>2, <2>1, Zenon
    <2>3. /\ Cuts(ChunkEnd(l, NWorkers), NWorkers, Len(l))
          /\ Chunk(l, NWorkers, w) = SubSeq(l,
               ChunkEnd(l, NWorkers)[w - 1] + 1, ChunkEnd(l, NWorkers)[w])
      BY <1>1, <2>2, ChunkCuts
    <2> QED BY <2>1, <2>3, Zenon
  <1>4. Chunk(lst, NWorkers, w) \in Seq(Nat)
    <2> HIDE DEF lst, b
    <2>1. /\ b[w - 1] \in Nat /\ b[w] \in Nat /\ b[w - 1] <= b[w]
          /\ b[w] <= Len(lst)
      BY <1>1, <1>3 DEF Cuts
    <2>2. SubSeq(lst, b[w - 1] + 1, b[w]) \in Seq(Nat)
      BY <1>2, <2>1, PieceOf
    <2> QED BY <1>3, <2>2, Zenon
  <1>5. <<Placeholder>> \in Seq(Nat)
    BY DEF Placeholder
  <1> HIDE DEF lst
  <1> QED BY <1>4, <1>5 DEF EngineRequests, lst

(* and what a server answers.                                               *)
LEMMA ServerSpells ==
  ASSUME asked \in Seq(Nat), NEW s \in Servers,
         \A w \in 1..NWorkers : <<s, w>> \in Asked(s) =>
             Spells(Head(reply[<<s, w>>]).answers, EngineRequests(s, w))
  PROVE  /\ Spells(Answers(s), ServerChunk(asked, s))
         /\ \A v : (\A w \in 1..NWorkers : <<s, w>> \in Asked(s) =>
                        By(Head(reply[<<s, w>>]).answers, v))
                   => By(Answers(s), v)
  <1> DEFINE lst == ServerChunk(asked, s)
             b == ChunkEnd(lst, NWorkers)
             ss == [w \in 1..NWorkers |->
                      IF <<s, w>> \in Asked(s)
                      THEN Head(reply[<<s, w>>]).answers ELSE << >>]
  <1>1. NWorkers \in Nat \ {0}
    BY SizeAssumption
  <1>2. lst \in Seq(Nat)
    BY ShareCuts DEF Servers
  <1>3. /\ Cuts(b, NWorkers, Len(lst))
        /\ \A w \in 1..NWorkers :
              Chunk(lst, NWorkers, w) = SubSeq(lst, b[w - 1] + 1, b[w])
    BY <1>1, <1>2, ChunkCuts
  <1>4. ASSUME NEW w \in 1..NWorkers
        PROVE  Spells(ss[w], SubSeq(lst, b[w - 1] + 1, b[w]))
    <2>1. <<s, w>> \in Asked(s) <=> Chunk(lst, NWorkers, w) # << >>
      BY EnginesAre DEF Asked
    <2>2. CASE <<s, w>> \in Asked(s)
      <3>1. /\ ss[w] = Head(reply[<<s, w>>]).answers
            /\ EngineRequests(s, w) = Chunk(lst, NWorkers, w)
        BY <2>1, <2>2, RequestsTyped
      <3> QED BY <1>3, <2>2, <3>1
    <2>3. CASE <<s, w>> \notin Asked(s)
      <3>1. ss[w] = << >> /\ SubSeq(lst, b[w - 1] + 1, b[w]) = << >>
        BY <1>3, <2>1, <2>3
      <3>2. Spells(<< >>, << >>)
        BY DEF Spells, Answered
      <3> QED BY <3>1, <3>2
    <2> QED BY <2>2, <2>3
  <1>5. ss \in Seq(Answered) /\ Len(ss) = NWorkers
    <2>1. \A w \in 1..NWorkers : ss[w] \in Answered
      BY <1>4 DEF Spells
    <2>2. ss = [w \in 1..NWorkers |-> ss[w]]
      OBVIOUS
    <2> HIDE DEF ss
    <2>3. ss \in [1..NWorkers -> Answered]
      BY <2>1, <2>2
    <2> QED BY <1>1, <2>3
  <1>6. Answers(s) = FlattenSeq(ss)
    BY DEF Answers
  <1>7. ASSUME NEW v, \A w \in 1..NWorkers : <<s, w>> \in Asked(s) =>
                          By(Head(reply[<<s, w>>]).answers, v)
        PROVE  \A w \in 1..NWorkers : By(ss[w], v)
    <2>1. By(<< >>, v)
      BY DEF By
    <2> QED BY <1>7, <2>1
  <1> HIDE DEF b, ss
  <1>8. /\ Spells(FlattenSeq(ss), lst)
        /\ \A v : (\A w \in 1..NWorkers : By(ss[w], v))
                      => By(FlattenSeq(ss), v)
    <2> HIDE DEF lst
    <2> QED BY <1>1, <1>2, <1>3, <1>4, <1>5, PiecesSpell
  <1> QED BY <1>6, <1>7, <1>8

LEMMA CallSpells ==
  ASSUME asked \in Seq(Nat), part \in [Servers -> Answered],
         \A s \in Servers : Spells(part[s], ServerChunk(asked, s))
  PROVE  /\ Spells(FlattenSeq(part), asked)
         /\ \A v : (\A s \in Servers : By(part[s], v))
                      => By(FlattenSeq(part), v)
  <1> DEFINE b == ShareEnd(asked)
  <1>1. NServers \in Nat \ {0}
    BY SizeAssumption
  <1>2. /\ Cuts(b, NServers, Len(asked))
        /\ \A s \in 1..NServers :
              ServerChunk(asked, s) = SubSeq(asked, b[s - 1] + 1, b[s])
    BY ShareCuts
  <1>3. part \in Seq(Answered) /\ Len(part) = NServers
    BY <1>1 DEF Servers
  <1> HIDE DEF b
  <1>4. \A s \in 1..NServers :
            Spells(part[s], SubSeq(asked, b[s - 1] + 1, b[s]))
    BY <1>2 DEF Servers
  <1> QED BY <1>1, <1>2, <1>3, <1>4, PiecesSpell DEF Servers

-----------------------------------------------------------------------------
(* What an engine's part of the invariant depends on.                       *)
SameCall(e) ==
    /\ UNCHANGED <<client, version, pushed, cpc, at, bucket, asked>>
    /\ th'[e[1]] = th[e[1]] /\ part'[e[1]] = part[e[1]]
    /\ busy'[e[1]] = busy[e[1]]
SameEngine(e) ==
    /\ pipe'[e] = pipe[e] /\ wst'[e] = wst[e] /\ comm'[e] = comm[e]
    /\ weights'[e] = weights[e] /\ cache'[e] = cache[e] /\ reply'[e] = reply[e]

LEMMA Same ==
  ASSUME NEW e \in Engines, EngineInv(e), SameCall(e), SameEngine(e),
         Raised \notin faults' => Raised \notin faults
  PROVE  EngineInv(e)'
  <1> USE DEF SameCall, SameEngine
  <1>1. AtWork(e)' /\ OneReply(e)'
    BY DEF EngineInv, AtWork, OneReply, Waited
  <1>2. Handshake(e)'
    BY DEF EngineInv, Handshake, OwnInit
  <1>3. OnlyOurs(e)'
    <2>1. Joined(e)' <=> Joined(e)
      BY DEF Joined
    <2>2. Rested(e)' <=> Rested(e)
      BY DEF Rested
    <2>3. Requested(e)' = Requested(e)
      BY DEF Requested, EngineRequests, ServerChunk
    <2>4. (Updating(e)' <=> Updating(e)) /\ (Resetting(e)' <=> Resetting(e))
      BY <2>2 DEF Updating, Resetting, Behind, Loading, Push
    <2>5. Inferring(e)' <=> Inferring(e)
      BY <2>2, <2>3 DEF Inferring, ServerChunk
    <2> QED BY <2>1, <2>2, <2>4, <2>5 DEF EngineInv, OnlyOurs
  <1>4. Fresh(e)'
    <2>1. \A n : Loaded(e, n)' <=> Loaded(e, n)
      BY DEF Loaded, Push
    <2> QED BY <2>1 DEF EngineInv, Fresh
  <1> QED BY <1>1, <1>2, <1>3, <1>4 DEF EngineInv

(* Before its engine has joined the client there is little to keep.         *)
LEMMA NotJoined ==
  ASSUME NEW e \in Engines
  PROVE  /\ ~Joined(e) => OnlyOurs(e) /\ Fresh(e)
         /\ ~Joined(e)' => OnlyOurs(e)' /\ Fresh(e)'
  BY DEF Joined, Calling, OnlyOurs, Fresh

LEMMA TailOf ==
  ASSUME NEW T, NEW s \in Seq(T), s # << >>
  PROVE  /\ Tail(s) \in Seq(T) /\ Len(Tail(s)) = Len(s) - 1 /\ Len(s) \in Nat \ {0}
         /\ Head(s) = s[1] /\ s[1] \in T /\ DOMAIN s = 1..Len(s)
         /\ DOMAIN Tail(s) = 1..(Len(s) - 1)
         /\ \A i \in 1..(Len(s) - 1) : Tail(s)[i] = s[i + 1]
  <1>1. Len(s) \in Nat \ {0} /\ DOMAIN s = 1..Len(s) /\ Head(s) = s[1]
    OBVIOUS
  <1>2. Tail(s) \in Seq(T) /\ Len(Tail(s)) = Len(s) - 1
    BY <1>1
  <1>3. \A i \in 1..(Len(s) - 1) : Tail(s)[i] = s[i + 1]
    BY <1>1
  <1> QED BY <1>1, <1>2, <1>3

LEMMA AppendOf ==
  ASSUME NEW T, NEW s \in Seq(T), NEW c \in T
  PROVE  /\ Append(s, c) \in Seq(T) /\ Len(Append(s, c)) = Len(s) + 1
         /\ Len(s) \in Nat /\ DOMAIN s = 1..Len(s)
         /\ DOMAIN Append(s, c) = 1..(Len(s) + 1)
         /\ Append(s, c)[Len(s) + 1] = c
         /\ \A i \in 1..Len(s) : Append(s, c)[i] = s[i]
         /\ Append(s, c) # << >>
         /\ s = << >> => Append(s, c) = <<c>>
  <1>1. Len(s) \in Nat /\ DOMAIN s = 1..Len(s)
    OBVIOUS
  <1>2. Append(s, c) \in Seq(T) /\ Len(Append(s, c)) = Len(s) + 1
    BY <1>1
  <1>3. Append(s, c)[Len(s) + 1] = c
    BY <1>1
  <1>4. ASSUME NEW i \in 1..Len(s)
        PROVE  Append(s, c)[i] = s[i]
    BY <1>1
  <1>5. DOMAIN Append(s, c) = 1..(Len(s) + 1)
    BY <1>2
  <1>6. Append(s, c) # << >>
    BY AppendProperties
  <1>7. s = << >> => Append(s, c) = <<c>>
    OBVIOUS
  <1> QED BY <1>1, <1>2, <1>3, <1>4, <1>5, <1>6, <1>7, Zenon

(* An engine drops the command at the head of its pipe: one that nobody     *)
(* waits for,                                                               *)
LEMMA Dropped ==
  ASSUME NEW e \in Engines, EngineInv(e), SameCall(e), pipe[e] \in Seq(Commands),
         pipe[e] # << >>, ~Waited(pipe[e][1]),
         pipe'[e] = Tail(pipe[e]), wst'[e] = "idle", reply'[e] = reply[e]
  PROVE  AtWork(e)' /\ OneReply(e)' /\ Handshake(e)'
  <1> DEFINE p == pipe[e]
             l == Len(p)
  <1>1. /\ l \in Nat \ {0} /\ DOMAIN p = 1..l
        /\ DOMAIN Tail(p) = 1..(l - 1) /\ Len(Tail(p)) = l - 1
        /\ \A i \in 1..(l - 1) : Tail(p)[i] = p[i + 1]
    BY TailOf
  <1>2. pipe'[e] = Tail(p)
    OBVIOUS
  <1> HIDE DEF l
  <1>3. AtWork(e)'
    BY DEF AtWork
  <1>4. OneReply(e)'
    <2>1. CASE busy[e[1]] = Free
      <3>1. reply[e] = << >> /\ \A i \in 1..l : ~Waited(p[i])
        BY <1>1, <2>1 DEF EngineInv, OneReply
      <3>2. \A i \in 1..(l - 1) : ~Waited(Tail(p)[i])
        BY <1>1, <3>1
      <3> QED BY <1>1, <1>2, <2>1, <3>1, <3>2 DEF OneReply, SameCall, Waited
    <2>2. CASE busy[e[1]] # Free
      <3>1. /\ reply[e] = << >>
            /\ \A i \in 1..l : Waited(p[i]) <=> i = l
        BY <1>1, <2>2 DEF EngineInv, OneReply, l
      <3>2. l # 1
        BY <1>1, <3>1
      <3>3. \A i \in 1..(l - 1) : Waited(Tail(p)[i]) <=> i = l - 1
        BY <1>1, <3>1
      <3>4. Tail(p) # << >>
        <4>1. PICK q : q = Tail(p) /\ Len(q) = l - 1
          BY <1>1
        <4>2. q # << >>
          <5>1. l \in Nat \ {0}
            BY <1>1
          <5>2. Len(<< >>) = 0
            OBVIOUS
          <5>3. Len(q) # 0
            BY <3>2, <4>1, <5>1
          <5> QED BY <5>2, <5>3, Zenon
        <4> QED BY <4>1, <4>2, Zenon
      <3>5. busy'[e[1]] # Free /\ reply'[e] = << >> /\ pipe'[e] # << >>
        BY <1>2, <2>2, <3>1, <3>4 DEF SameCall
      <3>6. \A i \in DOMAIN pipe'[e] :
                Waited(pipe'[e][i]) <=> i = Len(pipe'[e])
        BY <1>1, <1>2, <3>3
      <3> QED BY <3>5, <3>6 DEF OneReply, Waited
    <2> QED BY <2>1, <2>2
  <1>5. Handshake(e)'
    <2>1. \A i \in 1..(l - 1) : pipe'[e][i] = p[i + 1] /\ i + 1 \in 1..l
      BY <1>1, <1>2
    <2>2. DOMAIN pipe'[e] = 1..(l - 1) /\ DOMAIN p = 1..l /\ Len(p) = l
          /\ Len(pipe'[e]) = l - 1
      BY <1>1, <1>2 DEF l
    <2> HIDE DEF p
    <2>3. OwnInit(e) = {i \in DOMAIN p : p[i].type = "init" /\ p[i].client = client}
      BY DEF OwnInit, p
    <2>4. OwnInit(e)' = {i \in 1..(l - 1) : p[i + 1].type = "init"
                                                /\ p[i + 1].client = client}
      BY <2>1, <2>2 DEF OwnInit, SameCall
    <2>5. OwnInit(e) = {} => OwnInit(e)' = {}
      BY <2>1, <2>2, <2>3, <2>4
    <2>6. OwnInit(e) \subseteq {l} => OwnInit(e)' \subseteq {l - 1}
      BY <1>1, <2>1, <2>2, <2>3, <2>4
    <2>7. \A i \in 1..(l - 1) :
              pipe'[e][i].type = "init" => pipe'[e][i].client <= client
      BY <2>1, <2>2 DEF EngineInv, Handshake, p
    <2> QED BY <2>2, <2>5, <2>6, <2>7 DEF EngineInv, Handshake, SameCall, p
  <1> QED BY <1>3, <1>4, <1>5

(* one it replies to,                                                       *)
LEMMA RepliedTo ==
  ASSUME NEW e \in Engines, EngineInv(e), SameCall(e), pipe[e] \in Seq(Commands),
         pipe[e] # << >>, Waited(pipe[e][1]), wst[e] = "idle",
         NEW r, pipe'[e] = Tail(pipe[e]), wst'[e] = "idle",
         reply'[e] = Append(reply[e], r)
  PROVE  /\ AtWork(e)' /\ OneReply(e)' /\ Handshake(e)'
         /\ pipe'[e] = << >> /\ reply'[e] = <<r>> /\ busy[e[1]] # Free
         /\ reply[e] = << >> /\ Len(pipe[e]) = 1
  <1>0. /\ DOMAIN pipe[e] = 1..Len(pipe[e]) /\ Len(pipe[e]) \in Nat \ {0}
        /\ Len(Tail(pipe[e])) = Len(pipe[e]) - 1
        /\ Tail(pipe[e]) \in Seq(Commands)
    BY TailOf
  <1>1. busy[e[1]] # Free /\ reply[e] = << >> /\ Len(pipe[e]) = 1
    <2>1. 1 \in DOMAIN pipe[e]
      BY <1>0
    <2>2. busy[e[1]] # Free
      BY <2>1 DEF EngineInv, OneReply
    <2>3. /\ reply[e] = << >>
          /\ \A i \in DOMAIN pipe[e] : Waited(pipe[e][i]) <=> i = Len(pipe[e])
      BY <2>2 DEF EngineInv, OneReply
    <2> QED BY <2>1, <2>2, <2>3
  <1>2. pipe'[e] = << >>
    <2>1. PICK q : q = Tail(pipe[e]) /\ Len(q) = Len(pipe[e]) - 1
                  /\ q \in Seq(Commands)
      BY <1>0, Zenon
    <2>2. Len(q) = 0
      BY <1>1, <2>1
    <2>3. q = << >>
      BY <2>1, <2>2
    <2> QED BY <2>1, <2>3, Zenon
  <1>3. reply'[e] = <<r>>
    BY <1>1
  <1>4. AtWork(e)'
    BY DEF AtWork
  <1>5. OneReply(e)'
    <2>1. Len(<<r>>) = 1
      OBVIOUS
    <2>2. Len(reply'[e]) = 1
      BY <1>3, <2>1, Zenon
    <2> QED BY <1>1, <1>2, <2>2 DEF OneReply, SameCall
  <1>6. Handshake(e)'
    <2>1. DOMAIN pipe'[e] = {}
      <3>1. DOMAIN << >> = {}
        OBVIOUS
      <3> QED BY <1>2, <3>1, Zenon
    <2>2. OwnInit(e)' = {}
      BY <2>1 DEF OwnInit
    <2> QED BY <2>1, <2>2 DEF EngineInv, Handshake, SameCall
  <1> QED BY <1>1, <1>2, <1>3, <1>4, <1>5, <1>6

(* What a command put on the pipe of an engine is behind of.                *)
LEMMA Appended ==
  ASSUME NEW e \in Engines, EngineInv(e), pipe[e] \in Seq(Commands),
         NEW c \in Commands, pipe'[e] = Append(pipe[e], c),
         wst'[e] = wst[e], reply'[e] = reply[e], busy[e[1]] = Free,
         busy'[e[1]] = Free <=> ~Waited(c)
  PROVE  /\ AtWork(e)' /\ OneReply(e)'
         /\ c.type # "init" /\ client' = client => OwnInit(e)' = OwnInit(e)
         /\ client' = client => OwnInit(e)' \subseteq OwnInit(e) \cup {Len(pipe'[e])}
         /\ (c.type = "init" => c.client <= client)
            => \A i \in DOMAIN pipe'[e] :
                   pipe'[e][i].type = "init" => pipe'[e][i].client <= client
  <1> DEFINE p == pipe[e]
             q == Append(p, c)
             l == Len(p)
  <1>1. /\ l \in Nat /\ DOMAIN p = 1..l /\ Len(q) = l + 1 /\ DOMAIN q = 1..(l + 1)
        /\ q[l + 1] = c /\ q # << >>
        /\ \A i \in 1..l : q[i] = p[i]
        /\ p # << >> => q[1] = p[1]
    <2>1. /\ l \in Nat /\ DOMAIN p = 1..l /\ Len(q) = l + 1
          /\ DOMAIN q = 1..(l + 1) /\ q[l + 1] = c /\ q # << >>
          /\ \A i \in 1..l : q[i] = p[i]
      BY AppendOf
    <2>2. p # << >> => 1 \in 1..l
      BY TailOf
    <2> QED BY <2>1, <2>2, Zenon
  <1>2. pipe'[e] = q
    OBVIOUS
  <1>3. AtWork(e)'
    BY <1>1, <1>2 DEF EngineInv, AtWork
  <1> HIDE DEF q, l
  <1>4. OneReply(e)'
    <2>1. reply'[e] = << >> /\ \A i \in 1..l : ~Waited(p[i])
      BY <1>1 DEF EngineInv, OneReply
    <2>2. \A i \in 1..(l + 1) : i \in 1..l \/ i = l + 1
      BY <1>1
    <2>3. \A i \in 1..l : i # l + 1
      BY <1>1
    <2>4. \A i \in 1..(l + 1) : Waited(q[i]) <=> Waited(c) /\ i = l + 1
      BY <1>1, <2>1, <2>2, <2>3
    <2>5. CASE Waited(c)
      <3>1. busy'[e[1]] # Free
        BY <2>5
      <3>2. \A i \in 1..(l + 1) : Waited(q[i]) <=> i = l + 1
        BY <2>4, <2>5
      <3> QED BY <1>1, <1>2, <2>1, <3>1, <3>2 DEF OneReply, Waited
    <2>6. CASE ~Waited(c)
      <3>1. busy'[e[1]] = Free
        BY <2>6
      <3>2. \A i \in 1..(l + 1) : ~Waited(q[i])
        BY <2>4, <2>6
      <3> QED BY <1>1, <1>2, <2>1, <3>1, <3>2 DEF OneReply, Waited
    <2> QED BY <2>5, <2>6
  <1>5. \A i \in DOMAIN q : \/ i \in DOMAIN p /\ q[i] = p[i]
                            \/ i = l + 1 /\ q[i] = c
    <2>1. \A i \in 1..(l + 1) : i \in 1..l \/ i = l + 1
      BY <1>1
    <2> QED BY <1>1, <2>1
  <1>6. DOMAIN p \subseteq DOMAIN q /\ \A i \in DOMAIN p : q[i] = p[i]
    BY <1>1
  <1>7. c.type # "init" /\ client' = client => OwnInit(e)' = OwnInit(e)
    BY <1>2, <1>5, <1>6 DEF OwnInit
  <1>8. client' = client => OwnInit(e)' \subseteq OwnInit(e) \cup {Len(pipe'[e])}
    BY <1>1, <1>2, <1>5 DEF OwnInit
  <1>9. (c.type = "init" => c.client <= client)
            => \A i \in DOMAIN pipe'[e] :
                   pipe'[e][i].type = "init" => pipe'[e][i].client <= client
    BY <1>2, <1>5 DEF EngineInv, Handshake
  <1> QED BY <1>3, <1>4, <1>7, <1>8, <1>9

(* The forms of an engine that has joined the client.                       *)
LEMMA Short ==
  /\ \A x : /\ <<x>> # << >> /\ <<x>>[1] = x /\ Tail(<<x>>) = << >>
            /\ Head(<<x>>) = x /\ Len(<<x>>) = 1
  /\ \A x, y : /\ <<x, y>> # << >> /\ <<x, y>>[1] = x /\ Tail(<<x, y>>) = <<y>>
               /\ Head(<<x, y>>) = x /\ Len(<<x, y>>) = 2
  OBVIOUS

LEMMA Pair ==
  ASSUME NEW p, NEW x, NEW y, p = <<x, y>>
  PROVE  p # << >> /\ p[1] = x /\ Tail(p) = <<y>>
  BY Short

LEMMA Pairs ==
  \A p, x, y : p = <<x, y>> => p # << >> /\ p[1] = x /\ Tail(p) = <<y>>
  BY Pair

LEMMA Singles ==
  \A p, x : p = <<x>> => p # << >> /\ p[1] = x /\ Tail(p) = << >>
  BY Short, Zenon

LEMMA JoinedForms ==
  ASSUME NEW e \in Engines, Types, ThreadsLive, EngineInv(e), Joined(e)
  PROVE  /\ comm[e] = client
         /\ \/ Rested(e)
            \/ /\ cpc = "update" /\ th[e[1]] = "wait"
               /\ pipe[e] = <<Push(bucket)>> /\ wst[e] \in {"idle", "recv"}
            \/ /\ cpc \in {"update", "reset"} /\ wst[e] = "load"
               /\ \E n \in Buckets : /\ pipe[e] # << >> /\ pipe[e][1] = Push(n)
                                     /\ Tail(pipe[e]) \in
                                          {<< >>, <<Push(bucket)>>, <<Reset>>}
            \/ /\ cpc = "reset" /\ th[e[1]] = "wait"
               /\ pipe[e] = <<Reset>> /\ wst[e] = "idle"
            \/ /\ cpc = "infer" /\ th[e[1]] = "wait"
               /\ pipe[e] = <<Infer(Requested(e))>> /\ wst[e] = "idle"
  <1> DEFINE Mid == /\ cpc \in {"update", "reset"} /\ wst[e] = "load"
                    /\ \E n \in Buckets :
                           /\ pipe[e] # << >> /\ pipe[e][1] = Push(n)
                           /\ Tail(pipe[e]) \in
                                {<< >>, <<Push(bucket)>>, <<Reset>>}
  <1> SUFFICES /\ comm[e] = client
               /\ \/ Rested(e)
                  \/ /\ cpc = "update" /\ th[e[1]] = "wait"
                     /\ pipe[e] = <<Push(bucket)>> /\ wst[e] \in {"idle", "recv"}
                  \/ Mid
                  \/ /\ cpc = "reset" /\ th[e[1]] = "wait"
                     /\ pipe[e] = <<Reset>> /\ wst[e] = "idle"
                  \/ /\ cpc = "infer" /\ th[e[1]] = "wait"
                     /\ pipe[e] = <<Infer(Requested(e))>> /\ wst[e] = "idle"
    OBVIOUS
  <1> HIDE DEF Mid
  <1>1. e[1] \in Servers
    BY EnginesAre
  <1>2. comm[e] = client
    BY DEF EngineInv, OnlyOurs
  <1>3. bucket \in Nat /\ bucket <= NBuckets /\ NBuckets \in Nat \ {0}
        /\ Buckets = 1..NBuckets
    BY SizeAssumption DEF Types, Buckets
  <1>4. cpc \in Calling => th[e[1]] \in {"post", "failed", "wait", "done"}
    BY <1>1 DEF ThreadsLive, Types, ThreadStates
  <1>5. ASSUME cpc \in {"update", "reset"},
               NEW n \in Int, n <= NBuckets, Behind(e, n)
        PROVE  Rested(e) \/ Mid
    <2>1. CASE Rested(e)
      BY <2>1
    <2>2. CASE n > 0 /\ Loading(e, n)
      <3>1. n \in Buckets
        BY <1>3, <1>5, <2>2
      <3>2. wst[e] = "load" /\ pipe[e] = <<Push(n)>>
        BY <2>2 DEF Loading
      <3>3. pipe[e] # << >> /\ pipe[e][1] = Push(n) /\ Tail(pipe[e]) = << >>
        BY <3>2, Short, Zenon
      <3> QED BY <1>5, <3>1, <3>2, <3>3 DEF Mid
    <2> QED BY <1>5, <2>1, <2>2 DEF Behind
  <1>6. CASE cpc = "update"
    <2>1. Updating(e)
      BY <1>6 DEF EngineInv, OnlyOurs
    <2>2. CASE th[e[1]] \in {"post", "failed"}
      <3>1. Behind(e, bucket - 1)
        BY <2>1, <2>2 DEF Updating
      <3>2. bucket - 1 \in Int /\ bucket - 1 <= NBuckets
        BY <1>3
      <3> QED BY <1>2, <1>5, <1>6, <3>1, <3>2
    <2>3. CASE th[e[1]] = "wait"
      <3>1. CASE pipe[e] = <<Push(bucket)>> /\ wst[e] \in {"idle", "recv"}
        BY <1>2, <1>6, <2>3, <3>1
      <3>2. CASE /\ bucket > 1 /\ wst[e] = "load"
                 /\ pipe[e] = <<Push(bucket - 1), Push(bucket)>>
        <4>1. bucket - 1 \in Buckets
          BY <1>3, <3>2
        <4>2. /\ pipe[e] # << >> /\ pipe[e][1] = Push(bucket - 1)
              /\ Tail(pipe[e]) = <<Push(bucket)>>
          <5>1. pipe[e] = <<Push(bucket - 1), Push(bucket)>>
            BY <3>2, Zenon
          <5>2. \A x, y : pipe[e] = <<x, y>> =>
                    /\ pipe[e] # << >> /\ pipe[e][1] = x
                    /\ Tail(pipe[e]) = <<y>>
            BY Pairs, Zenon
          <5> QED BY <5>1, <5>2, Zenon
        <4>3. \E n \in Buckets :
                  /\ pipe[e] # << >> /\ pipe[e][1] = Push(n)
                  /\ Tail(pipe[e]) \in {<< >>, <<Push(bucket)>>, <<Reset>>}
          BY <4>1, <4>2, Zenon
        <4>4. Mid
          BY <1>6, <3>2, <4>3 DEF Mid
        <4> QED BY <1>2, <4>4, Zenon
      <3> QED BY <2>1, <2>3, <3>1, <3>2 DEF Updating
    <2>4. CASE th[e[1]] = "done"
      BY <1>2, <1>3, <1>5, <1>6, <2>1, <2>4 DEF Updating
    <2> QED BY <1>4, <1>6, <2>2, <2>3, <2>4 DEF Calling
  <1>7. CASE cpc = "reset"
    <2>1. Resetting(e)
      BY <1>7 DEF EngineInv, OnlyOurs
    <2>2. CASE th[e[1]] \in {"post", "failed"}
      <3>1. Behind(e, NBuckets)
        BY <2>1, <2>2 DEF Resetting
      <3>2. NBuckets \in Int /\ NBuckets <= NBuckets
        BY <1>3
      <3> QED BY <1>2, <1>5, <1>7, <3>1, <3>2
    <2>3. CASE th[e[1]] = "wait"
      <3>1. CASE pipe[e] = <<Push(NBuckets), Reset>> /\ wst[e] = "load"
        <4>1. /\ pipe[e] # << >> /\ pipe[e][1] = Push(NBuckets)
              /\ Tail(pipe[e]) = <<Reset>>
          BY <3>1, Pair, Zenon
        <4>2. NBuckets \in Buckets
          BY <1>3
        <4>3. \E n \in Buckets :
                  /\ pipe[e] # << >> /\ pipe[e][1] = Push(n)
                  /\ Tail(pipe[e]) \in {<< >>, <<Push(bucket)>>, <<Reset>>}
          BY <4>1, <4>2, Zenon
        <4>4. Mid
          BY <1>7, <3>1, <4>3 DEF Mid
        <4> QED BY <1>2, <4>4, Zenon
      <3> QED BY <1>2, <1>7, <2>1, <2>3, <3>1 DEF Resetting
    <2>4. CASE th[e[1]] = "done"
      BY <1>2, <2>1, <2>4 DEF Resetting
    <2> QED BY <1>4, <1>7, <2>2, <2>3, <2>4 DEF Calling
  <1>8. CASE cpc = "infer"
    <2>1. Inferring(e)
      BY <1>8 DEF EngineInv, OnlyOurs
    <2> QED BY <1>2, <1>4, <1>8, <2>1 DEF Inferring, Rested, Calling
  <1>9. CASE cpc \notin Calling
    BY <1>2, <1>9 DEF EngineInv, OnlyOurs, Calling
  <1> QED BY <1>6, <1>7, <1>8, <1>9 DEF Calling

(* An engine's step leaves the other engines and the client alone.          *)
OnlyEngines == UNCHANGED <<client, version, pushed, main, busy>>
EngineFrame(d) ==
    /\ OnlyEngines
    /\ \A e \in Engines : e # d => SameEngine(e)
    /\ Raised \notin faults' => Raised \notin faults

LEMMA OneEngine ==
  ASSUME IInv, NEW d \in Engines, EngineFrame(d), Types', EngineInv(d)'
  PROVE  IInv'
  <1>1. ASSUME NEW e \in Engines, e # d
        PROVE  EngineInv(e)'
    <2>1. SameCall(e) /\ SameEngine(e)
      BY <1>1 DEF EngineFrame, OnlyEngines, main, SameCall
    <2>2. EngineInv(e)
      BY DEF IInv
    <2> QED BY <2>1, <2>2, Same DEF EngineFrame
  <1>2. ThreadsLive'
    BY DEF IInv, ThreadsLive, EngineFrame, OnlyEngines, main
  <1>3. GotAll'
    BY DEF IInv, GotAll, EngineFrame, OnlyEngines, main, Spells, By
  <1> QED BY <1>1, <1>2, <1>3 DEF IInv

(* Types of an engine's own variables after a step of it.                   *)
LEMMA EngineTypes ==
  ASSUME Types, OnlyEngines, faults' \subseteq FaultKinds \cup {Raised},
         NEW d \in Engines, NEW p \in Seq(Commands), NEW r \in Seq(Reply),
         NEW w \in {"idle", "rendezvous", "recv", "load"},
         NEW c \in Clients \cup {NoComm}, NEW g \in [Buckets -> Version],
         NEW k \in SUBSET Version,
         pipe' \in {pipe, [pipe EXCEPT ![d] = p]},
         reply' \in {reply, [reply EXCEPT ![d] = r]},
         wst' \in {wst, [wst EXCEPT ![d] = w]},
         comm' \in {comm, [comm EXCEPT ![d] = c]},
         weights' \in {weights, [weights EXCEPT ![d] = g]},
         cache' \in {cache, [cache EXCEPT ![d] = k]}
  PROVE  /\ Types'
         /\ \A e \in Engines : e # d => SameEngine(e)
         /\ pipe' = [pipe EXCEPT ![d] = p] => pipe'[d] = p
         /\ reply' = [reply EXCEPT ![d] = r] => reply'[d] = r
         /\ wst' = [wst EXCEPT ![d] = w] => wst'[d] = w
         /\ comm' = [comm EXCEPT ![d] = c] => comm'[d] = c
         /\ weights' = [weights EXCEPT ![d] = g] => weights'[d] = g
         /\ cache' = [cache EXCEPT ![d] = k] => cache'[d] = k
  <1>1. /\ pipe \in [Engines -> Seq(Commands)] /\ reply \in [Engines -> Seq(Reply)]
        /\ wst \in [Engines -> {"idle", "rendezvous", "recv", "load"}]
        /\ comm \in [Engines -> Clients \cup {NoComm}]
        /\ weights \in [Engines -> [Buckets -> Version]]
        /\ cache \in [Engines -> SUBSET Version]
    BY DEF Types
  <1>2. /\ pipe' \in [Engines -> Seq(Commands)]
        /\ \A e \in Engines : e # d => pipe'[e] = pipe[e]
        /\ pipe' = [pipe EXCEPT ![d] = p] => pipe'[d] = p
    BY ONLY <1>1, d \in Engines, p \in Seq(Commands),
            pipe' \in {pipe, [pipe EXCEPT ![d] = p]}
  <1>3. /\ reply' \in [Engines -> Seq(Reply)]
        /\ \A e \in Engines : e # d => reply'[e] = reply[e]
        /\ reply' = [reply EXCEPT ![d] = r] => reply'[d] = r
    BY ONLY <1>1, d \in Engines, r \in Seq(Reply),
            reply' \in {reply, [reply EXCEPT ![d] = r]}
  <1>4. /\ wst' \in [Engines -> {"idle", "rendezvous", "recv", "load"}]
        /\ \A e \in Engines : e # d => wst'[e] = wst[e]
        /\ wst' = [wst EXCEPT ![d] = w] => wst'[d] = w
    BY ONLY <1>1, d \in Engines, w \in {"idle", "rendezvous", "recv", "load"},
            wst' \in {wst, [wst EXCEPT ![d] = w]}
  <1>5. /\ comm' \in [Engines -> Clients \cup {NoComm}]
        /\ \A e \in Engines : e # d => comm'[e] = comm[e]
        /\ comm' = [comm EXCEPT ![d] = c] => comm'[d] = c
    BY ONLY <1>1, d \in Engines, c \in Clients \cup {NoComm},
            comm' \in {comm, [comm EXCEPT ![d] = c]}
  <1>6. /\ weights' \in [Engines -> [Buckets -> Version]]
        /\ \A e \in Engines : e # d => weights'[e] = weights[e]
        /\ weights' = [weights EXCEPT ![d] = g] => weights'[d] = g
    BY ONLY <1>1, d \in Engines, g \in [Buckets -> Version],
            weights' \in {weights, [weights EXCEPT ![d] = g]}
  <1>7. /\ cache' \in [Engines -> SUBSET Version]
        /\ \A e \in Engines : e # d => cache'[e] = cache[e]
        /\ cache' = [cache EXCEPT ![d] = k] => cache'[d] = k
    BY ONLY <1>1, d \in Engines, k \in SUBSET Version,
            cache' \in {cache, [cache EXCEPT ![d] = k]}
  <1>8. Types'
    BY <1>2, <1>3, <1>4, <1>5, <1>6, <1>7 DEF Types, OnlyEngines, main
  <1> QED BY <1>2, <1>3, <1>4, <1>5, <1>6, <1>7, <1>8 DEF SameEngine

(* What an engine's own step starts from.                                   *)
LEMMA EngineHas ==
  ASSUME IInv, NEW d \in Engines
  PROVE  /\ EngineInv(d) /\ pipe[d] \in Seq(Commands) /\ reply[d] \in Seq(Reply)
         /\ comm[d] \in Clients \cup {NoComm} /\ weights[d] \in [Buckets -> Version]
         /\ cache[d] \subseteq Version /\ client \in Clients
         /\ wst[d] \in {"idle", "rendezvous", "recv", "load"}
         /\ Types /\ ThreadsLive /\ faults \subseteq FaultKinds \cup {Raised}
         /\ pipe[d] # << >> =>
                /\ Tail(pipe[d]) \in Seq(Commands) /\ Head(pipe[d]) = pipe[d][1]
                /\ pipe[d][1] \in Commands
  <1>1. Types /\ ThreadsLive /\ EngineInv(d)
    BY DEF IInv
  <1>2. /\ pipe[d] \in Seq(Commands) /\ reply[d] \in Seq(Reply)
        /\ comm[d] \in Clients \cup {NoComm} /\ weights[d] \in [Buckets -> Version]
        /\ cache[d] \subseteq Version /\ client \in Clients
        /\ wst[d] \in {"idle", "rendezvous", "recv", "load"}
        /\ faults \subseteq FaultKinds \cup {Raised}
    BY <1>1 DEF Types
  <1> QED BY <1>1, <1>2, TailOf

(* An engine that takes a command off its pipe, or goes on to its next      *)
(* state, or leaves its communicator, and answers nothing.                  *)
LEMMA EngineMoves ==
  ASSUME IInv, NEW d \in Engines, pipe[d] # << >>,
         OnlyEngines, faults' \subseteq FaultKinds \cup {Raised},
         UNCHANGED <<reply, weights, cache>>,
         pipe' \in {pipe, [pipe EXCEPT ![d] = Tail(pipe[d])]},
         comm' \in {comm, [comm EXCEPT ![d] = NoComm]},
         \/ wst' = wst
         \/ wst' = [wst EXCEPT ![d] = "idle"]
         \/ wst' = [wst EXCEPT ![d] = "rendezvous"]
         \/ wst' = [wst EXCEPT ![d] = "recv"]
  PROVE  /\ Types'
         /\ \A e \in Engines : e # d => SameEngine(e)
         /\ pipe' = [pipe EXCEPT ![d] = Tail(pipe[d])] => pipe'[d] = Tail(pipe[d])
         /\ wst' = [wst EXCEPT ![d] = "idle"] => wst'[d] = "idle"
         /\ wst' = [wst EXCEPT ![d] = "rendezvous"] => wst'[d] = "rendezvous"
         /\ wst' = [wst EXCEPT ![d] = "recv"] => wst'[d] = "recv"
  <1>1. Types /\ Tail(pipe[d]) \in Seq(Commands)
    BY EngineHas
  <1>2. /\ pipe \in [Engines -> Seq(Commands)]
        /\ wst \in [Engines -> {"idle", "rendezvous", "recv", "load"}]
        /\ comm \in [Engines -> Clients \cup {NoComm}]
    BY <1>1 DEF Types
  <1>3. /\ pipe' \in [Engines -> Seq(Commands)]
        /\ \A e \in Engines : e # d => pipe'[e] = pipe[e]
        /\ pipe' = [pipe EXCEPT ![d] = Tail(pipe[d])] => pipe'[d] = Tail(pipe[d])
    <2>1. PICK q \in Seq(Commands) : q = Tail(pipe[d])
      BY <1>1, Zenon
    <2>2. pipe' \in {pipe, [pipe EXCEPT ![d] = q]}
      BY <2>1, Zenon
    <2>3. /\ pipe' \in [Engines -> Seq(Commands)]
          /\ \A e \in Engines : e # d => pipe'[e] = pipe[e]
          /\ pipe' = [pipe EXCEPT ![d] = q] => pipe'[d] = q
      BY <1>2, <2>2
    <2> QED BY <2>1, <2>3, Zenon
  <1>4. /\ wst' \in [Engines -> {"idle", "rendezvous", "recv", "load"}]
        /\ \A e \in Engines : e # d => wst'[e] = wst[e]
        /\ wst' = [wst EXCEPT ![d] = "idle"] => wst'[d] = "idle"
        /\ wst' = [wst EXCEPT ![d] = "rendezvous"] => wst'[d] = "rendezvous"
        /\ wst' = [wst EXCEPT ![d] = "recv"] => wst'[d] = "recv"
    BY <1>2
  <1>5. /\ comm' \in [Engines -> Clients \cup {NoComm}]
        /\ \A e \in Engines : e # d => comm'[e] = comm[e]
    BY <1>2
  <1>6. Types'
    BY <1>1, <1>3, <1>4, <1>5 DEF Types, OnlyEngines, main
  <1>7. \A e \in Engines : e # d => SameEngine(e)
    BY <1>3, <1>4, <1>5 DEF SameEngine
  <1> QED BY <1>3, <1>4, <1>6, <1>7, Zenon

(* A command that no joined engine can have at the head of its pipe.        *)
LEMMA HeadOurs ==
  ASSUME NEW e \in Engines, Types, ThreadsLive, EngineInv(e), Joined(e),
         pipe[e] # << >>
  PROVE  /\ pipe[e][1].type \in {"update", "reset", "infer"}
         /\ pipe[e][1].type = "update" => pipe[e][1].client = client
         /\ wst[e] # "rendezvous" /\ comm[e] # NoComm /\ cpc # "gone"
         /\ pipe[e][1].type = "reset" => /\ cpc = "reset" /\ th[e[1]] = "wait"
                                         /\ wst[e] = "idle"
         /\ pipe[e][1].type = "infer" => /\ cpc = "infer" /\ th[e[1]] = "wait"
                                         /\ wst[e] = "idle"
                                         /\ pipe[e][1] = Infer(Requested(e))
         /\ pipe[e][1].type = "update" /\ wst[e] \in {"idle", "recv"} =>
                /\ cpc = "update" /\ th[e[1]] = "wait"
                /\ pipe[e] = <<Push(bucket)>>
  <1>1. /\ \A b : Push(b).type = "update" /\ Push(b).client = client
        /\ Reset.type = "reset" /\ \A r : Infer(r).type = "infer"
    <2>1. ASSUME NEW b
          PROVE  Push(b).type = "update" /\ Push(b).client = client
      BY DEF Push, Update
    <2>2. Reset.type = "reset"
      BY DEF Reset
    <2>3. ASSUME NEW r
          PROVE  Infer(r).type = "infer"
      BY DEF Infer
    <2> QED BY <2>1, <2>2, <2>3
  <1>2. comm[e] # NoComm
    <2>1. comm[e] = client
      BY JoinedForms
    <2>2. client \in Clients /\ MaxClient \in Nat
      BY BoundAssumption DEF Types
    <2>3. client \in Nat
      BY <2>2 DEF Clients
    <2> QED BY <2>1, <2>3 DEF NoComm
  <1>3. cpc # "gone"
    BY DEF Joined, Calling
  <1>4. CASE /\ cpc = "update" /\ th[e[1]] = "wait"
             /\ pipe[e] = <<Push(bucket)>> /\ wst[e] \in {"idle", "recv"}
    <2>1. pipe[e][1] = Push(bucket)
      BY <1>4, Short, Zenon
    <2> QED BY <1>1, <1>2, <1>3, <1>4, <2>1
  <1>5. CASE wst[e] = "load" /\ \E n \in Buckets : pipe[e][1] = Push(n)
    BY <1>1, <1>2, <1>3, <1>5
  <1>6. CASE /\ cpc = "reset" /\ th[e[1]] = "wait"
             /\ pipe[e] = <<Reset>> /\ wst[e] = "idle"
    <2>1. pipe[e][1] = Reset
      BY <1>6, Short, Zenon
    <2> QED BY <1>1, <1>2, <1>3, <1>6, <2>1
  <1>7. CASE /\ cpc = "infer" /\ th[e[1]] = "wait"
             /\ pipe[e] = <<Infer(Requested(e))>> /\ wst[e] = "idle"
    <2>1. pipe[e][1] = Infer(Requested(e))
      BY <1>7, Short, Zenon
    <2> QED BY <1>1, <1>2, <1>3, <1>7, <2>1
  <1> QED BY <1>4, <1>5, <1>6, <1>7, JoinedForms DEF Rested

LEMMA DoCloseKeeps ==
  ASSUME IInv, NEW d \in Engines, DoClose(d)
  PROVE  IInv'
  <1>1. /\ wst[d] = "idle" /\ pipe[d] # << >> /\ pipe[d][1].type = "close"
        /\ pipe' = [pipe EXCEPT ![d] = Tail(pipe[d])]
        /\ comm' = [comm EXCEPT ![d] = NoComm]
        /\ OnlyEngines /\ UNCHANGED <<faults, wst, weights, cache, reply>>
    BY EngineHas DEF DoClose, Ready, Command, Done, OnlyEngines
  <1>2. /\ Types' /\ \A e \in Engines : e # d => SameEngine(e)
        /\ pipe'[d] = Tail(pipe[d])
    BY <1>1, EngineHas, EngineMoves
  <1>3. SameCall(d) /\ EngineFrame(d)
    BY <1>1, <1>2 DEF SameCall, EngineFrame, OnlyEngines, main
  <1>4. ~Joined(d)'
    <2>1. ~Joined(d)
      BY <1>1, EngineHas, HeadOurs
    <2> QED BY <1>1, <2>1 DEF Joined, OnlyEngines, main
  <1>5. AtWork(d)' /\ OneReply(d)' /\ Handshake(d)'
    <2>1. ~Waited(pipe[d][1])
      BY <1>1 DEF Waited
    <2> QED BY <1>1, <1>2, <1>3, <2>1, EngineHas, Dropped
  <1>6. EngineInv(d)'
    BY <1>4, <1>5, NotJoined DEF EngineInv
  <1> QED BY <1>2, <1>3, <1>6, OneEngine

LEMMA DoInitKeeps ==
  ASSUME IInv, NEW d \in Engines, DoInit(d)
  PROVE  IInv'
  <1>1. /\ wst[d] = "idle" /\ pipe[d] # << >> /\ pipe[d][1].type = "init"
        /\ \/ /\ wst' = [wst EXCEPT ![d] = "rendezvous"] /\ UNCHANGED pipe
           \/ pipe' = [pipe EXCEPT ![d] = Tail(pipe[d])] /\ UNCHANGED wst
        /\ OnlyEngines /\ UNCHANGED <<faults, comm, weights, cache, reply>>
    BY EngineHas DEF DoInit, Ready, Command, Done, Step, OnlyEngines
  <1>2. /\ Types' /\ \A e \in Engines : e # d => SameEngine(e)
        /\ \/ wst'[d] = "rendezvous" /\ UNCHANGED pipe
           \/ pipe'[d] = Tail(pipe[d]) /\ UNCHANGED wst
    BY <1>1, EngineHas, EngineMoves
  <1>3. SameCall(d) /\ EngineFrame(d)
    BY <1>1, <1>2 DEF SameCall, EngineFrame, OnlyEngines, main
  <1>4. ~Joined(d)'
    <2>1. ~Joined(d)
      BY <1>1, EngineHas, HeadOurs
    <2> QED BY <1>1, <2>1 DEF Joined, OnlyEngines, main
  <1>5. AtWork(d)' /\ OneReply(d)' /\ Handshake(d)'
    <2>1. CASE wst'[d] = "rendezvous" /\ UNCHANGED pipe
      BY <1>1, <1>3, <2>1, EngineHas
         DEF EngineInv, AtWork, OneReply, Handshake, OwnInit, SameCall
    <2>2. CASE pipe'[d] = Tail(pipe[d]) /\ UNCHANGED wst
      <3>1. ~Waited(pipe[d][1])
        BY <1>1 DEF Waited
      <3> QED BY <1>1, <1>3, <2>2, <3>1, EngineHas, Dropped
    <2> QED BY <1>2, <2>1, <2>2
  <1>6. EngineInv(d)'
    BY <1>4, <1>5, NotJoined DEF EngineInv
  <1> QED BY <1>2, <1>3, <1>6, OneEngine

(* A joined engine takes part in the broadcast of the bucket it is sent.    *)
LEMMA DoUpdateKeeps ==
  ASSUME IInv, NEW d \in Engines, DoUpdate(d)
  PROVE  IInv'
  <1>1. /\ wst[d] = "idle" /\ pipe[d] # << >> /\ pipe[d][1].type = "update"
        /\ \/ /\ wst' = [wst EXCEPT ![d] = "recv"] /\ UNCHANGED pipe
           \/ /\ pipe' = [pipe EXCEPT ![d] = Tail(pipe[d])] /\ UNCHANGED wst
              /\ comm[d] = NoComm
        /\ OnlyEngines /\ UNCHANGED <<faults, comm, weights, cache, reply>>
    BY EngineHas DEF DoUpdate, Ready, Command, Done, Step, OnlyEngines
  <1>2. /\ Types' /\ \A e \in Engines : e # d => SameEngine(e)
        /\ \/ wst'[d] = "recv" /\ UNCHANGED pipe
           \/ pipe'[d] = Tail(pipe[d]) /\ UNCHANGED wst /\ comm[d] = NoComm
    BY <1>1, EngineHas, EngineMoves
  <1>3. SameCall(d) /\ EngineFrame(d)
    BY <1>1, <1>2 DEF SameCall, EngineFrame, OnlyEngines, main
  <1>4. Joined(d)' <=> Joined(d)
    BY <1>1 DEF Joined, OnlyEngines, main
  <1>5. AtWork(d)' /\ OneReply(d)' /\ Handshake(d)'
    <2>1. CASE wst'[d] = "recv" /\ UNCHANGED pipe
      BY <1>1, <1>3, <2>1, EngineHas
         DEF EngineInv, AtWork, OneReply, Handshake, OwnInit, SameCall
    <2>2. CASE pipe'[d] = Tail(pipe[d]) /\ UNCHANGED wst
      <3>1. ~Waited(pipe[d][1])
        BY <1>1 DEF Waited
      <3> QED BY <1>1, <1>3, <2>2, <3>1, EngineHas, Dropped
    <2> QED BY <1>2, <2>1, <2>2
  <1>6. ASSUME Joined(d)
        PROVE  OnlyOurs(d)' /\ Fresh(d)'
    <2>1. /\ cpc = "update" /\ th[d[1]] = "wait" /\ pipe[d] = <<Push(bucket)>>
          /\ wst'[d] = "recv" /\ UNCHANGED pipe /\ comm[d] = client
      BY <1>1, <1>2, <1>6, EngineHas, HeadOurs, JoinedForms
    <2>2. busy[d[1]] = Free
      BY <1>6, <2>1, EngineHas DEF EngineInv, OnlyOurs, Updating
    <2>3. OnlyOurs(d)'
      BY <1>1, <1>3, <2>1, <2>2 DEF OnlyOurs, Updating, SameCall, Push
    <2>4. Fresh(d)'
      <3>1. Raised \notin faults => Loaded(d, bucket - 1)
        BY <2>1, EngineHas DEF EngineInv, Fresh
      <3>2. Raised \notin faults => Loaded(d, bucket - 1)'
        BY <1>1, <1>3, <3>1 DEF Loaded, SameCall
      <3> QED BY <1>1, <1>3, <2>1, <3>2 DEF Fresh, SameCall
    <2> QED BY <2>3, <2>4
  <1>7. EngineInv(d)'
    BY <1>4, <1>5, <1>6, NotJoined DEF EngineInv
  <1> QED BY <1>2, <1>3, <1>7, OneEngine

(* A peer is lost only before its engine joins the next client.             *)
LEMMA PeerLostKeeps ==
  ASSUME IInv, NEW d \in Engines, PeerLost(d)
  PROVE  IInv'
  <1>1. /\ pipe[d] # << >> /\ ~Waited(pipe[d][1])
        /\ wst[d] # "rendezvous" => pipe[d][1].type = "update"
        /\ wst' = [wst EXCEPT ![d] = "idle"]
        /\ pipe' = [pipe EXCEPT ![d] = Tail(pipe[d])]
        /\ pipe[d][1].client # client \/ cpc = "gone"
        /\ OnlyEngines /\ UNCHANGED <<faults, comm, weights, cache, reply>>
    <2>1. /\ wst[d] \in {"rendezvous", "recv"}
          /\ wst[d] = "rendezvous" => pipe[d] # << >> /\ pipe[d][1].type = "init"
          /\ wst[d] = "recv" => pipe[d] # << >> /\ pipe[d][1].type = "update"
      BY EngineHas DEF PeerLost, EngineInv, AtWork
    <2>2. /\ pipe[d] # << >> /\ ~Waited(pipe[d][1])
          /\ wst[d] # "rendezvous" => pipe[d][1].type = "update"
      BY <2>1 DEF Waited
    <2>3. Head(pipe[d]) = pipe[d][1]
      BY <2>2, EngineHas
    <2> QED BY <2>2, <2>3 DEF PeerLost, Command, Done, Step, OnlyEngines
  <1>2. /\ Types' /\ \A e \in Engines : e # d => SameEngine(e)
        /\ wst'[d] = "idle" /\ pipe'[d] = Tail(pipe[d])
    BY <1>1, EngineHas, EngineMoves
  <1>3. SameCall(d) /\ EngineFrame(d)
    BY <1>1, <1>2 DEF SameCall, EngineFrame, OnlyEngines, main
  <1>4. ~Joined(d)'
    <2>1. ~Joined(d)
      BY <1>1, EngineHas, HeadOurs
    <2> QED BY <1>1, <2>1 DEF Joined, OnlyEngines, main
  <1>5. AtWork(d)' /\ OneReply(d)' /\ Handshake(d)'
    BY <1>1, <1>2, <1>3, EngineHas, Dropped
  <1>6. EngineInv(d)'
    BY <1>4, <1>5, NotJoined DEF EngineInv
  <1> QED BY <1>2, <1>3, <1>6, OneEngine

(* After loading a bucket, or failing to.                                   *)
LEMMA AfterLoad ==
  ASSUME NEW d \in Engines, Types, ThreadsLive, EngineInv(d), SameCall(d),
         Joined(d), wst[d] = "load", pipe'[d] = Tail(pipe[d]),
         wst'[d] = "idle", comm'[d] = comm[d], reply'[d] = reply[d]
  PROVE  /\ OnlyOurs(d)' /\ cpc \in {"update", "reset"}
         /\ cpc = "reset" => th[d[1]] # "done" /\ (th[d[1]] = "wait" => pipe'[d] # << >>)
  <1>1. /\ comm[d] = client /\ cpc \in {"update", "reset"}
        /\ d[1] \in Servers
    BY JoinedForms, EnginesAre DEF Rested
  <1>2. th[d[1]] \in {"post", "failed", "wait", "done"}
    BY <1>1 DEF ThreadsLive, Types, ThreadStates, Calling
  <1>3. ASSUME NEW b, pipe[d] = <<b>>
        PROVE  pipe'[d] = << >>
    BY <1>3, Singles, Zenon
  <1>4. ASSUME NEW b, NEW n, pipe[d] = <<b, n>>
        PROVE  pipe'[d] = <<n>> /\ pipe'[d] # << >>
    <2>1. pipe'[d] = <<n>>
      <3>1. Tail(<<b, n>>) = <<n>>
        BY Short
      <3>2. Tail(pipe[d]) = Tail(<<b, n>>)
        BY <1>4, Zenon
      <3> QED BY <3>1, <3>2, Zenon
    <2> QED BY <2>1, Short, Zenon
  <1>5. \A n : Behind(d, n) => Rested(d)'
    BY <1>3 DEF Behind, Rested, Loading
  <1>6. CASE cpc = "update"
    <2>1. Updating(d)
      BY <1>6 DEF EngineInv, OnlyOurs
    <2>2. Updating(d)'
      <3>1. CASE th[d[1]] \in {"post", "failed"}
        BY <1>5, <2>1, <3>1 DEF Updating, SameCall, Behind
      <3>2. CASE th[d[1]] = "wait"
        <4>1. pipe[d] = <<Push(bucket - 1), Push(bucket)>> /\ busy[d[1]] = Free
          BY <2>1, <3>2 DEF Updating
        <4>2. pipe'[d] = <<Push(bucket)>>
          BY <1>4, <4>1
        <4> QED BY <3>2, <4>1, <4>2 DEF Updating, SameCall, Push
      <3>3. CASE th[d[1]] = "done"
        BY <1>5, <2>1, <3>3 DEF Updating, SameCall, Behind
      <3> QED BY <1>2, <3>1, <3>2, <3>3
    <2> QED BY <1>1, <1>6, <2>2 DEF OnlyOurs, SameCall
  <1>7. CASE cpc = "reset"
    <2>1. Resetting(d)
      BY <1>7 DEF EngineInv, OnlyOurs
    <2>2. CASE th[d[1]] \in {"post", "failed"}
      <3>1. Resetting(d)'
        BY <1>5, <2>1, <2>2 DEF Resetting, SameCall, Behind
      <3> QED BY <1>1, <1>7, <2>2, <3>1 DEF OnlyOurs, SameCall
    <2>3. CASE th[d[1]] = "wait"
      <3>1. pipe[d] = <<Push(NBuckets), Reset>> /\ busy[d[1]] = client
        BY <2>1, <2>3 DEF Resetting, Rested
      <3>2. pipe'[d] = <<Reset>> /\ pipe'[d] # << >>
        BY <1>4, <3>1
      <3>3. Resetting(d)'
        BY <2>3, <3>1, <3>2 DEF Resetting, SameCall
      <3> QED BY <1>1, <1>7, <2>3, <3>2, <3>3 DEF OnlyOurs, SameCall
    <2>4. th[d[1]] # "done"
      BY <2>1 DEF Resetting, Rested
    <2> QED BY <1>2, <2>2, <2>3, <2>4
  <1> QED BY <1>1, <1>6, <1>7

LEMMA LoadKeeps ==
  ASSUME IInv, NEW d \in Engines, Load(d)
  PROVE  IInv'
  <1> DEFINE c == pipe[d][1]
             g == [weights[d] EXCEPT ![c.bucket] = c.version]
  <1>1. /\ wst[d] = "load" /\ pipe[d] # << >> /\ c.type = "update"
        /\ wst' = [wst EXCEPT ![d] = "idle"]
        /\ pipe' = [pipe EXCEPT ![d] = Tail(pipe[d])]
        /\ weights' = [weights EXCEPT ![d] = g]
        /\ OnlyEngines /\ UNCHANGED <<faults, comm, cache, reply>>
    <2>1. wst[d] = "load" /\ pipe[d] # << >> /\ c.type = "update"
      BY EngineHas DEF Load, EngineInv, AtWork
    <2>2. Head(pipe[d]) = c
      BY <2>1, EngineHas
    <2> QED BY <2>1, <2>2 DEF Load, Command, Done, Step, OnlyEngines
  <1>2. c.bucket \in Buckets /\ c.version \in Version
    BY <1>1, EngineHas, CommandKinds
  <1>3. g \in [Buckets -> Version]
    BY <1>2, EngineHas
  <1>4. /\ Types' /\ \A e \in Engines : e # d => SameEngine(e)
        /\ wst'[d] = "idle" /\ pipe'[d] = Tail(pipe[d]) /\ weights'[d] = g
    <2>1. PICK h \in [Buckets -> Version] : h = g
      BY <1>3
    <2>2. weights' = [weights EXCEPT ![d] = h]
      BY <1>1, <2>1, Zenon
    <2>3. /\ weights \in [Engines -> [Buckets -> Version]]
          /\ pipe \in [Engines -> Seq(Commands)]
          /\ wst \in [Engines -> {"idle", "rendezvous", "recv", "load"}]
      BY EngineHas DEF Types
    <2> HIDE DEF g
    <2>4. /\ weights' \in [Engines -> [Buckets -> Version]] /\ weights'[d] = h
          /\ \A e \in Engines : e # d => weights'[e] = weights[e]
      BY <2>2, <2>3
    <2>5. /\ pipe' \in [Engines -> Seq(Commands)] /\ pipe'[d] = Tail(pipe[d])
          /\ \A e \in Engines : e # d => pipe'[e] = pipe[e]
      BY <1>1, <2>3, EngineHas
    <2>6. /\ wst' \in [Engines -> {"idle", "rendezvous", "recv", "load"}]
          /\ wst'[d] = "idle" /\ \A e \in Engines : e # d => wst'[e] = wst[e]
      BY <1>1, <2>3
    <2>7. Types'
      BY <1>1, <2>4, <2>5, <2>6, EngineHas DEF Types, OnlyEngines, main
    <2>8. \A e \in Engines : e # d => SameEngine(e)
      BY <1>1, <2>4, <2>5, <2>6 DEF SameEngine
    <2>9. weights'[d] = g
      BY <2>1, <2>4, Zenon
    <2> QED BY <2>5, <2>6, <2>7, <2>8, <2>9
  <1>5. SameCall(d) /\ EngineFrame(d)
    BY <1>1, <1>4 DEF SameCall, EngineFrame, OnlyEngines, main
  <1>6. Joined(d)' <=> Joined(d)
    BY <1>1 DEF Joined, OnlyEngines, main
  <1>7. AtWork(d)' /\ OneReply(d)' /\ Handshake(d)'
    <2>1. ~Waited(c)
      BY <1>1 DEF Waited
    <2> QED BY <1>1, <1>4, <1>5, <2>1, EngineHas, Dropped
  <1>8. ASSUME Joined(d)
        PROVE  OnlyOurs(d)' /\ Fresh(d)'
    <2>1. /\ OnlyOurs(d)' /\ cpc \in {"update", "reset"}
          /\ cpc = "reset" =>
                th[d[1]] # "done" /\ (th[d[1]] = "wait" => pipe'[d] # << >>)
      BY <1>1, <1>4, <1>5, <1>8, EngineHas, AfterLoad
    <2>2. PICK n \in Buckets : c = Push(n)
      BY <1>1, <1>8, EngineHas, JoinedForms DEF Rested
    <2>3. c.bucket = n /\ c.version = version
      BY <2>2 DEF Push, Update
    <2>4. ASSUME NEW k \in Nat, k <= NBuckets, Loaded(d, k)
          PROVE  \A b \in 1..k : weights'[d][b] = version
      <3>1. ASSUME NEW b \in 1..k
            PROVE  weights'[d][b] = version
        <4>1. b \in Buckets
          BY <2>4, SizeAssumption DEF Buckets
        <4>2. CASE b = n
          BY <1>3, <1>4, <2>3, <4>1, <4>2, EngineHas
        <4>3. CASE b # n
          <5>1. Push(b) # Push(n)
            BY <4>3 DEF Push, Update
          <5>2. weights[d][b] = version
            BY <2>2, <2>4, <5>1 DEF Loaded
          <5> QED BY <1>4, <2>3, <4>1, <4>3, <5>2, EngineHas
        <4> QED BY <4>2, <4>3
      <3> QED BY <3>1
    <2>5. bucket \in Nat \ {0} /\ bucket <= NBuckets /\ NBuckets \in Nat
      BY EngineHas, SizeAssumption DEF Types, Buckets
    <2>6. Fresh(d)'
      <3>1. CASE cpc = "update"
        <4>1. CASE th[d[1]] = "done"
          <5>1. Raised \notin faults => \A b \in 1..bucket : weights'[d][b] = version
            BY <2>4, <2>5, <3>1, <4>1, EngineHas DEF EngineInv, Fresh
          <5> QED BY <1>1, <1>5, <3>1, <4>1, <5>1 DEF Fresh, SameCall, Loaded
        <4>2. CASE th[d[1]] # "done"
          <5>1. Raised \notin faults => Loaded(d, bucket - 1)
            BY <3>1, <4>2, EngineHas DEF EngineInv, Fresh
          <5>2. PICK k \in Nat : k = bucket - 1 /\ k <= NBuckets
            BY <2>5
          <5>3. Raised \notin faults =>
                    \A b \in 1..(bucket - 1) : weights'[d][b] = version
            BY <2>4, <5>1, <5>2
          <5> QED BY <1>1, <1>5, <3>1, <4>2, <5>3 DEF Fresh, SameCall, Loaded
        <4> QED BY <4>1, <4>2
      <3>2. CASE cpc = "reset"
        <4>1. Raised \notin faults => \A b \in 1..NBuckets : weights'[d][b] = version
          BY <2>4, <2>5, <3>2, EngineHas DEF EngineInv, Fresh
        <4> QED BY <1>1, <1>5, <2>1, <3>2, <4>1 DEF Fresh, SameCall, Loaded
      <3> QED BY <2>1, <3>1, <3>2
    <2> QED BY <2>1, <2>6
  <1>9. EngineInv(d)'
    BY <1>6, <1>7, <1>8, NotJoined DEF EngineInv
  <1> QED BY <1>4, <1>5, <1>9, OneEngine

LEMMA LoadFailsKeeps ==
  ASSUME IInv, NEW d \in Engines, LoadFails(d)
  PROVE  IInv'
  <1>1. /\ wst[d] = "load" /\ pipe[d] # << >> /\ pipe[d][1].type = "update"
        /\ wst' = [wst EXCEPT ![d] = "idle"]
        /\ pipe' = [pipe EXCEPT ![d] = Tail(pipe[d])]
        /\ faults' = {Raised} \cup (faults \ {"quiet"})
        /\ OnlyEngines /\ UNCHANGED <<comm, weights, cache, reply>>
    <2>1. wst[d] = "load" /\ pipe[d] # << >> /\ pipe[d][1].type = "update"
      BY EngineHas DEF LoadFails, EngineInv, AtWork
    <2> QED BY <2>1 DEF LoadFails, Done, Step, OnlyEngines
  <1>2. faults' \subseteq FaultKinds \cup {Raised} /\ Raised \in faults'
    BY <1>1, EngineHas
  <1>3. /\ Types' /\ \A e \in Engines : e # d => SameEngine(e)
        /\ wst'[d] = "idle" /\ pipe'[d] = Tail(pipe[d])
    BY <1>1, <1>2, EngineHas, EngineMoves
  <1>4. SameCall(d) /\ EngineFrame(d)
    BY <1>1, <1>2, <1>3 DEF SameCall, EngineFrame, OnlyEngines, main
  <1>5. AtWork(d)' /\ OneReply(d)' /\ Handshake(d)'
    <2>1. ~Waited(pipe[d][1])
      BY <1>1 DEF Waited
    <2> QED BY <1>1, <1>3, <1>4, <2>1, EngineHas, Dropped
  <1>6. OnlyOurs(d)'
    <2>1. CASE Joined(d)
      BY <1>1, <1>3, <1>4, <2>1, EngineHas, AfterLoad
    <2>2. CASE ~Joined(d)
      <3>1. ~Joined(d)'
        BY <1>1, <2>2 DEF Joined, OnlyEngines, main
      <3> QED BY <3>1, NotJoined
    <2> QED BY <2>1, <2>2
  <1>7. EngineInv(d)'
    BY <1>2, <1>5, <1>6 DEF EngineInv, Fresh
  <1> QED BY <1>3, <1>4, <1>7, OneEngine

(* After the reply to a reset.                                              *)
LEMMA AfterReset ==
  ASSUME NEW d \in Engines, Types, ThreadsLive, EngineInv(d), SameCall(d),
         Joined(d), pipe[d] # << >>, pipe[d][1].type = "reset",
         pipe'[d] = << >>, wst'[d] = "idle", comm'[d] = comm[d]
  PROVE  OnlyOurs(d)' /\ cpc = "reset"
  <1>1. cpc = "reset" /\ th[d[1]] = "wait" /\ comm[d] = client
    BY HeadOurs, JoinedForms
  <1>2. busy[d[1]] = client
    BY <1>1 DEF EngineInv, OnlyOurs, Resetting
  <1>3. Resetting(d)'
    BY <1>1, <1>2 DEF Resetting, Rested, SameCall
  <1> QED BY <1>1, <1>3 DEF OnlyOurs, SameCall

LEMMA ReplyTypes ==
  ASSUME Types, OnlyEngines, UNCHANGED <<faults, wst, comm, weights>>,
         NEW d \in Engines, NEW p \in Seq(Commands), NEW r \in Seq(Reply),
         NEW k \in SUBSET Version, pipe' = [pipe EXCEPT ![d] = p],
         reply' = [reply EXCEPT ![d] = r], cache' = [cache EXCEPT ![d] = k]
  PROVE  /\ Types' /\ \A e \in Engines : e # d => SameEngine(e)
         /\ pipe'[d] = p /\ reply'[d] = r /\ cache'[d] = k
  <1>1. /\ pipe \in [Engines -> Seq(Commands)] /\ reply \in [Engines -> Seq(Reply)]
        /\ cache \in [Engines -> SUBSET Version]
    BY DEF Types
  <1>2. /\ pipe' \in [Engines -> Seq(Commands)] /\ pipe'[d] = p
        /\ \A e \in Engines : e # d => pipe'[e] = pipe[e]
    BY <1>1
  <1>3. /\ reply' \in [Engines -> Seq(Reply)] /\ reply'[d] = r
        /\ \A e \in Engines : e # d => reply'[e] = reply[e]
    BY <1>1
  <1>4. /\ cache' \in [Engines -> SUBSET Version] /\ cache'[d] = k
        /\ \A e \in Engines : e # d => cache'[e] = cache[e]
    BY <1>1
  <1>5. Types'
    BY <1>2, <1>3, <1>4 DEF Types, OnlyEngines, main
  <1> QED BY <1>2, <1>3, <1>4, <1>5 DEF SameEngine

LEMMA DoResetKeeps ==
  ASSUME IInv, NEW d \in Engines, DoReset(d)
  PROVE  IInv'
  <1> DEFINE r == Append(reply[d], Replied(<< >>))
  <1>1. /\ wst[d] = "idle" /\ pipe[d] # << >> /\ pipe[d][1].type = "reset"
        /\ pipe' = [pipe EXCEPT ![d] = Tail(pipe[d])]
        /\ reply' = [reply EXCEPT ![d] = r]
        /\ cache' = [cache EXCEPT ![d] = {}]
        /\ OnlyEngines /\ UNCHANGED <<faults, wst, comm, weights>>
    BY EngineHas DEF DoReset, Ready, Command, Done, OnlyEngines
  <1>2. r \in Seq(Reply)
    <2>1. Replied(<< >>) \in Reply
      BY DEF Replied, Reply, Answered
    <2> QED BY <2>1, EngineHas
  <1>3. /\ Types' /\ \A e \in Engines : e # d => SameEngine(e)
        /\ pipe'[d] = Tail(pipe[d]) /\ reply'[d] = r /\ cache'[d] = {}
    <2> HIDE DEF r
    <2>1. Tail(pipe[d]) \in Seq(Commands) /\ Types /\ {} \in SUBSET Version
      BY <1>1, EngineHas
    <2> QED BY <1>1, <1>2, <2>1, ReplyTypes
  <1>4. SameCall(d) /\ EngineFrame(d)
    BY <1>1, <1>3 DEF SameCall, EngineFrame, OnlyEngines, main
  <1>5. AtWork(d)' /\ OneReply(d)' /\ Handshake(d)' /\ pipe'[d] = << >>
    <2>1. Waited(pipe[d][1]) /\ wst'[d] = "idle"
      BY <1>1 DEF Waited
    <2> QED BY <1>1, <1>3, <1>4, <2>1, EngineHas, RepliedTo
  <1>6. ASSUME Joined(d)
        PROVE  OnlyOurs(d)' /\ Fresh(d)'
    <2>1. OnlyOurs(d)' /\ cpc = "reset"
      BY <1>1, <1>4, <1>5, <1>6, EngineHas, AfterReset
    <2>2. Raised \notin faults => Loaded(d, NBuckets)
      BY <2>1, EngineHas DEF EngineInv, Fresh
    <2>3. Raised \notin faults => Loaded(d, NBuckets)'
      BY <1>1, <1>4, <2>2 DEF Loaded, SameCall
    <2> QED BY <1>1, <1>3, <1>4, <2>1, <2>3 DEF Fresh, SameCall
  <1>7. EngineInv(d)'
    <2>1. Joined(d)' <=> Joined(d)
      BY <1>1 DEF Joined, OnlyEngines, main
    <2> QED BY <1>5, <1>6, <2>1, NotJoined DEF EngineInv
  <1> QED BY <1>3, <1>4, <1>7, OneEngine

LEMMA ResetFailsKeeps ==
  ASSUME IInv, NEW d \in Engines, ResetFails(d)
  PROVE  IInv'
  <1> DEFINE r == Append(reply[d], NoResult)
  <1>1. /\ wst[d] = "idle" /\ pipe[d] # << >> /\ pipe[d][1].type = "reset"
        /\ pipe' = [pipe EXCEPT ![d] = Tail(pipe[d])]
        /\ reply' = [reply EXCEPT ![d] = r]
        /\ faults' = {Raised} \cup (faults \ {"quiet"})
        /\ OnlyEngines /\ UNCHANGED <<wst, comm, weights, cache>>
    BY EngineHas DEF ResetFails, Ready, Command, Done, OnlyEngines
  <1>2. r \in Seq(Reply) /\ faults' \subseteq FaultKinds \cup {Raised}
        /\ Raised \in faults'
    <2>1. NoResult \in Reply
      BY DEF NoResult, Reply, Answered
    <2> QED BY <1>1, <2>1, EngineHas
  <1>3. /\ Types' /\ \A e \in Engines : e # d => SameEngine(e)
        /\ pipe'[d] = Tail(pipe[d]) /\ reply'[d] = r
    <2> HIDE DEF r
    <2> QED BY <1>1, <1>2, EngineHas, EngineTypes
  <1>4. SameCall(d) /\ EngineFrame(d)
    BY <1>1, <1>2, <1>3 DEF SameCall, EngineFrame, OnlyEngines, main
  <1>5. AtWork(d)' /\ OneReply(d)' /\ Handshake(d)' /\ pipe'[d] = << >>
    <2>1. Waited(pipe[d][1]) /\ wst'[d] = "idle"
      BY <1>1 DEF Waited
    <2> QED BY <1>1, <1>3, <1>4, <2>1, EngineHas, RepliedTo
  <1>6. OnlyOurs(d)'
    <2>1. CASE Joined(d)
      BY <1>1, <1>4, <1>5, <2>1, EngineHas, AfterReset
    <2>2. CASE ~Joined(d)
      <3>1. ~Joined(d)'
        BY <1>1, <2>2 DEF Joined, OnlyEngines, main
      <3> QED BY <3>1, NotJoined
    <2> QED BY <2>1, <2>2
  <1>7. EngineInv(d)'
    BY <1>2, <1>5, <1>6 DEF EngineInv, Fresh
  <1> QED BY <1>3, <1>4, <1>7, OneEngine

(* After the reply to a rollout's requests.                                 *)
LEMMA AfterInfer ==
  ASSUME NEW d \in Engines, Types, ThreadsLive, EngineInv(d), SameCall(d),
         Joined(d), pipe[d] # << >>, pipe[d][1].type = "infer",
         pipe'[d] = << >>, wst'[d] = "idle", comm'[d] = comm[d],
         \/ reply'[d][1] = NoResult
         \/ reply'[d][1].ok /\ Spells(reply'[d][1].answers, pipe[d][1].requests)
  PROVE  OnlyOurs(d)' /\ cpc = "infer" /\ th[d[1]] = "wait"
  <1>1. /\ cpc = "infer" /\ th[d[1]] = "wait" /\ comm[d] = client
        /\ pipe[d][1] = Infer(Requested(d))
    BY HeadOurs, JoinedForms
  <1>2. busy[d[1]] = client
    BY <1>1 DEF EngineInv, OnlyOurs, Inferring
  <1>3. pipe[d][1].requests = Requested(d)
    BY <1>1 DEF Infer
  <1>4. Requested(d)' = Requested(d)
    BY DEF Requested, EngineRequests, ServerChunk, SameCall
  <1>5. Spells(reply'[d][1].answers, pipe[d][1].requests)
            => Spells(reply[d][1].answers, Requested(d))'
    BY <1>3, <1>4 DEF Spells
  <1>6. Inferring(d)'
    BY <1>1, <1>2, <1>5 DEF Inferring, SameCall, NoResult
  <1> QED BY <1>1, <1>6 DEF OnlyOurs, SameCall

LEMMA DoInferKeeps ==
  ASSUME IInv, NEW d \in Engines, DoInfer(d)
  PROVE  IInv'
  <1> DEFINE held == {weights[d][b] : b \in Buckets}
             reqs == pipe[d][1].requests
             answers == [i \in DOMAIN reqs |-> Answer(reqs[i], held \cup cache[d])]
             r == Append(reply[d], Replied(answers))
             k == cache[d] \cup held
  <1>1. /\ wst[d] = "idle" /\ pipe[d] # << >> /\ pipe[d][1].type = "infer"
        /\ pipe' = [pipe EXCEPT ![d] = Tail(pipe[d])]
        /\ reply' = [reply EXCEPT ![d] = r]
        /\ cache' = [cache EXCEPT ![d] = k]
        /\ OnlyEngines /\ UNCHANGED <<faults, wst, comm, weights>>
    <2>1. /\ wst[d] = "idle" /\ pipe[d] # << >> /\ pipe[d][1].type = "infer"
          /\ Command(d) = pipe[d][1]
      BY EngineHas DEF DoInfer, Ready, Command
    <2> QED BY <2>1 DEF DoInfer, Done, OnlyEngines
  <1>2. reqs \in Seq(Nat)
    BY <1>1, EngineHas, CommandKinds
  <1>3. held \subseteq Version /\ k \in SUBSET Version
    BY EngineHas
  <1>4. /\ Spells(answers, reqs) /\ Replied(answers) \in Reply
        /\ \A i \in 1..Len(reqs) : answers[i].by = held \cup cache[d]
        /\ Len(answers) = Len(reqs)
    <2> HIDE DEF held, reqs
    <2>1. DOMAIN reqs = 1..Len(reqs) /\ Len(reqs) \in Nat
      BY <1>2
    <2>2. ASSUME NEW i \in 1..Len(reqs)
          PROVE  /\ answers[i] \in AnAnswer /\ answers[i].of = reqs[i]
                 /\ answers[i].by = held \cup cache[d]
      <3>1. reqs[i] \in Nat /\ answers[i] = Answer(reqs[i], held \cup cache[d])
        BY <1>2, <2>1
      <3> QED BY <1>3, <3>1, EngineHas DEF Answer, AnAnswer
    <2>3. answers = [i \in 1..Len(reqs) |-> answers[i]]
      BY <2>1
    <2> HIDE DEF answers
    <2>4. answers \in Seq(AnAnswer) /\ Len(answers) = Len(reqs)
      BY <2>1, <2>2, <2>3
    <2>5. Spells(answers, reqs)
      BY <2>2, <2>4 DEF Spells, Answered, AnAnswer
    <2>6. Replied(answers) \in Reply
      BY <2>4 DEF Replied, Reply, Answered, AnAnswer
    <2> QED BY <2>2, <2>4, <2>5, <2>6
  <1> HIDE DEF answers, reqs
  <1>5. r \in Seq(Reply)
    BY <1>4, EngineHas
  <1>6. /\ Types' /\ \A e \in Engines : e # d => SameEngine(e)
        /\ pipe'[d] = Tail(pipe[d]) /\ reply'[d] = r /\ cache'[d] = k
    <2> HIDE DEF r, k
    <2>1. Tail(pipe[d]) \in Seq(Commands) /\ Types
      BY <1>1, EngineHas
    <2> QED BY <1>1, <1>3, <1>5, <2>1, ReplyTypes
  <1>7. SameCall(d) /\ EngineFrame(d)
    BY <1>1, <1>6 DEF SameCall, EngineFrame, OnlyEngines, main
  <1>8. /\ AtWork(d)' /\ OneReply(d)' /\ Handshake(d)' /\ pipe'[d] = << >>
        /\ reply'[d] = <<Replied(answers)>> /\ reply[d] = << >>
    <2>1. Waited(pipe[d][1]) /\ wst'[d] = "idle"
      BY <1>1 DEF Waited
    <2> QED BY <1>1, <1>6, <1>7, <2>1, EngineHas, RepliedTo
  <1>9. reply'[d][1] = Replied(answers)
    BY <1>8, Short, Zenon
  <1>10. reply'[d][1].ok /\ reply'[d][1].answers = answers
    BY <1>9 DEF Replied
  <1>11. ASSUME Joined(d)
         PROVE  OnlyOurs(d)' /\ Fresh(d)'
    <2>1. OnlyOurs(d)' /\ cpc = "infer" /\ th[d[1]] = "wait"
      <3>1. reply'[d][1].ok /\ Spells(reply'[d][1].answers, pipe[d][1].requests)
        BY <1>4, <1>10 DEF reqs
      <3> QED BY <1>1, <1>7, <1>8, <1>11, <3>1, EngineHas, AfterInfer
    <2>2. ASSUME Raised \notin faults
          PROVE  /\ held = {version} /\ cache[d] \subseteq {version}
                 /\ Loaded(d, NBuckets)
      <3>1. /\ Loaded(d, NBuckets) /\ cache[d] \subseteq {version}
        BY <2>1, <2>2, EngineHas DEF IInv, ThreadsLive, EngineInv, Fresh
      <3>2. \A b \in Buckets : weights[d][b] = version
        BY <1>1, <3>1 DEF Loaded, Buckets
      <3>3. 1 \in Buckets
        BY SizeAssumption DEF Buckets
      <3> QED BY <3>1, <3>2, <3>3
    <2>3. Raised \notin faults => By(answers, version)
      BY <1>4, <2>2 DEF By
    <2>4. Raised \notin faults => Loaded(d, NBuckets)' /\ k \subseteq {version}
      BY <1>1, <1>7, <2>2 DEF Loaded, SameCall
    <2>5. Raised \notin faults => By(reply'[d][1].answers, version)
      BY <1>10, <2>3
    <2> HIDE DEF k
    <2> QED BY <1>1, <1>6, <1>7, <2>1, <2>4, <2>5 DEF Fresh, SameCall, By
  <1>12. EngineInv(d)'
    <2>1. Joined(d)' <=> Joined(d)
      BY <1>1 DEF Joined, OnlyEngines, main
    <2> QED BY <1>8, <1>11, <2>1, NotJoined DEF EngineInv
  <1> QED BY <1>6, <1>7, <1>12, OneEngine

LEMMA InferFailsKeeps ==
  ASSUME IInv, NEW d \in Engines, InferFails(d)
  PROVE  IInv'
  <1> DEFINE r == Append(reply[d], NoResult)
  <1>1. /\ wst[d] = "idle" /\ pipe[d] # << >> /\ pipe[d][1].type = "infer"
        /\ pipe' = [pipe EXCEPT ![d] = Tail(pipe[d])]
        /\ reply' = [reply EXCEPT ![d] = r]
        /\ OnlyEngines /\ UNCHANGED <<faults, wst, comm, weights, cache>>
    BY EngineHas DEF InferFails, Ready, Command, Done, OnlyEngines
  <1>2. r \in Seq(Reply)
    <2>1. NoResult \in Reply
      BY DEF NoResult, Reply, Answered
    <2> QED BY <2>1, EngineHas
  <1>3. /\ Types' /\ \A e \in Engines : e # d => SameEngine(e)
        /\ pipe'[d] = Tail(pipe[d]) /\ reply'[d] = r
    <2> HIDE DEF r
    <2> QED BY <1>1, <1>2, EngineHas, EngineTypes
  <1>4. SameCall(d) /\ EngineFrame(d)
    BY <1>1, <1>3 DEF SameCall, EngineFrame, OnlyEngines, main
  <1>5. /\ AtWork(d)' /\ OneReply(d)' /\ Handshake(d)' /\ pipe'[d] = << >>
        /\ reply'[d] = <<NoResult>>
    <2>1. Waited(pipe[d][1]) /\ wst'[d] = "idle"
      BY <1>1 DEF Waited
    <2> QED BY <1>1, <1>3, <1>4, <2>1, EngineHas, RepliedTo
  <1>6. reply'[d][1] = NoResult
    BY <1>5, Short, Zenon
  <1>7. ASSUME Joined(d)
        PROVE  OnlyOurs(d)' /\ Fresh(d)'
    <2>1. OnlyOurs(d)' /\ cpc = "infer" /\ th[d[1]] = "wait"
      BY <1>1, <1>4, <1>5, <1>6, <1>7, EngineHas, AfterInfer
    <2>2. Raised \notin faults =>
              Loaded(d, NBuckets) /\ cache[d] \subseteq {version}
      BY <2>1, EngineHas DEF ThreadsLive, EngineInv, Fresh
    <2>3. Raised \notin faults => Loaded(d, NBuckets)'
      BY <1>1, <1>4, <2>2 DEF Loaded, SameCall
    <2>4. By(reply'[d][1].answers, version)
      BY <1>6 DEF NoResult, By
    <2> QED BY <1>1, <1>4, <2>1, <2>2, <2>3, <2>4 DEF Fresh, SameCall, By
  <1>8. EngineInv(d)'
    <2>1. Joined(d)' <=> Joined(d)
      BY <1>1 DEF Joined, OnlyEngines, main
    <2> QED BY <1>5, <1>7, <2>1, NotJoined DEF EngineInv
  <1> QED BY <1>3, <1>4, <1>8, OneEngine

(* A POST puts a command on the pipe of every engine of a server.           *)
LEMMA Posted ==
  ASSUME Types, NEW s \in Servers, NEW f \in [Engines -> Commands],
         pipe' = [e \in Engines |->
                     IF e[1] = s THEN Append(pipe[e], f[e]) ELSE pipe[e]]
  PROVE  /\ pipe' \in [Engines -> Seq(Commands)]
         /\ \A e \in Engines :
               /\ pipe[e] \in Seq(Commands) /\ f[e] \in Commands
               /\ e[1] = s => pipe'[e] = Append(pipe[e], f[e])
               /\ e[1] # s => pipe'[e] = pipe[e]
  <1>1. pipe \in [Engines -> Seq(Commands)]
    BY DEF Types
  <1>2. ASSUME NEW e \in Engines
        PROVE  /\ pipe[e] \in Seq(Commands) /\ f[e] \in Commands
               /\ Append(pipe[e], f[e]) \in Seq(Commands)
    BY <1>1
  <1> QED BY <1>2

LEMMA Sent ==
  ASSUME Types, NEW s \in Servers, NEW c \in Commands, Send(s, c)
  PROVE  /\ busy[s] = Free /\ pipe' \in [Engines -> Seq(Commands)]
         /\ \A e \in Engines :
               /\ pipe[e] \in Seq(Commands)
               /\ e[1] = s => pipe'[e] = Append(pipe[e], c)
               /\ e[1] # s => pipe'[e] = pipe[e]
  <1> DEFINE f == [e \in Engines |-> c]
  <1>1. f \in [Engines -> Commands] /\ \A e \in Engines : f[e] = c
    OBVIOUS
  <1>2. pipe' = [e \in Engines |->
                    IF e[1] = s THEN Append(pipe[e], f[e]) ELSE pipe[e]]
    BY DEF Send
  <1> HIDE DEF f
  <1> QED BY <1>1, <1>2, Posted DEF Send

(* What the client's own steps may rely on.                                 *)
LEMMA ClientHas ==
  ASSUME IInv
  PROVE  /\ Types /\ ThreadsLive /\ GotAll
         /\ \A e \in Engines : EngineInv(e) /\ e[1] \in Servers
         /\ at \in Servers /\ client \in Nat /\ client \in Clients
         /\ NServers \in Nat \ {0} /\ Servers = 1..NServers
         /\ NBuckets \in Nat \ {0} /\ Buckets = 1..NBuckets
         /\ bucket \in Buckets /\ version \in Version
  <1>1. Types /\ ThreadsLive /\ GotAll /\ \A e \in Engines : EngineInv(e)
    BY DEF IInv
  <1>2. client \in Clients /\ MaxClient \in Nat /\ at \in Servers
        /\ bucket \in Buckets /\ version \in Version
    BY <1>1, BoundAssumption DEF Types
  <1> QED BY <1>1, <1>2, EnginesAre, SizeAssumption DEF Clients, Servers, Buckets

LEMMA CloseAllKeeps ==
  ASSUME IInv, CloseAll
  PROVE  IInv'
  <1>1. /\ cpc \in {"close", "atexit"}
        /\ Send(at, Close) \/ UNCHANGED pipe
        /\ \/ at < NServers /\ at' = at + 1 /\ cpc' = cpc
           \/ at' = 1 /\ cpc = "close" /\ cpc' = "init"
           \/ at' = 1 /\ cpc = "atexit" /\ cpc' = "gone"
        /\ UNCHANGED <<faults, client, version, pushed, bucket, asked, th, part,
                       got, busy, wst, comm, weights, cache, reply>>
    BY DEF CloseAll
  <1>2. Close \in Commands /\ Close.type = "close"
    BY CommandTypes
  <1>3. at' \in Servers /\ pipe' \in [Engines -> Seq(Commands)]
    <2>1. at' \in Servers
      BY <1>1, ClientHas
    <2>2. pipe' \in [Engines -> Seq(Commands)]
      BY <1>1, <1>2, ClientHas, Sent DEF Types
    <2> QED BY <2>1, <2>2
  <1>4. /\ cpc' \in {"close", "atexit", "init", "gone"}
        /\ cpc' = "init" => at' = 1
    BY <1>1
  <1>5. Types'
    BY <1>1, <1>3, <1>4, ClientHas DEF Types, Phases
  <1>6. ThreadsLive' /\ GotAll'
    BY <1>1, <1>4, ClientHas DEF ThreadsLive, GotAll, Calling
  <1>7. ASSUME NEW e \in Engines
        PROVE  EngineInv(e)'
    <2>1. /\ AtWork(e)' /\ OneReply(e)' /\ OwnInit(e)' = OwnInit(e)
          /\ \A i \in DOMAIN pipe'[e] :
                 pipe'[e][i].type = "init" => pipe'[e][i].client <= client
      <3>1. CASE pipe'[e] = pipe[e]
        BY <1>1, <3>1, ClientHas
           DEF EngineInv, AtWork, OneReply, OwnInit, Handshake
      <3>2. CASE Send(at, Close) /\ e[1] = at
        <4>1. /\ busy[e[1]] = Free /\ pipe[e] \in Seq(Commands)
              /\ pipe'[e] = Append(pipe[e], Close)
          BY <1>2, <3>2, ClientHas, Sent
        <4>2. ~Waited(Close) /\ busy'[e[1]] = Free
          BY <1>1, <1>2, <4>1 DEF Waited
        <4>3. EngineInv(e)
          BY ClientHas
        <4>4. wst'[e] = wst[e] /\ reply'[e] = reply[e] /\ client' = client
          BY <1>1
        <4> QED BY <1>2, <4>1, <4>2, <4>3, <4>4, Appended
      <3>3. CASE Send(at, Close) /\ e[1] # at
        <4>1. pipe'[e] = pipe[e]
          BY <1>2, <3>3, ClientHas, Sent
        <4> QED BY <3>1, <4>1
      <3> QED BY <1>1, <3>1, <3>2, <3>3
    <2>2. ~Joined(e)'
      BY <1>4, ClientHas DEF Joined, Calling
    <2>3. Handshake(e)'
      <3>1. cpc' \in {"close", "init"} => OwnInit(e) = {}
        BY <1>1, ClientHas DEF EngineInv, Handshake
      <3> QED BY <1>1, <1>4, <2>1, <3>1 DEF Handshake
    <2> QED BY <2>1, <2>2, <2>3, NotJoined DEF EngineInv
  <1> QED BY <1>5, <1>6, <1>7 DEF IInv

(* When no call may begin before the next client has joined the engines.    *)
LEMMA ClientLeft ==
  ASSUME IInv, cpc' \in {"gone", "atexit"}, client' = client,
         UNCHANGED <<busy, engine>>, NEW e \in Engines
  PROVE  EngineInv(e)'
  <1>1. AtWork(e)' /\ OneReply(e)'
    BY ClientHas DEF EngineInv, AtWork, OneReply, Waited, engine
  <1>2. Handshake(e)'
    BY ClientHas DEF EngineInv, Handshake, engine
  <1>3. ~Joined(e)'
    BY DEF Joined, Calling
  <1> QED BY <1>1, <1>2, <1>3, NotJoined DEF EngineInv

LEMMA InitPostFailsKeeps ==
  ASSUME IInv, InitPostFails
  PROVE  IInv'
  <1>1. /\ cpc = "init" /\ cpc' = "gone"
        /\ UNCHANGED <<faults, client, version, pushed, at, bucket, asked, th,
                       part, got, busy, engine>>
    BY DEF InitPostFails
  <1>2. Types' /\ ThreadsLive' /\ GotAll'
    BY <1>1, ClientHas
       DEF Types, Phases, ThreadsLive, GotAll, Calling, engine
  <1>3. \A e \in Engines : EngineInv(e)'
    BY <1>1, ClientLeft
  <1> QED BY <1>2, <1>3 DEF IInv

LEMMA CrashKeeps ==
  ASSUME IInv, Crash
  PROVE  IInv'
  <1>1. /\ cpc' = "gone" /\ th' = NoThread /\ part' = [s \in Servers |-> << >>]
        /\ got' = << >>
        /\ UNCHANGED <<faults, client, version, pushed, at, bucket, asked,
                       busy, engine>>
    BY DEF Crash
  <1>2. NoThread \in [Servers -> ThreadStates] /\ part' \in [Servers -> Answered]
        /\ got' \in Answered /\ \A s \in Servers : NoThread[s] = "none"
    BY <1>1 DEF NoThread, ThreadStates, Answered
  <1>3. Types' /\ ThreadsLive' /\ GotAll'
    BY <1>1, <1>2, ClientHas
       DEF Types, Phases, ThreadsLive, GotAll, Calling, engine
  <1>4. \A e \in Engines : EngineInv(e)'
    BY <1>1, ClientLeft
  <1> QED BY <1>3, <1>4 DEF IInv

(* A new client has sent nothing yet.                                       *)
LEMMA RestartKeeps ==
  ASSUME IInv, Restart
  PROVE  IInv'
  <1>1. /\ cpc = "gone" /\ client < MaxClient /\ client' = client + 1
        /\ cpc' = "close" /\ at' = 1 /\ pushed' = FALSE
        /\ UNCHANGED <<faults, version, bucket, asked, th, part, got, busy, engine>>
    BY DEF Restart
  <1>2. client' \in Clients /\ at' \in Servers
    <2>1. MaxClient \in Nat /\ client \in Nat /\ NServers \in Nat \ {0}
          /\ Servers = 1..NServers
      BY ClientHas, BoundAssumption
    <2> QED BY <1>1, <2>1 DEF Clients
  <1>3. Types' /\ ThreadsLive' /\ GotAll'
    BY <1>1, <1>2, ClientHas
       DEF Types, Phases, ThreadsLive, GotAll, Calling, engine
  <1>4. ASSUME NEW e \in Engines
        PROVE  EngineInv(e)'
    <2>1. AtWork(e)' /\ OneReply(e)'
      BY <1>1, ClientHas DEF EngineInv, AtWork, OneReply, Waited, engine
    <2>2. ASSUME NEW i \in DOMAIN pipe[e], pipe[e][i].type = "init"
          PROVE  pipe[e][i].client <= client' /\ pipe[e][i].client # client'
      <3>1. pipe[e][i] \in Commands
        BY ClientHas DEF Types
      <3>2. pipe[e][i].client \in Nat /\ pipe[e][i].client <= client
        BY <2>2, <3>1, CommandKinds, ClientHas, BoundAssumption
           DEF Clients, EngineInv, Handshake
      <3> QED BY <1>1, <3>2, ClientHas
    <2>3. Handshake(e)'
      BY <1>1, <2>2 DEF Handshake, OwnInit, engine
    <2>4. ~Joined(e)'
      BY <1>1 DEF Joined, Calling
    <2> QED BY <2>1, <2>3, <2>4, NotJoined DEF EngineInv
  <1> QED BY <1>3, <1>4 DEF IInv

(* The client's handshake is the last thing on the pipes of a server,       *)
LEMMA InitPostKeeps ==
  ASSUME IInv, InitPost
  PROVE  IInv'
  <1>1. /\ cpc = "init" /\ cpc' = "rendezvous" /\ Send(at, InitComm(client))
        /\ UNCHANGED <<faults, client, version, pushed, at, bucket, asked, th,
                       part, got, busy, wst, comm, weights, cache, reply>>
    BY DEF InitPost
  <1>2. /\ InitComm(client) \in Commands /\ InitComm(client).type = "init"
        /\ InitComm(client).client = client
    BY CommandTypes, ClientHas
  <1>3. /\ busy[at] = Free /\ pipe' \in [Engines -> Seq(Commands)]
        /\ \A e \in Engines : /\ pipe[e] \in Seq(Commands)
                              /\ e[1] = at => pipe'[e] = Append(pipe[e], InitComm(client))
                              /\ e[1] # at => pipe'[e] = pipe[e]
    BY <1>1, <1>2, ClientHas, Sent
  <1>4. Types' /\ ThreadsLive' /\ GotAll'
    <2>1. Types'
      BY <1>1, <1>3, ClientHas DEF Types, Phases
    <2> QED BY <1>1, <2>1, ClientHas DEF ThreadsLive, GotAll, Calling
  <1>5. ASSUME NEW e \in Engines
        PROVE  EngineInv(e)'
    <2>0. EngineInv(e)
      BY ClientHas
    <2>1. CASE e[1] = at
      <3>1. busy'[e[1]] = Free /\ ~Waited(InitComm(client))
        BY <1>1, <1>2, <1>3, <2>1 DEF Waited
      <3>2. OwnInit(e) = {}
        BY <1>1, <2>0, <2>1, ClientHas DEF EngineInv, Handshake
      <3>3. /\ AtWork(e)' /\ OneReply(e)'
            /\ OwnInit(e)' \subseteq OwnInit(e) \cup {Len(pipe'[e])}
            /\ \A i \in DOMAIN pipe'[e] :
                   pipe'[e][i].type = "init" => pipe'[e][i].client <= client
        <4>1. /\ wst'[e] = wst[e] /\ reply'[e] = reply[e] /\ client' = client
              /\ busy[e[1]] = Free /\ pipe[e] \in Seq(Commands)
              /\ pipe'[e] = Append(pipe[e], InitComm(client))
              /\ InitComm(client).client <= client
          BY <1>1, <1>2, <1>3, <2>1, ClientHas
        <4> QED BY <1>2, <2>0, <3>1, <4>1, Appended
      <3>4. Handshake(e)'
        BY <1>1, <2>1, <3>1, <3>2, <3>3 DEF Handshake
      <3>5. ~Joined(e)'
        BY <1>1, <2>1, ClientHas DEF Joined, Calling
      <3> QED BY <3>3, <3>4, <3>5, NotJoined DEF EngineInv
    <2>2. CASE e[1] # at
      <3>1. SameEngine(e) /\ busy'[e[1]] = busy[e[1]]
        BY <1>1, <1>3, <2>2 DEF SameEngine
      <3>2. AtWork(e)' /\ OneReply(e)'
        BY <2>0, <3>1 DEF EngineInv, AtWork, OneReply, Waited, SameEngine
      <3>3. Handshake(e)'
        BY <1>1, <2>0, <2>2, <3>1 DEF EngineInv, Handshake, OwnInit, SameEngine
      <3>4. OnlyOurs(e)'
        BY <1>1, <2>0, <3>1
           DEF EngineInv, OnlyOurs, Joined, Calling, Rested, SameEngine
      <3>5. Fresh(e)'
        BY <1>1 DEF Fresh
      <3> QED BY <3>2, <3>3, <3>4, <3>5 DEF EngineInv
    <2> QED BY <2>1, <2>2
  <1> QED BY <1>4, <1>5 DEF IInv

(* so that the engine that meets the client has nothing left to do.         *)
LEMMA RendezvousKeeps ==
  ASSUME IInv, Rendezvous
  PROVE  IInv'
  <1>1. /\ cpc = "rendezvous"
        /\ \A e \in EnginesOf(at) :
               wst[e] = "rendezvous" /\ Head(pipe[e]).client = client
        /\ comm' = [e \in Engines |-> IF e[1] = at THEN client ELSE comm[e]]
        /\ wst' = [e \in Engines |-> IF e[1] = at THEN "idle" ELSE wst[e]]
        /\ pipe' = [e \in Engines |-> IF e[1] = at THEN Tail(pipe[e]) ELSE pipe[e]]
        /\ \/ at < NServers /\ at' = at + 1 /\ cpc' = "init"
           \/ at = NServers /\ at' = 1 /\ cpc' = "idle"
        /\ UNCHANGED <<faults, client, version, pushed, bucket, asked, th, part,
                       got, busy, weights, cache, reply>>
    BY ClientHas DEF Rendezvous
  <1>2. /\ wst \in [Engines -> {"idle", "rendezvous", "recv", "load"}]
        /\ comm \in [Engines -> Clients \cup {NoComm}]
        /\ pipe \in [Engines -> Seq(Commands)]
    BY ClientHas DEF Types
  <1>3. ASSUME NEW e \in Engines, e[1] = at
        PROVE  /\ pipe'[e] = << >> /\ wst'[e] = "idle" /\ comm'[e] = client
               /\ busy[e[1]] = Free /\ Tail(pipe[e]) = << >>
    <2>0. EngineInv(e) /\ e \in EnginesOf(at) /\ pipe[e] \in Seq(Commands)
      BY <1>2, <1>3, ClientHas DEF EnginesOf
    <2>1. /\ pipe[e] # << >> /\ pipe[e][1].type = "init"
          /\ Head(pipe[e]).client = client
      BY <1>1, <2>0 DEF EngineInv, AtWork
    <2>2. /\ Head(pipe[e]) = pipe[e][1] /\ DOMAIN pipe[e] = 1..Len(pipe[e])
          /\ Len(pipe[e]) \in Nat \ {0} /\ Tail(pipe[e]) \in Seq(Commands)
          /\ Len(Tail(pipe[e])) = Len(pipe[e]) - 1
      BY <2>0, <2>1, TailOf
    <2>3. 1 \in OwnInit(e)
      BY <2>1, <2>2 DEF OwnInit
    <2>4. OwnInit(e) \subseteq {Len(pipe[e])} /\ busy[e[1]] = Free
      BY <1>1, <1>3, <2>0, ClientHas DEF EngineInv, Handshake
    <2>5. Len(pipe[e]) = 1
      BY <2>3, <2>4
    <2>6. Tail(pipe[e]) = << >>
      <3>1. PICK q \in Seq(Commands) : q = Tail(pipe[e]) /\ Len(q) = Len(pipe[e]) - 1
        BY <2>2, Zenon
      <3>2. Len(q) = 0
        BY <2>5, <3>1
      <3>3. q = << >>
        BY <3>1, <3>2
      <3> QED BY <3>1, <3>3, Zenon
    <2> QED BY <1>1, <1>3, <2>4, <2>6
  <1>4. ASSUME NEW e \in Engines, e[1] # at
        PROVE  SameEngine(e)
    BY <1>1, <1>4 DEF SameEngine
  <1>5. Types'
    <2>1. at' \in Servers /\ cpc' \in Phases
      BY <1>1, ClientHas DEF Phases
    <2>2. /\ wst' \in [Engines -> {"idle", "rendezvous", "recv", "load"}]
          /\ comm' \in [Engines -> Clients \cup {NoComm}]
      BY <1>1, <1>2, ClientHas
    <2>3. pipe' \in [Engines -> Seq(Commands)]
      <3>1. ASSUME NEW e \in Engines, e[1] = at
            PROVE  Tail(pipe[e]) \in Seq(Commands)
        <4>1. << >> \in Seq(Commands)
          OBVIOUS
        <4>2. Tail(pipe[e]) = << >>
          BY <1>3, <3>1, Zenon
        <4> QED BY <4>1, <4>2, Zenon
      <3> QED BY <1>1, <1>2, <3>1
    <2> QED BY <1>1, <2>1, <2>2, <2>3, ClientHas DEF Types
  <1>6. ThreadsLive' /\ GotAll' /\ ~pushed'
    BY <1>1, ClientHas DEF ThreadsLive, GotAll, Calling
  <1>7. ASSUME NEW e \in Engines
        PROVE  EngineInv(e)'
    <2>0. EngineInv(e)
      BY ClientHas
    <2>1. CASE e[1] = at
      <3>1. /\ pipe'[e] = << >> /\ wst'[e] = "idle" /\ comm'[e] = client
            /\ busy[e[1]] = Free
        BY <1>3, <2>1
      <3>2. AtWork(e)'
        BY <3>1 DEF AtWork
      <3>3. OneReply(e)'
        BY <1>1, <2>0, <3>1 DEF EngineInv, OneReply
      <3>4. Handshake(e)'
        <4>1. DOMAIN << >> = {}
          OBVIOUS
        <4>2. DOMAIN pipe'[e] = {}
          BY <3>1, <4>1, Zenon
        <4> QED BY <1>1, <4>2 DEF Handshake, OwnInit
      <3>5. OnlyOurs(e)'
        BY <1>1, <3>1 DEF OnlyOurs, Rested
      <3> QED BY <1>1, <1>6, <3>2, <3>3, <3>4, <3>5 DEF EngineInv, Fresh
    <2>2. CASE e[1] # at
      <3>1. SameEngine(e)
        BY <1>4, <2>2
      <3>2. AtWork(e)' /\ OneReply(e)'
        <4>1. AtWork(e)'
          BY <1>1, <2>0, <3>1 DEF EngineInv, AtWork, SameEngine
        <4>2. OneReply(e)'
          BY <1>1, <2>0, <3>1 DEF EngineInv, OneReply, Waited, SameEngine
        <4> QED BY <4>1, <4>2
      <3>3. Handshake(e)'
        <4>1. e[1] >= at' /\ cpc' = "init" => e[1] >= at
          BY <1>1, <2>2, ClientHas
        <4>2. cpc' = "init" /\ e[1] >= at' => OwnInit(e) = {}
          BY <1>1, <2>0, <2>2, <4>1, ClientHas DEF EngineInv, Handshake
        <4>3. OwnInit(e)' = OwnInit(e)
          BY <1>1, <3>1 DEF OwnInit, SameEngine
        <4> QED BY <1>1, <2>0, <3>1, <4>2, <4>3 DEF EngineInv, Handshake, SameEngine
      <3>4. OnlyOurs(e)'
        <4>1. Joined(e)' => Joined(e)
          BY <1>1, <2>2, ClientHas DEF Joined, Calling
        <4> QED BY <1>1, <2>0, <3>1, <4>1 DEF EngineInv, OnlyOurs, Rested, SameEngine
      <3>5. Fresh(e)'
        BY <1>1, <1>6 DEF Fresh
      <3> QED BY <3>2, <3>3, <3>4, <3>5 DEF EngineInv
    <2> QED BY <2>1, <2>2
  <1> QED BY <1>5, <1>6, <1>7 DEF IInv

(* A call begins when every engine rests.                                   *)
LEMMA BeginPushKeeps ==
  ASSUME IInv, BeginPush
  PROVE  IInv'
  <1>1. /\ cpc = "idle" /\ version < MaxVersion /\ version' = version + 1
        /\ bucket' = 1 /\ cpc' = "update" /\ th' = Posting /\ got' = << >>
        /\ UNCHANGED <<faults, client, pushed, at, asked, part, busy, engine>>
    BY DEF BeginPush
  <1>2. /\ version' \in Version /\ bucket' \in Buckets /\ got' \in Answered
        /\ Posting \in [Servers -> ThreadStates]
        /\ \A s \in Servers : Posting[s] = "post"
    <2>1. version' \in Version
      <3>1. version \in 0..MaxVersion /\ MaxVersion \in Nat
        BY ClientHas, BoundAssumption DEF Version
      <3> QED BY <1>1, <3>1 DEF Version
    <2>2. bucket' \in Buckets
      BY <1>1, ClientHas
    <2> QED BY <1>1, <2>1, <2>2 DEF Answered, Posting, ThreadStates
  <1>3. Types' /\ ThreadsLive' /\ GotAll'
    <2>1. Types'
      BY <1>1, <1>2, ClientHas DEF Types, Phases, engine
    <2> QED BY <1>1, <1>2, <2>1, ClientHas DEF ThreadsLive, GotAll, Calling
  <1>4. ASSUME NEW e \in Engines
        PROVE  EngineInv(e)'
    <2>0. EngineInv(e) /\ th'[e[1]] = "post"
      BY <1>1, <1>2, ClientHas
    <2>1. AtWork(e)' /\ OneReply(e)' /\ Handshake(e)'
      BY <1>1, <2>0 DEF EngineInv, AtWork, OneReply, Waited, Handshake, engine
    <2>2. comm[e] = client /\ busy[e[1]] = Free /\ Rested(e)
      BY <1>1, <2>0 DEF EngineInv, OnlyOurs, Joined
    <2>3. OnlyOurs(e)'
      BY <1>1, <2>0, <2>2 DEF OnlyOurs, Updating, Behind, Rested, engine
    <2>4. Fresh(e)'
      BY <1>1, <2>0 DEF Fresh, Loaded
    <2> QED BY <2>1, <2>3, <2>4 DEF EngineInv
  <1> QED BY <1>3, <1>4 DEF IInv

LEMMA BeginInferKeeps ==
  ASSUME IInv, BeginInfer
  PROVE  IInv'
  <1>1. /\ cpc = "idle" /\ pushed /\ cpc' = "infer" /\ th' = Posting /\ got' = << >>
        /\ UNCHANGED <<faults, client, version, pushed, at, bucket, part, busy,
                       engine>>
    BY DEF BeginInfer
  <1>2. /\ got' \in Answered /\ Posting \in [Servers -> ThreadStates]
        /\ \A s \in Servers : Posting[s] = "post"
    BY <1>1 DEF Answered, Posting, ThreadStates
  <1>3. asked' \in Seq(Nat)
    <2>1. PICK n \in Lengths \ {0} : asked' = [q \in 1..n |-> q]
      BY DEF BeginInfer
    <2>2. n \in Nat
      BY BoundAssumption
    <2> QED BY <2>1, <2>2
  <1>4. Types' /\ ThreadsLive' /\ GotAll'
    <2>1. Types'
      BY <1>1, <1>2, <1>3, ClientHas DEF Types, Phases, engine
    <2> QED BY <1>1, <1>2, <2>1, ClientHas DEF ThreadsLive, GotAll, Calling
  <1>5. ASSUME NEW e \in Engines
        PROVE  EngineInv(e)'
    <2>0. EngineInv(e) /\ th'[e[1]] = "post"
      BY <1>1, <1>2, ClientHas
    <2>1. AtWork(e)' /\ OneReply(e)' /\ Handshake(e)'
      BY <1>1, <2>0 DEF EngineInv, AtWork, OneReply, Waited, Handshake, engine
    <2>2. comm[e] = client /\ busy[e[1]] = Free /\ Rested(e)
      BY <1>1, <2>0 DEF EngineInv, OnlyOurs, Joined
    <2>3. OnlyOurs(e)'
      BY <1>1, <2>0, <2>2 DEF OnlyOurs, Inferring, Rested, engine
    <2>4. Fresh(e)'
      <3>1. Raised \notin faults =>
                Loaded(e, NBuckets) /\ cache[e] \subseteq {version}
        BY <1>1, <2>0 DEF EngineInv, Fresh
      <3>2. Raised \notin faults => Loaded(e, NBuckets)'
        BY <1>1, <3>1 DEF Loaded, Push, engine
      <3> QED BY <1>1, <2>0, <3>1, <3>2 DEF Fresh, engine
    <2> QED BY <2>1, <2>3, <2>4 DEF EngineInv
  <1> QED BY <1>4, <1>5 DEF IInv

(* A thread's step is about its own server.                                 *)
LEMMA OneThread ==
  ASSUME IInv, NEW s \in Servers, Types', cpc \in Calling, th'[s] # "none",
         UNCHANGED <<faults, client, version, pushed, cpc, at, bucket, asked, got>>,
         \A r \in Servers : r # s => /\ th'[r] = th[r] /\ part'[r] = part[r]
                                     /\ busy'[r] = busy[r],
         \A e \in Engines : e[1] # s => SameEngine(e),
         \A e \in Engines : e[1] = s => EngineInv(e)'
  PROVE  IInv'
  <1>1. ThreadsLive' /\ GotAll'
    BY ClientHas DEF ThreadsLive, GotAll, Calling
  <1>2. ASSUME NEW e \in Engines
        PROVE  EngineInv(e)'
    <2>1. CASE e[1] # s
      <3>1. SameCall(e) /\ SameEngine(e) /\ EngineInv(e)
        BY <2>1, ClientHas DEF SameCall
      <3> QED BY <3>1, Same
    <2> QED BY <2>1
  <1> QED BY <1>1, <1>2 DEF IInv

LEMMA PostFailsKeeps ==
  ASSUME IInv, NEW s \in Servers, PostFails(s)
  PROVE  IInv'
  <1>1. /\ th[s] = "post" /\ th' = [th EXCEPT ![s] = "failed"]
        /\ UNCHANGED <<faults, client, version, pushed, cpc, at, bucket, asked,
                       part, got, busy, engine>>
    BY DEF PostFails
  <1>2. th \in [Servers -> ThreadStates] /\ cpc \in Calling
    BY <1>1, ClientHas DEF Types, ThreadsLive
  <1>3. /\ th' \in [Servers -> ThreadStates] /\ th'[s] = "failed"
        /\ \A r \in Servers : r # s => th'[r] = th[r]
    BY <1>1, <1>2 DEF ThreadStates
  <1>4. Types'
    BY <1>1, <1>3, ClientHas DEF Types, engine
  <1>5. \A e \in Engines : SameEngine(e)
    BY <1>1 DEF SameEngine, engine
  <1>6. ASSUME NEW e \in Engines, e[1] = s
        PROVE  EngineInv(e)'
    <2>0. EngineInv(e) /\ th[e[1]] = "post" /\ th'[e[1]] = "failed"
          /\ busy'[e[1]] = busy[e[1]] /\ part'[e[1]] = part[e[1]]
      BY <1>1, <1>3, <1>6, ClientHas
    <2>1. AtWork(e)' /\ OneReply(e)' /\ Handshake(e)'
      BY <1>1, <2>0 DEF EngineInv, AtWork, OneReply, Waited, Handshake, OwnInit, engine
    <2>2. OnlyOurs(e)'
      <3>1. comm[e] = client
        BY <1>2, <2>0 DEF EngineInv, OnlyOurs, Joined
      <3>2. CASE cpc = "update"
        <4>1. busy[e[1]] = Free /\ Behind(e, bucket - 1)
          BY <2>0, <3>2 DEF EngineInv, OnlyOurs, Joined, Calling, Updating
        <4>2. Updating(e)'
          BY <1>1, <2>0, <4>1 DEF Updating, Behind, Rested, Loading, Push, engine
        <4> QED BY <1>1, <3>1, <3>2, <4>2 DEF OnlyOurs, engine
      <3>3. CASE cpc = "reset"
        <4>1. busy[e[1]] = Free /\ Behind(e, NBuckets)
          BY <2>0, <3>3 DEF EngineInv, OnlyOurs, Joined, Calling, Resetting
        <4>2. Resetting(e)'
          BY <1>1, <2>0, <4>1 DEF Resetting, Behind, Rested, Loading, Push, engine
        <4> QED BY <1>1, <3>1, <3>3, <4>2 DEF OnlyOurs, engine
      <3>4. CASE cpc = "infer"
        <4>1. busy[e[1]] = Free /\ Rested(e)
          BY <2>0, <3>4 DEF EngineInv, OnlyOurs, Joined, Calling, Inferring
        <4>2. Inferring(e)'
          BY <1>1, <2>0, <4>1 DEF Inferring, Rested, engine
        <4> QED BY <1>1, <3>1, <3>4, <4>2 DEF OnlyOurs, engine
      <3> QED BY <1>2, <3>2, <3>3, <3>4 DEF Calling
    <2>3. Fresh(e)'
      <3>1. \A n : Loaded(e, n)' <=> Loaded(e, n)
        BY <1>1 DEF Loaded, Push, engine
      <3> QED BY <1>1, <2>0, <3>1 DEF EngineInv, Fresh, Loaded, Push, engine
    <2> QED BY <2>1, <2>2, <2>3 DEF EngineInv
  <1> QED BY <1>1, <1>2, <1>3, <1>4, <1>5, <1>6, OneThread

(* What a POST adds to the pipe of an engine.                               *)
LEMMA AppendShort ==
  /\ \A x : Append(<< >>, x) = <<x>>
  /\ \A x, y : Append(<<x>>, y) = <<x, y>>
  <1>1. ASSUME NEW x
        PROVE  Append(<< >>, x) = <<x>>
    OBVIOUS
  <1>2. ASSUME NEW x, NEW y
        PROVE  Append(<<x>>, y) = <<x, y>>
    <2>0. PICK T : T = {x, y}
      OBVIOUS
    <2>1. x \in T /\ y \in T
      BY <2>0
    <2>2. PICK s \in Seq(T) : s = <<x>> /\ Len(s) = 1 /\ s[1] = x
      <3>1. <<x>> \in Seq(T) /\ Len(<<x>>) = 1 /\ <<x>>[1] = x
        BY <2>1
      <3> QED BY <3>1, Zenon
    <2>3. PICK p \in Seq(T) : /\ p = <<x, y>> /\ Len(p) = 2
                              /\ p[1] = x /\ p[2] = y
      <3>1. /\ <<x, y>> \in Seq(T) /\ Len(<<x, y>>) = 2
            /\ <<x, y>>[1] = x /\ <<x, y>>[2] = y
        BY <2>1
      <3> QED BY <3>1, Zenon
    <2>4. /\ Append(s, y) \in Seq(T) /\ Len(Append(s, y)) = 2
          /\ Append(s, y)[1] = x /\ Append(s, y)[2] = y
      BY <2>1, <2>2, AppendOf
    <2>5. PICK q \in Seq(T) : /\ q = Append(s, y) /\ Len(q) = 2
                              /\ q[1] = x /\ q[2] = y
      BY <2>4, Zenon
    <2>6. p = q
      <3>1. Len(p) = Len(q) /\ \A i \in 1..Len(p) : p[i] = q[i]
        BY <2>3, <2>5
      <3> QED BY <3>1, SeqEqual
    <2> QED BY <2>2, <2>3, <2>5, <2>6, Zenon
  <1> QED BY <1>1, <1>2

PostedTo(s, w) ==
    CASE cpc = "update" -> Push(bucket)
      [] cpc = "reset" -> Reset
      [] cpc = "infer" -> Infer(EngineRequests(s, w))
PostedCommand(e) == PostedTo(e[1], e[2])

LEMMA PostKeeps ==
  ASSUME IInv, NEW s \in Servers, Post(s)
  PROVE  IInv'
  <1>1. /\ th[s] = "post" /\ th' = [th EXCEPT ![s] = "wait"]
        /\ UNCHANGED <<faults, client, version, pushed, cpc, at, bucket, asked,
                       part, got, wst, comm, weights, cache, reply>>
    BY DEF Post
  <1>2. th \in [Servers -> ThreadStates] /\ cpc \in Calling
    BY <1>1, ClientHas DEF Types, ThreadsLive
  <1>3. /\ busy[s] = Free
        /\ pipe' = [e \in Engines |->
                       IF e[1] = s THEN Append(pipe[e], PostedTo(s, e[2]))
                       ELSE pipe[e]]
        /\ busy' = IF cpc = "update" THEN busy ELSE [busy EXCEPT ![s] = client]
    <2>1. CASE cpc = "update"
      <3>1. \A w : PostedTo(s, w) = Update(client, version, bucket)
        BY <2>1 DEF PostedTo, Push
      <3> QED BY <1>1, <2>1, <3>1 DEF Post, Send
    <2>2. CASE cpc = "reset"
      <3>1. \A w : PostedTo(s, w) = Reset
        BY <2>2 DEF PostedTo
      <3> QED BY <1>1, <2>2, <3>1 DEF Post, Send
    <2>3. CASE cpc = "infer"
      <3>1. \A w : PostedTo(s, w) = Infer(EngineRequests(s, w))
        BY <2>3 DEF PostedTo
      <3> QED BY <1>1, <2>3, <3>1 DEF Post
    <2> QED BY <1>2, <2>1, <2>2, <2>3 DEF Calling
  <1>4. ASSUME NEW e \in Engines, e[1] = s
        PROVE  /\ pipe'[e] = Append(pipe[e], PostedCommand(e))
               /\ PostedCommand(e) \in Commands
               /\ PostedCommand(e).type = cpc
    <2>1. EngineRequests(s, e[2]) = Requested(e)
      BY <1>4 DEF Requested
    <2>2. Requested(e) \in Seq(Nat)
      <3>1. asked \in Seq(Nat) /\ e[2] \in 1..NWorkers
        BY ClientHas, EnginesAre DEF Types
      <3> QED BY <2>1, <3>1, RequestsTyped
    <2>3. pipe'[e] = Append(pipe[e], PostedCommand(e))
      BY <1>3, <1>4, <2>1 DEF PostedCommand
    <2>4. CASE cpc = "update"
      <3>1. PostedCommand(e) = Update(client, version, bucket)
        BY <2>4 DEF PostedCommand, PostedTo, Push
      <3> QED BY <2>3, <2>4, <3>1, ClientHas, CommandTypes
    <2>5. CASE cpc = "reset"
      <3>1. PostedCommand(e) = Reset
        BY <2>5 DEF PostedCommand, PostedTo
      <3> QED BY <2>3, <2>5, <3>1, CommandTypes
    <2>6. CASE cpc = "infer"
      <3>1. PostedCommand(e) = Infer(Requested(e))
        BY <1>4, <2>1, <2>6 DEF PostedCommand, PostedTo
      <3> QED BY <2>2, <2>3, <2>6, <3>1, CommandTypes
    <2> QED BY <1>2, <2>4, <2>5, <2>6 DEF Calling
  <1>5. /\ pipe' \in [Engines -> Seq(Commands)]
        /\ \A e \in Engines : pipe[e] \in Seq(Commands)
        /\ \A e \in Engines : e[1] # s => pipe'[e] = pipe[e]
    <2>1. pipe \in [Engines -> Seq(Commands)]
      BY ClientHas DEF Types
    <2>2. pipe' = [e \in Engines |-> pipe'[e]]
      BY <1>3
    <2>3. \A e \in Engines : e[1] # s => pipe'[e] = pipe[e]
      BY <1>3
    <2>4. ASSUME NEW e \in Engines
          PROVE  pipe'[e] \in Seq(Commands)
      <3>1. CASE e[1] = s
        <4>1. Append(pipe[e], PostedCommand(e)) \in Seq(Commands)
          BY <1>4, <2>1, <3>1
        <4> QED BY <1>4, <3>1, <4>1
      <3> QED BY <2>1, <2>3, <3>1
    <2> QED BY <2>1, <2>2, <2>3, <2>4
  <1>6. /\ th' \in [Servers -> ThreadStates] /\ th'[s] = "wait"
        /\ \A r \in Servers : r # s => th'[r] = th[r]
    BY <1>1, <1>2 DEF ThreadStates
  <1>7. /\ busy' \in [Servers -> Clients \cup {Free}]
        /\ busy'[s] = IF cpc = "update" THEN Free ELSE client
        /\ \A r \in Servers : r # s => busy'[r] = busy[r]
    <2>1. busy \in [Servers -> Clients \cup {Free}]
      BY ClientHas DEF Types
    <2> QED BY <1>3, <2>1, ClientHas
  <1>8. Types'
    BY <1>1, <1>5, <1>6, <1>7, ClientHas DEF Types
  <1>9. \A e \in Engines : e[1] # s => SameEngine(e)
    BY <1>1, <1>5 DEF SameEngine
  <1>10. ASSUME NEW e \in Engines, e[1] = s
         PROVE  EngineInv(e)'
    <2> DEFINE c == PostedCommand(e)
    <2>0. EngineInv(e) /\ th[e[1]] = "post" /\ th'[e[1]] = "wait"
          /\ busy[e[1]] = Free /\ comm[e] = client
      <3>1. EngineInv(e)
        BY ClientHas
      <3> QED BY <1>1, <1>2, <1>3, <1>6, <1>10, <3>1 DEF EngineInv, OnlyOurs, Joined
    <2>1. client # Free
      BY ClientHas DEF Free
    <2>2. c \in Commands /\ pipe'[e] = Append(pipe[e], c) /\ c.type = cpc
      BY <1>4, <1>10
    <2>3. (busy'[e[1]] = Free <=> ~Waited(c)) /\ c.type # "init"
      BY <1>2, <1>7, <1>10, <2>1, <2>2 DEF Waited, Calling
    <2> HIDE DEF c
    <2>4. /\ AtWork(e)' /\ OneReply(e)'
          /\ \A i \in DOMAIN pipe'[e] :
                 pipe'[e][i].type = "init" => pipe'[e][i].client <= client
      <3>1. /\ wst'[e] = wst[e] /\ reply'[e] = reply[e]
            /\ pipe[e] \in Seq(Commands)
        BY <1>1, <1>5
      <3> QED BY <2>0, <2>2, <2>3, <3>1, Appended
    <2>5. Handshake(e)'
      BY <1>1, <1>2, <2>4 DEF Handshake, Calling
    <2>6. reply[e] = << >>
      BY <2>0 DEF EngineInv, OneReply
    <2>7. ASSUME pipe[e] = << >>
          PROVE  pipe'[e] = <<c>>
      BY <2>2, <2>7, AppendShort, Zenon
    <2>8. ASSUME NEW b, pipe[e] = <<b>>
          PROVE  pipe'[e] = <<b, c>> /\ pipe'[e] # << >> /\ pipe'[e][1] = pipe[e][1]
      <3>1. pipe'[e] = <<b, c>>
        BY <2>2, <2>8, AppendShort, Zenon
      <3> QED BY <2>8, <3>1, Short
    <2>9. CASE cpc = "update"
      <3>1. Behind(e, bucket - 1) /\ c = Push(bucket)
        BY <2>0, <2>9
           DEF EngineInv, OnlyOurs, Joined, Calling, Updating, c, PostedCommand, PostedTo
      <3>2. bucket \in Nat
        BY ClientHas
      <3>3. Updating(e)'
        <4>1. CASE Rested(e)
          BY <1>1, <1>7, <1>10, <2>0, <2>7, <2>9, <3>1, <4>1
             DEF Updating, Rested, Push
        <4>2. CASE bucket - 1 > 0 /\ Loading(e, bucket - 1)
          <5>1. pipe[e] = <<Push(bucket - 1)>> /\ wst[e] = "load"
            BY <4>2 DEF Loading
          <5>2. pipe'[e] = <<Push(bucket - 1), Push(bucket)>>
            BY <2>8, <3>1, <5>1, Zenon
          <5>3. bucket > 1
            BY <3>2, <4>2
          <5> QED BY <1>1, <1>7, <1>10, <2>0, <2>9, <5>1, <5>2, <5>3
                  DEF Updating, Push
        <4> QED BY <3>1, <4>1, <4>2 DEF Behind
      <3>4. OnlyOurs(e)'
        BY <1>1, <2>0, <2>9, <3>3 DEF OnlyOurs
      <3>5. Fresh(e)'
        <4>1. Raised \notin faults => Loaded(e, bucket - 1)
          BY <2>0, <2>9 DEF EngineInv, Fresh
        <4>2. wst[e] = "load" => pipe'[e] # << >> /\ pipe'[e][1] = pipe[e][1]
          <5>1. wst[e] = "load" => pipe[e] = <<Push(bucket - 1)>>
            BY <3>1 DEF Behind, Rested, Loading
          <5> QED BY <2>8, <5>1
        <4>3. Raised \notin faults => Loaded(e, bucket - 1)'
          BY <1>1, <4>1, <4>2 DEF Loaded, Push
        <4> QED BY <1>1, <2>0, <2>9, <4>3 DEF Fresh
      <3> QED BY <2>4, <2>5, <3>4, <3>5 DEF EngineInv
    <2>10. CASE cpc = "reset"
      <3>1. Behind(e, NBuckets) /\ c = Reset /\ busy'[e[1]] = client
        BY <1>7, <1>10, <2>0, <2>10
           DEF EngineInv, OnlyOurs, Joined, Calling, Resetting, c, PostedCommand, PostedTo
      <3>2. Resetting(e)' /\ pipe'[e] # << >>
            /\ (wst[e] = "load" => pipe'[e][1] = pipe[e][1])
        <4>1. CASE Rested(e)
          <5>1. pipe'[e] = <<Reset>> /\ wst[e] = "idle"
            BY <2>7, <3>1, <4>1 DEF Rested
          <5> QED BY <1>1, <2>0, <3>1, <5>1, Short DEF Resetting
        <4>2. CASE Loading(e, NBuckets)
          <5>1. pipe[e] = <<Push(NBuckets)>> /\ wst[e] = "load"
            BY <4>2 DEF Loading
          <5>2. pipe'[e] = <<Push(NBuckets), Reset>>
            BY <2>8, <3>1, <5>1, Zenon
          <5>3. pipe'[e] # << >> /\ pipe'[e][1] = pipe[e][1]
            BY <2>8, <5>1
          <5> QED BY <1>1, <2>0, <3>1, <5>1, <5>2, <5>3 DEF Resetting, Push
        <4> QED BY <3>1, <4>1, <4>2 DEF Behind
      <3>3. OnlyOurs(e)'
        BY <1>1, <2>0, <2>10, <3>2 DEF OnlyOurs
      <3>4. Fresh(e)'
        <4>1. Raised \notin faults => Loaded(e, NBuckets)
          BY <2>0, <2>10 DEF EngineInv, Fresh
        <4>2. Raised \notin faults => Loaded(e, NBuckets)'
          BY <1>1, <3>2, <4>1 DEF Loaded, Push
        <4> QED BY <1>1, <2>0, <2>10, <3>2, <4>2 DEF Fresh
      <3> QED BY <2>4, <2>5, <3>3, <3>4 DEF EngineInv
    <2>11. CASE cpc = "infer"
      <3>1. Rested(e) /\ c = Infer(Requested(e)) /\ busy'[e[1]] = client
        BY <1>7, <1>10, <2>0, <2>11
           DEF EngineInv, OnlyOurs, Joined, Calling, Inferring, c, PostedCommand,
               PostedTo, Requested
      <3>2. pipe'[e] = <<Infer(Requested(e))>> /\ wst[e] = "idle"
        BY <2>7, <3>1 DEF Rested
      <3>3. Requested(e)' = Requested(e)
        BY <1>1 DEF Requested, EngineRequests, ServerChunk
      <3>4. Inferring(e)'
        BY <1>1, <2>0, <3>1, <3>2, <3>3 DEF Inferring
      <3>5. OnlyOurs(e)'
        BY <1>1, <2>0, <2>11, <3>4 DEF OnlyOurs
      <3>6. Fresh(e)'
        <4>1. Raised \notin faults =>
                  Loaded(e, NBuckets) /\ cache[e] \subseteq {version}
          BY <2>0, <2>11, ClientHas DEF EngineInv, Fresh, ThreadsLive
        <4>2. Raised \notin faults => Loaded(e, NBuckets)'
          BY <1>1, <3>2, <4>1 DEF Loaded, Push
        <4> QED BY <1>1, <2>0, <2>6, <2>11, <4>1, <4>2 DEF Fresh
      <3> QED BY <2>4, <2>5, <3>5, <3>6 DEF EngineInv
    <2> QED BY <1>2, <2>9, <2>10, <2>11 DEF Calling
  <1> QED
    <2>1. \A r \in Servers : r # s => part'[r] = part[r]
      BY <1>1
    <2> QED BY <1>1, <1>2, <1>6, <1>7, <1>8, <1>9, <1>10, <2>1, OneThread

(* The engines a bucket is broadcast to have it at the head of their pipes. *)
LEMMA BroadcastKeeps ==
  ASSUME IInv, NEW s \in Servers, Broadcast(s)
  PROVE  IInv'
  <1>1. /\ cpc = "update" /\ th[s] = "wait"
        /\ \A e \in EnginesOf(s) : wst[e] = "recv"
        /\ wst' = [e \in Engines |-> IF e[1] = s THEN "load" ELSE wst[e]]
        /\ th' = [th EXCEPT ![s] = "done"]
        /\ UNCHANGED <<faults, client, version, pushed, cpc, at, bucket, asked,
                       part, got, busy, pipe, comm, weights, cache, reply>>
    BY DEF Broadcast
  <1>2. /\ th \in [Servers -> ThreadStates] /\ cpc \in Calling
        /\ wst \in [Engines -> {"idle", "rendezvous", "recv", "load"}]
    BY <1>1, ClientHas DEF Types, Calling
  <1>3. /\ th' \in [Servers -> ThreadStates] /\ th'[s] = "done"
        /\ \A r \in Servers : r # s => th'[r] = th[r]
    BY <1>1, <1>2 DEF ThreadStates
  <1>4. /\ wst' \in [Engines -> {"idle", "rendezvous", "recv", "load"}]
        /\ \A e \in Engines : /\ e[1] = s => wst'[e] = "load"
                              /\ e[1] # s => wst'[e] = wst[e]
    BY <1>1, <1>2
  <1>5. Types'
    BY <1>1, <1>3, <1>4, ClientHas DEF Types
  <1>6. \A e \in Engines : e[1] # s => SameEngine(e)
    BY <1>1, <1>4 DEF SameEngine
  <1>7. ASSUME NEW e \in Engines, e[1] = s
        PROVE  EngineInv(e)'
    <2>0. /\ EngineInv(e) /\ th[e[1]] = "wait" /\ th'[e[1]] = "done"
          /\ wst[e] = "recv" /\ wst'[e] = "load"
      BY <1>1, <1>3, <1>4, <1>7, ClientHas DEF EnginesOf
    <2>1. /\ comm[e] = client /\ busy[e[1]] = Free /\ pipe[e] = <<Push(bucket)>>
      BY <1>1, <2>0 DEF EngineInv, OnlyOurs, Joined, Calling, Updating
    <2>2. pipe[e] # << >> /\ pipe[e][1] = Push(bucket)
      BY <2>1, Short, Zenon
    <2>3. AtWork(e)' /\ OneReply(e)' /\ Handshake(e)'
      BY <1>1, <2>0, <2>2
         DEF EngineInv, AtWork, OneReply, Waited, Handshake, OwnInit
    <2>4. OnlyOurs(e)'
      <3>1. bucket > 0
        BY ClientHas
      <3>2. Updating(e)'
        BY <1>1, <2>0, <2>1, <3>1 DEF Updating, Behind, Loading, Push
      <3> QED BY <1>1, <2>1, <3>2 DEF OnlyOurs
    <2>5. Fresh(e)'
      <3>1. Raised \notin faults => \A b \in 1..(bucket - 1) : weights[e][b] = version
        BY <1>1, <2>0 DEF EngineInv, Fresh, Loaded
      <3>2. \A b \in 1..bucket : b \in 1..(bucket - 1) \/ b = bucket
        BY ClientHas
      <3>3. Raised \notin faults => Loaded(e, bucket)'
        BY <1>1, <2>0, <2>2, <3>1, <3>2 DEF Loaded, Push
      <3> QED BY <1>1, <2>0, <3>3 DEF Fresh
    <2> QED BY <2>3, <2>4, <2>5 DEF EngineInv
  <1> QED
    <2>1. \A r \in Servers : /\ r # s => part'[r] = part[r]
                             /\ r # s => busy'[r] = busy[r]
      BY <1>1
    <2> QED BY <1>1, <1>2, <1>3, <1>5, <1>6, <1>7, <2>1, OneThread

(* When the handler has every reply the server's engines rest, and what it  *)
(* answers is made of the replies to this call.                             *)
LEMMA CollectKeeps ==
  ASSUME IInv, NEW s \in Servers, Collect(s)
  PROVE  IInv'
  <1> DEFINE Ours == th[s] = "wait" /\ busy[s] = client
             Bad == \E e \in Asked(s) : Head(reply[e]) = NoResult
  <1>1. /\ busy[s] # Free /\ \A e \in EnginesOf(s) : reply[e] # << >>
        /\ reply' = [e \in Engines |-> IF e[1] = s THEN Tail(reply[e]) ELSE reply[e]]
        /\ busy' = [busy EXCEPT ![s] = Free]
        /\ UNCHANGED <<faults, client, version, pushed, cpc, at, bucket, asked,
                       got, pipe, wst, comm, weights, cache>>
    BY DEF Collect
  <1>2. /\ th' = IF Ours THEN [th EXCEPT ![s] =
                                 IF cpc = "infer" /\ Bad THEN "failed" ELSE "done"]
                 ELSE th
        /\ part' = IF Ours /\ cpc = "infer" /\ ~Bad
                   THEN [part EXCEPT ![s] = Answers(s)] ELSE part
    <2> HIDE DEF Bad
    <2>1. /\ Ours /\ cpc = "infer" /\ Bad =>
                 th' = [th EXCEPT ![s] = "failed"] /\ UNCHANGED part
          /\ Ours /\ ~ (cpc = "infer" /\ Bad) =>
                 /\ th' = [th EXCEPT ![s] = "done"]
                 /\ part' = IF cpc = "infer" THEN [part EXCEPT ![s] = Answers(s)]
                            ELSE part
          /\ ~Ours => UNCHANGED <<th, part>>
      BY DEF Collect, Bad
    <2> QED BY <2>1
  <1>3. /\ th \in [Servers -> ThreadStates] /\ part \in [Servers -> Answered]
        /\ busy \in [Servers -> Clients \cup {Free}]
        /\ reply \in [Engines -> Seq(Reply)]
        /\ asked \in Seq(Nat)
    BY ClientHas DEF Types
  <1>4. ASSUME NEW e \in Engines, e[1] = s
        PROVE  /\ EngineInv(e) /\ pipe[e] = << >> /\ reply'[e] = << >>
               /\ Tail(reply[e]) = << >> /\ Head(reply[e]) = reply[e][1]
               /\ reply[e] # << >>
    <2>1. reply[e] # << >> /\ reply[e] \in Seq(Reply) /\ EngineInv(e)
      BY <1>1, <1>3, <1>4, ClientHas DEF EnginesOf
    <2>2. pipe[e] = << >> /\ Len(reply[e]) = 1
      BY <1>1, <1>4, <2>1 DEF EngineInv, OneReply
    <2>3. /\ Head(reply[e]) = reply[e][1] /\ Tail(reply[e]) \in Seq(Reply)
          /\ Len(Tail(reply[e])) = Len(reply[e]) - 1
      BY <2>1, TailOf
    <2>4. Tail(reply[e]) = << >>
      <3>1. PICK q \in Seq(Reply) : q = Tail(reply[e]) /\ Len(q) = 0
        <4>1. Len(Tail(reply[e])) = 0
          BY <2>2, <2>3
        <4> QED BY <2>3, <4>1, Zenon
      <3>2. q = << >>
        BY <3>1
      <3> QED BY <3>1, <3>2, Zenon
    <2>5. reply'[e] = Tail(reply[e])
      BY <1>1, <1>4
    <2> QED BY <2>1, <2>2, <2>3, <2>4, <2>5
  <1>5. ASSUME Ours
        PROVE  /\ cpc \in {"reset", "infer"}
               /\ \A e \in Engines : e[1] = s =>
                      comm[e] = client /\ Rested(e)
    <2>0. th[s] = "wait" /\ busy[s] = client
      BY <1>5
    <2>1. cpc \in Calling
      BY <1>3, <2>0, ClientHas DEF ThreadsLive
    <2>2. <<s, 1>> \in Engines /\ <<s, 1>>[1] = s
      BY SizeAssumption, EnginesAre
    <2>3. ASSUME NEW e \in Engines, e[1] = s
          PROVE  cpc # "update" /\ comm[e] = client /\ Rested(e)
      <3>1. pipe[e] = << >> /\ EngineInv(e)
        BY <1>4, <2>3
      <3>2. Joined(e) /\ OnlyOurs(e)
        BY <2>1, <3>1 DEF Joined, EngineInv
      <3>3. cpc # "update"
        BY <1>1, <2>3, <3>2 DEF OnlyOurs, Updating
      <3>4. CASE cpc = "reset"
        <4>1. Resetting(e)
          BY <3>2, <3>4 DEF OnlyOurs
        <4>2. pipe[e] # <<Reset>> /\ pipe[e] # <<Push(NBuckets), Reset>>
          BY <3>1, Singles, Pairs, Zenon
        <4>3. th[e[1]] = "wait"
          BY <2>0, <2>3
        <4>4. Rested(e)
          BY <4>1, <4>2, <4>3 DEF Resetting
        <4>5. comm[e] = client
          BY <3>2 DEF OnlyOurs
        <4> QED BY <3>3, <4>4, <4>5
      <3>5. CASE cpc = "infer"
        <4>1. Inferring(e)
          BY <3>2, <3>5 DEF OnlyOurs
        <4> QED BY <2>0, <2>3, <3>1, <3>2, <3>3, <3>5, <4>1
                DEF OnlyOurs, Inferring, Rested
      <3> QED BY <2>1, <3>3, <3>4, <3>5 DEF Calling
    <2> QED BY <2>1, <2>2, <2>3 DEF Calling
  <1>6. ASSUME Ours, cpc = "infer", ~Bad
        PROVE  /\ Spells(Answers(s), ServerChunk(asked, s))
               /\ Raised \notin faults => By(Answers(s), version)
    <2>1. ASSUME NEW w \in 1..NWorkers, <<s, w>> \in Asked(s)
          PROVE  /\ Spells(Head(reply[<<s, w>>]).answers, EngineRequests(s, w))
                 /\ Raised \notin faults =>
                        By(Head(reply[<<s, w>>]).answers, version)
      <3>1. PICK e \in Engines : e = <<s, w>> /\ e[1] = s /\ e[2] = w
        <4>1. <<s, w>> \in Engines /\ <<s, w>>[1] = s /\ <<s, w>>[2] = w
          BY EnginesAre
        <4> QED BY <4>1, Zenon
      <3>2. /\ EngineInv(e) /\ pipe[e] = << >> /\ Head(reply[e]) = reply[e][1]
            /\ reply[e] # << >>
        BY <1>4, <3>1
      <3>3. Head(reply[e]) # NoResult
        BY <1>6, <2>1, <3>1
      <3>4. th[e[1]] = "wait"
        BY <1>6, <3>1
      <3>5. Inferring(e)
        BY <1>6, <3>2 DEF EngineInv, OnlyOurs, Joined, Calling
      <3>6. Spells(reply[e][1].answers, Requested(e))
        BY <3>2, <3>3, <3>4, <3>5, Short DEF Inferring
      <3>7. Requested(e) = EngineRequests(s, w)
        BY <3>1 DEF Requested
      <3>8. Raised \notin faults => By(reply[e][1].answers, version)
        BY <1>6, <3>2, <3>4 DEF EngineInv, Fresh
      <3> QED BY <3>1, <3>2, <3>6, <3>7, <3>8
    <2>2. Spells(Answers(s), ServerChunk(asked, s))
      BY <1>3, <2>1, ServerSpells
    <2>3. Raised \notin faults => By(Answers(s), version)
      BY <1>3, <2>1, ServerSpells
    <2> QED BY <2>2, <2>3
  <1> HIDE DEF Bad, Ours
  <1>7. /\ th' \in [Servers -> ThreadStates] /\ part' \in [Servers -> Answered]
        /\ busy' \in [Servers -> Clients \cup {Free}] /\ busy'[s] = Free
        /\ \A r \in Servers : r # s => /\ th'[r] = th[r] /\ part'[r] = part[r]
                                       /\ busy'[r] = busy[r]
    <2>1. /\ th' \in [Servers -> ThreadStates]
          /\ \A r \in Servers : r # s => th'[r] = th[r]
      BY <1>2, <1>3 DEF ThreadStates
    <2>2. /\ part' \in [Servers -> Answered]
          /\ \A r \in Servers : r # s => part'[r] = part[r]
      BY <1>2, <1>3, <1>6 DEF Spells
    <2>3. /\ busy' \in [Servers -> Clients \cup {Free}] /\ busy'[s] = Free
          /\ \A r \in Servers : r # s => busy'[r] = busy[r]
      BY <1>1, <1>3
    <2> QED BY <2>1, <2>2, <2>3
  <1>8. /\ reply' \in [Engines -> Seq(Reply)]
        /\ \A e \in Engines : e[1] # s => reply'[e] = reply[e]
    <2>1. ASSUME NEW e \in Engines
          PROVE  (IF e[1] = s THEN Tail(reply[e]) ELSE reply[e]) \in Seq(Reply)
      <3>1. CASE e[1] = s
        <4>1. Tail(reply[e]) = << >> /\ << >> \in Seq(Reply)
          <5>1. << >> \in Seq(Reply)
            OBVIOUS
          <5> QED BY <1>4, <3>1, <5>1
        <4> QED BY <3>1, <4>1, Zenon
      <3> QED BY <1>3, <3>1
    <2> QED BY <1>1, <2>1
  <1>9. Types'
    BY <1>1, <1>7, <1>8, ClientHas DEF Types
  <1>10. \A e \in Engines : e[1] # s => SameEngine(e)
    BY <1>1, <1>8 DEF SameEngine
  <1>11. ASSUME NEW e \in Engines, e[1] = s
         PROVE  AtWork(e)' /\ OneReply(e)' /\ Handshake(e)'
    <2>1. /\ EngineInv(e) /\ pipe[e] = << >> /\ reply'[e] = << >>
          /\ busy'[e[1]] = Free
      BY <1>4, <1>7, <1>11
    <2>2. DOMAIN pipe[e] = {}
      <3>1. DOMAIN << >> = {}
        OBVIOUS
      <3> QED BY <2>1, <3>1, Zenon
    <2> QED BY <1>1, <2>1, <2>2
            DEF EngineInv, AtWork, OneReply, Handshake, OwnInit
  <1>12. CASE Ours
    <2>1. cpc \in Calling /\ th'[s] \in {"done", "failed"}
          /\ (cpc = "reset" \/ th'[s] = "done" => ~ (cpc = "infer" /\ Bad))
          /\ (cpc = "reset" => th'[s] = "done")
      BY <1>2, <1>3, <1>5, <1>12 DEF Calling
    <2>2. ASSUME NEW e \in Engines, e[1] = s
          PROVE  EngineInv(e)'
      <3>0. /\ comm[e] = client /\ Rested(e) /\ pipe[e] = << >> /\ EngineInv(e)
            /\ busy'[e[1]] = Free /\ cpc \in {"reset", "infer"} /\ th[e[1]] = "wait"
        BY <1>4, <1>5, <1>7, <1>12, <2>2 DEF Ours
      <3>1. \A n : Raised \notin faults /\ Loaded(e, n) => Loaded(e, n)'
        BY <1>1 DEF Loaded, Push
      <3>2. CASE cpc = "reset"
        <4>1. OnlyOurs(e)'
          BY <1>1, <2>1, <2>2, <3>0, <3>2 DEF OnlyOurs, Resetting, Rested
        <4>2. Raised \notin faults => Loaded(e, NBuckets) /\ cache[e] = {}
          BY <3>0, <3>2 DEF EngineInv, Fresh
        <4>3. Fresh(e)'
          BY <1>1, <3>1, <3>2, <4>2 DEF Fresh
        <4> QED BY <1>11, <2>2, <4>1, <4>3 DEF EngineInv
      <3>3. CASE cpc = "infer"
        <4>1. th'[s] = "done" =>
                  /\ part'[s] = Answers(s)
                  /\ Spells(Answers(s), ServerChunk(asked, s))
                  /\ Raised \notin faults => By(Answers(s), version)
          BY <1>2, <1>3, <1>6, <1>12, <2>1, <3>3
        <4>2. th'[s] = "done" => Spells(part[e[1]], ServerChunk(asked, e[1]))'
          BY <1>1, <2>2, <4>1 DEF Spells, ServerChunk
        <4>3. OnlyOurs(e)'
          BY <1>1, <2>1, <2>2, <3>0, <3>3, <4>2 DEF OnlyOurs, Inferring, Rested
        <4>4. Raised \notin faults =>
                  Loaded(e, NBuckets) /\ cache[e] \subseteq {version}
          BY <3>0, <3>3, ClientHas DEF EngineInv, Fresh, ThreadsLive
        <4>5. Fresh(e)'
          BY <1>1, <2>1, <2>2, <3>1, <3>3, <4>1, <4>4 DEF Fresh, By
        <4> QED BY <1>11, <2>2, <4>3, <4>5 DEF EngineInv
      <3> QED BY <3>0, <3>2, <3>3
    <2>3. th'[s] # "none"
      BY <2>1
    <2> QED BY <1>1, <1>7, <1>9, <1>10, <2>1, <2>2, <2>3, OneThread
  <1>13. CASE ~Ours
    <2>1. th' = th /\ part' = part
      BY <1>2, <1>13
    <2>2. ASSUME NEW e \in Engines, e[1] = s
          PROVE  ~Joined(e) /\ cpc \notin Calling
      <3>1. EngineInv(e) /\ busy[e[1]] # Free
        BY <1>1, <1>4, <2>2
      <3>2. cpc \in Calling => th[e[1]] \in {"post", "failed", "wait", "done"}
        BY <1>3, <2>2, ClientHas DEF ThreadsLive, ThreadStates
      <3>3. Joined(e) => th[e[1]] = "wait" /\ busy[e[1]] = client
        BY <3>1, <3>2
           DEF EngineInv, OnlyOurs, Joined, Calling, Updating, Resetting, Inferring
      <3>4. ~Joined(e)
        BY <1>13, <2>2, <3>3 DEF Ours
      <3> QED BY <3>4 DEF Joined
    <2>3. ThreadsLive' /\ GotAll'
      BY <1>1, <2>1, ClientHas DEF ThreadsLive, GotAll, Calling
    <2>4. ASSUME NEW e \in Engines
          PROVE  EngineInv(e)'
      <3>1. CASE e[1] = s
        <4>1. ~Joined(e)'
          BY <1>1, <2>2, <3>1 DEF Joined
        <4> QED BY <1>11, <3>1, <4>1, NotJoined DEF EngineInv
      <3>2. CASE e[1] # s
        <4>1. SameCall(e) /\ SameEngine(e) /\ EngineInv(e)
          BY <1>1, <1>7, <1>10, <3>2, ClientHas DEF SameCall
        <4> QED BY <1>1, <4>1, Same
      <3> QED BY <3>1, <3>2
    <2> QED BY <1>9, <2>3, <2>4 DEF IInv
  <1> QED BY <1>12, <1>13

(* A call that ends has left every engine at rest.                          *)
LEMMA JoinKeeps ==
  ASSUME IInv, Join
  PROVE  IInv'
  <1>1. /\ cpc \in Calling /\ \A s \in Servers : th[s] \in {"done", "failed"}
        /\ part' = [s \in Servers |-> << >>]
        /\ UNCHANGED <<faults, client, version, asked, busy, engine>>
    BY DEF Join, Calling
  <1>2. /\ NoThread \in [Servers -> ThreadStates]
        /\ Posting \in [Servers -> ThreadStates]
        /\ part' \in [Servers -> Answered] /\ << >> \in Answered
        /\ \A s \in Servers : NoThread[s] = "none" /\ Posting[s] = "post"
    BY <1>1 DEF NoThread, Posting, ThreadStates, Answered
  <1>3. CASE \E s \in Servers : th[s] = "failed"
    <2>1. /\ cpc' = "atexit" /\ at' = 1 /\ th' = NoThread /\ got' = << >>
          /\ UNCHANGED <<bucket, pushed>>
      BY <1>3 DEF Join
    <2>2. Types'
      BY <1>1, <1>2, <2>1, ClientHas DEF Types, Phases, engine
    <2>3. ThreadsLive' /\ GotAll'
      BY <1>1, <1>2, <2>1 DEF ThreadsLive, GotAll, Calling
    <2>4. \A e \in Engines : EngineInv(e)'
      BY <1>1, <2>1, ClientLeft
    <2> QED BY <2>2, <2>3, <2>4 DEF IInv
  <1>4. CASE \A s \in Servers : th[s] = "done"
    <2>1. /\ \/ /\ cpc = "update" /\ bucket < NBuckets /\ bucket' = bucket + 1
                /\ th' = Posting /\ cpc' = cpc /\ pushed' = pushed
             \/ /\ cpc = "update" /\ bucket = NBuckets /\ cpc' = "reset"
                /\ th' = Posting /\ bucket' = bucket /\ pushed' = pushed
             \/ /\ cpc \in {"reset", "infer"} /\ cpc' = "idle" /\ th' = NoThread
                /\ pushed' = (pushed \/ cpc = "reset") /\ bucket' = bucket
          /\ got' = IF cpc = "infer" THEN FlattenSeq(part) ELSE got
          /\ at' = at
      <3>1. CASE cpc = "update"
        <4>1. bucket < NBuckets \/ bucket = NBuckets
          BY ClientHas
        <4> QED BY <1>4, <3>1, <4>1, ClientHas DEF Join
      <3>2. CASE cpc \in {"reset", "infer"}
        BY <1>4, <3>2, ClientHas DEF Join
      <3> QED BY <1>1, <3>1, <3>2 DEF Calling
    <2>2. ASSUME NEW e \in Engines
          PROVE  /\ EngineInv(e) /\ th[e[1]] = "done" /\ comm[e] = client
                 /\ busy[e[1]] = Free
                 /\ cpc = "update" => Behind(e, bucket)
                 /\ cpc \in {"reset", "infer"} => Rested(e)
                 /\ Raised \notin faults =>
                       /\ cpc = "update" => Loaded(e, bucket)
                       /\ cpc = "reset" => cache[e] = {}
                       /\ cpc = "infer" => cache[e] \subseteq {version}
                       /\ cpc \in {"reset", "infer"} => Loaded(e, NBuckets)
      <3>1. EngineInv(e) /\ th[e[1]] = "done"
        BY <1>4, ClientHas
      <3>2. comm[e] = client
        BY <1>1, <3>1 DEF EngineInv, OnlyOurs, Joined
      <3>3. /\ cpc = "update" => Updating(e)
            /\ cpc = "reset" => Resetting(e)
            /\ cpc = "infer" => Inferring(e)
        BY <1>1, <3>1 DEF EngineInv, OnlyOurs, Joined
      <3>4. /\ busy[e[1]] = Free
            /\ cpc = "update" => Behind(e, bucket)
            /\ cpc \in {"reset", "infer"} => Rested(e)
        BY <1>1, <3>1, <3>3 DEF Updating, Resetting, Inferring, Calling
      <3>5. Raised \notin faults =>
               /\ cpc = "update" => Loaded(e, bucket)
               /\ cpc = "reset" => cache[e] = {} /\ Loaded(e, NBuckets)
               /\ cpc = "infer" => cache[e] \subseteq {version}
                                      /\ Loaded(e, NBuckets)
        BY <3>1, ClientHas DEF EngineInv, Fresh, ThreadsLive
      <3> QED BY <3>1, <3>2, <3>4, <3>5
    <2>3. ASSUME cpc = "infer"
          PROVE  /\ Spells(FlattenSeq(part), asked)
                 /\ Raised \notin faults => By(FlattenSeq(part), version)
      <3>1. asked \in Seq(Nat) /\ part \in [Servers -> Answered]
        BY ClientHas DEF Types
      <3>2. ASSUME NEW s \in Servers
            PROVE  /\ Spells(part[s], ServerChunk(asked, s))
                   /\ Raised \notin faults => By(part[s], version)
        <4>1. PICK e \in Engines : e[1] = s
          <5>1. <<s, 1>> \in Engines /\ <<s, 1>>[1] = s
            BY SizeAssumption, EnginesAre
          <5> QED BY <5>1, Zenon
        <4>2. EngineInv(e) /\ th[e[1]] = "done"
          BY <2>2
        <4>3. Inferring(e)
          BY <2>3, <4>2 DEF EngineInv, OnlyOurs, Joined, Calling
        <4>4. Spells(part[e[1]], ServerChunk(asked, e[1]))
          BY <4>2, <4>3 DEF Inferring
        <4>5. Raised \notin faults => By(part[e[1]], version)
          BY <2>3, <4>2 DEF EngineInv, Fresh
        <4> QED BY <4>1, <4>4, <4>5
      <3>3. Spells(FlattenSeq(part), asked)
        BY <3>1, <3>2, CallSpells
      <3>4. Raised \notin faults => By(FlattenSeq(part), version)
        BY <3>1, <3>2, CallSpells
      <3> QED BY <3>3, <3>4
    <2>4. got' \in Answered
      BY <2>1, <2>3, ClientHas DEF Types, Spells
    <2>5. bucket' \in Buckets /\ th' \in [Servers -> ThreadStates]
          /\ cpc' \in Phases /\ pushed' \in BOOLEAN
      <3>1. bucket' \in Buckets
        BY <2>1, ClientHas
      <3>2. pushed \in BOOLEAN /\ cpc \in Phases
        BY ClientHas DEF Types
      <3> QED BY <1>2, <2>1, <3>1, <3>2 DEF Phases
    <2>6. Types'
      BY <1>1, <1>2, <2>1, <2>4, <2>5, ClientHas DEF Types, engine
    <2>7. ThreadsLive'
      <3>1. \A s \in Servers : th'[s] = "none" <=> cpc' \notin Calling
        BY <1>1, <1>2, <2>1 DEF Calling
      <3>2. cpc' # "infer" /\ cpc' \notin {"close", "init", "rendezvous"}
        BY <1>1, <2>1 DEF Calling
      <3> QED BY <3>1, <3>2 DEF ThreadsLive
    <2>8. GotAll'
      <3>1. CASE cpc = "infer"
        <4>1. got' = FlattenSeq(part) /\ cpc' = "idle"
          BY <2>1, <3>1
        <4> QED BY <1>1, <2>3, <3>1, <4>1 DEF GotAll, Spells, By
      <3>2. CASE cpc # "infer"
        <4>1. got' = << >>
          BY <1>1, <2>1, <3>2, ClientHas DEF GotAll, Calling
        <4> QED BY <4>1 DEF GotAll
      <3> QED BY <3>1, <3>2
    <2>9. ASSUME NEW e \in Engines
          PROVE  EngineInv(e)'
      <3>1. AtWork(e)' /\ OneReply(e)'
        BY <1>1, <2>2 DEF EngineInv, AtWork, OneReply, Waited, engine
      <3>2. Handshake(e)'
        BY <1>1, <2>1, <2>2 DEF EngineInv, Handshake, engine, Calling
      <3>3. \A n : Raised \notin faults /\ Loaded(e, n) => Loaded(e, n)'
        BY <1>1 DEF Loaded, Push, engine
      <3>4. CASE cpc = "update" /\ bucket < NBuckets
        <4>1. /\ bucket' = bucket + 1 /\ th'[e[1]] = "post" /\ cpc' = "update"
          BY <1>2, <2>1, <3>4, ClientHas
        <4>2. bucket' - 1 = bucket
          BY <4>1, ClientHas
        <4>3. Behind(e, bucket) /\ busy[e[1]] = Free /\ comm[e] = client
          BY <2>2, <3>4
        <4>4. Updating(e)'
          BY <1>1, <4>1, <4>2, <4>3
             DEF Updating, Behind, Rested, Loading, Push, engine
        <4>5. OnlyOurs(e)'
          BY <1>1, <4>1, <4>3, <4>4 DEF OnlyOurs, engine
        <4>6. Fresh(e)'
          BY <1>1, <2>2, <3>4, <4>1, <4>2 DEF Fresh, Loaded, Push, engine
        <4> QED BY <3>1, <3>2, <4>5, <4>6 DEF EngineInv
      <3>5. CASE cpc = "update" /\ bucket = NBuckets
        <4>1. th'[e[1]] = "post" /\ cpc' = "reset"
          BY <1>2, <2>1, <3>5, ClientHas
        <4>2. Behind(e, NBuckets) /\ busy[e[1]] = Free /\ comm[e] = client
          BY <2>2, <3>5
        <4>3. Resetting(e)'
          BY <1>1, <4>1, <4>2
             DEF Resetting, Behind, Rested, Loading, Push, engine
        <4>4. OnlyOurs(e)'
          BY <1>1, <4>1, <4>2, <4>3 DEF OnlyOurs, engine
        <4>5. Raised \notin faults => Loaded(e, NBuckets)'
          BY <2>2, <3>3, <3>5
        <4>6. Fresh(e)'
          BY <1>1, <4>1, <4>5 DEF Fresh
        <4> QED BY <3>1, <3>2, <4>4, <4>6 DEF EngineInv
      <3>6. CASE cpc \in {"reset", "infer"}
        <4>1. th'[e[1]] = "none" /\ cpc' = "idle"
          BY <1>2, <2>1, <3>6, ClientHas
        <4>2. Rested(e) /\ busy[e[1]] = Free /\ comm[e] = client
          BY <2>2, <3>6
        <4>3. OnlyOurs(e)'
          BY <1>1, <4>1, <4>2 DEF OnlyOurs, Rested, engine
        <4>4. Raised \notin faults =>
                  Loaded(e, NBuckets)' /\ cache[e] \subseteq {version}
          BY <2>2, <3>3, <3>6
        <4>5. Fresh(e)'
          BY <1>1, <4>1, <4>4 DEF Fresh, engine
        <4> QED BY <3>1, <3>2, <4>3, <4>5 DEF EngineInv
      <3> QED BY <2>1, <3>4, <3>5, <3>6
    <2> QED BY <2>6, <2>7, <2>8, <2>9 DEF IInv
  <1> QED BY <1>1, <1>3, <1>4

-----------------------------------------------------------------------------
LEMMA InitInv == Init => IInv
  <1> SUFFICES ASSUME Init
               PROVE  IInv
    OBVIOUS
  <1>1. /\ NServers \in Nat \ {0} /\ NBuckets \in Nat \ {0}
        /\ MaxVersion \in Nat /\ MaxClient \in Nat
    BY SizeAssumption, BoundAssumption
  <1>2. /\ client \in Clients /\ at \in Servers /\ version \in Version
        /\ bucket \in Buckets
    BY <1>1 DEF Init, Clients, Servers, Version, Buckets
  <1>3. faults \subseteq FaultKinds
    BY FaultAssumption DEF Init
  <1>4. Types
    <2>1. /\ << >> \in Seq(Nat) /\ << >> \in Answered /\ << >> \in Seq(Commands)
          /\ << >> \in Seq(Reply) /\ 0 \in Version
      BY <1>1 DEF Answered, Version
    <2>2. /\ part \in [Servers -> Answered]
          /\ pipe \in [Engines -> Seq(Commands)] /\ reply \in [Engines -> Seq(Reply)]
          /\ weights \in [Engines -> [Buckets -> Version]]
          /\ cache \in [Engines -> SUBSET Version]
      BY <2>1 DEF Init
    <2>3. /\ th \in [Servers -> ThreadStates]
          /\ busy \in [Servers -> Clients \cup {Free}]
          /\ wst \in [Engines -> {"idle", "rendezvous", "recv", "load"}]
          /\ comm \in [Engines -> Clients \cup {NoComm}]
      BY DEF Init, NoThread, ThreadStates
    <2>4. asked \in Seq(Nat) /\ got \in Answered /\ cpc \in Phases
          /\ pushed \in BOOLEAN
      BY <2>1 DEF Init, Phases
    <2> QED BY <1>2, <1>3, <2>2, <2>3, <2>4 DEF Types
  <1>5. ThreadsLive /\ GotAll
    BY DEF Init, NoThread, ThreadsLive, GotAll, Calling
  <1>6. ASSUME NEW e \in Engines
        PROVE  EngineInv(e)
    <2>1. /\ pipe[e] = << >> /\ reply[e] = << >> /\ wst[e] = "idle"
          /\ busy[e[1]] = Free /\ cpc = "close"
      BY EnginesAre DEF Init
    <2>2. DOMAIN pipe[e] = {}
      <3>1. DOMAIN << >> = {}
        OBVIOUS
      <3> QED BY <2>1, <3>1, Zenon
    <2>3. AtWork(e) /\ OneReply(e) /\ Handshake(e)
      BY <2>1, <2>2 DEF AtWork, OneReply, Handshake, OwnInit
    <2>4. ~Joined(e)
      BY <2>1 DEF Joined, Calling
    <2> QED BY <2>3, <2>4, NotJoined DEF EngineInv
  <1> QED BY <1>4, <1>5, <1>6 DEF IInv

LEMMA StepInv == IInv /\ [Next]_vars => IInv'
  <1> SUFFICES ASSUME IInv, [Next]_vars
               PROVE  IInv'
    OBVIOUS
  <1>1. CASE Trainer
    BY <1>1, CloseAllKeeps, InitPostKeeps, RendezvousKeeps, BeginPushKeeps,
       BeginInferKeeps, JoinKeeps DEF Trainer
  <1>2. CASE InitPostFails \/ Crash \/ Restart
    BY <1>2, InitPostFailsKeeps, CrashKeeps, RestartKeeps
  <1>3. ASSUME NEW s \in Servers, Thread(s) \/ PostFails(s)
        PROVE  IInv'
    BY <1>3, PostKeeps, BroadcastKeeps, CollectKeeps, PostFailsKeeps DEF Thread
  <1>4. ASSUME NEW e \in Engines, Engine(e) \/ PeerLost(e)
        PROVE  IInv'
    BY <1>4, DoCloseKeeps, DoInitKeeps, DoUpdateKeeps, LoadKeeps, LoadFailsKeeps,
       DoResetKeeps, ResetFailsKeeps, DoInferKeeps, InferFailsKeeps, PeerLostKeeps
       DEF Engine
  <1>5. CASE UNCHANGED vars
    <2>1. Types' /\ ThreadsLive' /\ GotAll'
      BY <1>5, ClientHas
         DEF vars, main, engine, Types, ThreadsLive, GotAll, Spells, By
    <2>2. ASSUME NEW e \in Engines
          PROVE  EngineInv(e)'
      <3>1. SameCall(e) /\ SameEngine(e) /\ EngineInv(e) /\ faults' = faults
        BY <1>5, ClientHas DEF vars, main, engine, SameCall, SameEngine
      <3> QED BY <3>1, Same
    <2> QED BY <2>1, <2>2 DEF IInv
  <1> QED BY <1>1, <1>2, <1>3, <1>4, <1>5 DEF Next

LEMMA AlwaysInv == Spec => []IInv
  BY InitInv, StepInv, PTL DEF Spec

(* Whatever the faults, the restarts and the interleaving: every answer that *)
(* VLLMClient.infer returns was computed with the weights of the latest push *)
(* alone, unless load_weights or reset_prefix_cache raised in an engine,     *)
(* which llm_worker (rollout.py) tells nobody.                               *)
THEOREM AnswersAreFresh == Spec => []AnswersFromLastPush
  <1>1. IInv => AnswersFromLastPush
    <2> SUFFICES ASSUME IInv, Raised \notin faults, NEW i \in DOMAIN got
                 PROVE  got[i].by = {version}
      BY DEF AnswersFromLastPush
    <2>1. got \in Seq(AnAnswer)
      BY ClientHas DEF Types, Answered, AnAnswer
    <2>2. got # << >> /\ i \in 1..Len(got)
      BY <2>1
    <2> QED BY <2>2, ClientHas DEF GotAll, By
  <1> QED BY <1>1, AlwaysInv, PTL

(* infer returns one answer per request, in their order, through both levels *)
(* of splitting, and a handler that starts finds no reply of an earlier call *)
(* (VLLMClient.infer, and the handlers of rollout.py).                       *)
THEOREM AnswersAreInOrder == Spec => []AnswersInOrder
  <1>1. IInv => AnswersInOrder
    <2> SUFFICES ASSUME IInv
                 PROVE  AnswersInOrder
      OBVIOUS
    <2>1. TypeOK
      BY ClientHas DEF Types, TypeOK, Phases, ThreadStates
    <2>2. ASSUME got # << >>
          PROVE  [i \in DOMAIN got |-> got[i].of] = asked
      <3>1. Spells(got, asked) /\ asked \in Seq(Nat) /\ got \in Seq(AnAnswer)
        BY <2>2, ClientHas DEF GotAll, Types, Answered, AnAnswer
      <3>2. /\ DOMAIN got = 1..Len(asked) /\ DOMAIN asked = 1..Len(asked)
            /\ \A i \in 1..Len(asked) : got[i].of = asked[i]
        BY <3>1 DEF Spells
      <3>3. asked = [i \in 1..Len(asked) |-> asked[i]]
        BY <3>1
      <3> QED BY <3>2, <3>3
    <2>3. ASSUME NEW s \in Servers, busy[s] = Free, NEW e \in EnginesOf(s)
          PROVE  reply[e] = << >>
      BY <2>3, ClientHas, EnginesAre DEF EngineInv, OneReply
    <2> QED BY <2>1, <2>2, <2>3 DEF AnswersInOrder
  <1> QED BY <1>1, AlwaysInv, PTL
=============================================================================

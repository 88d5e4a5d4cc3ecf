----------------------------- MODULE NodeProofs -----------------------------
(***************************************************************************)
(* Proofs about the node: module EngineApp, for any validators and voting  *)
(* power, any number of heights and rounds, any loss of parts, malformed   *)
(* parts and refusals of Reth and any order of delivery (the chains agree, *)
(* what can make a loop fail, how far Reth follows, a stream that is       *)
(* complete leaves nothing behind, and a fill is attached once), and       *)
(* module Daemon, for any number of boots, messages and clients *)
(* and any capacity of the channel (a validator never starts consensus     *)
(* with two keys, and the messages of the engine reach the application in  *)
(* order and once).                                                        *)
(***************************************************************************)
EXTENDS EngineApp, Daemon, SumTheorems, SequenceTheorems

Blocks == Seq(Bodies)
Payloads == [block : Blocks, fills : SUBSET Validators, data : {RealPayloads}]
Halves == {"Data", "Fin"}
Messages == [to : Validators, stream : Validators \X Nat \X Nat, half : Halves,
             part : [height : Nat, round : Nat,
                     block_bytes : [block : Blocks, data : {RealPayloads}]]]

-----------------------------------------------------------------------------
(* The inductive invariant.                                                *)

\* The block a block of height h has to be built on.
Prev(h) == IF h = 1 THEN Genesis ELSE decision[h - 1]

IsBlockAt(h, b) ==
  b \in Blocks /\ Len(b) = h /\ Prev(h) \in Blocks /\ Front(b) = Prev(h)

\* Whatever is proposed or decided for a height is built on the decision
\* before it.
ValuesInv ==
  /\ decision \in [Heights -> Blocks \cup {NoBlock}]
  /\ proposed \subseteq Heights \X Nat \X Blocks
  /\ \A x \in proposed : IsBlockAt(x[1], x[3])
  /\ \A h \in Heights : decision[h] # NoBlock => IsBlockAt(h, decision[h])

\* A loop has decided the heights below its own, as everyone has.
LoopInv ==
  /\ status \in [Validators -> {"running", "done", "failed"}]
  /\ height \in [Validators -> Heights]
  /\ round \in [Validators -> 0..(MaxRound + 1)]
  /\ parent \in [Validators -> Blocks]
  /\ head \in [Validators -> Blocks]
  /\ decided \in [Validators -> Seq(Blocks)]
  /\ hook \in [Validators -> Seq(Nat \X Nat)]
  /\ \A v \in Validators :
       /\ Len(decided[v]) = IF status[v] = "done" THEN Decisions ELSE height[v] - 1
       /\ Len(hook[v]) = Len(decided[v])
       /\ \A i \in 1..Len(decided[v]) :
            decided[v][i] = decision[i] /\ decision[i] # NoBlock /\ hook[v][i] = <<i, i>>
       /\ parent[v] = Prev(Len(decided[v]) + 1)
       /\ head[v] = parent[v]

\* Reth has executed what was committed, unless it refused to.
RethAt(v) ==
  /\ parent[v] \in reth[v].known \/ PayloadRefused(v)
  /\ \/ reth[v].head = head[v] \/ PayloadRefused(v)
     \/ <<v, head[v], "forkchoice">> \in refused

\* A block that is held has its timestamp until it is committed.
BridgeAt(v) ==
  /\ \A p \in pending[v] : p.block \in blockTimes[v] \/ p.block \in chain[v]
  /\ blockTimes[v] \subseteq {p.block : p \in pending[v]}
  /\ chain[v] \subseteq {p.block : p \in pending[v]}
  /\ chain[v] = {decided[v][i] : i \in 1..Len(decided[v])}
  /\ Genesis \in reth[v].known
  /\ RealPayloads => RethAt(v)

BridgeInv ==
  /\ pending \in [Validators -> SUBSET Payloads]
  /\ blockTimes \in [Validators -> SUBSET Blocks]
  /\ chain \in [Validators -> SUBSET Blocks]
  /\ reth \in [Validators -> [known : SUBSET Blocks, head : Blocks]]
  /\ \A v \in Validators : BridgeAt(v)

\* The other half of m, in a set of messages.
OtherHalf(m, M) == \E x \in M : x.to = m.to /\ x.stream = m.stream /\ x.half # m.half

\* The messages a validator has yet to make use of.
Unused == net \cup UNION {streams[v] : v \in Validators}

\* The halves of a stream carry the same part, no message is both under way
\* and buffered, and the other half of a message that is under way is
\* buffered, under way or lost.
StreamInv ==
  /\ net \subseteq Messages /\ lost \subseteq Messages
  /\ streams \in [Validators -> SUBSET Messages]
  /\ \A v \in Validators : \A m \in streams[v] : m.to = v /\ m \notin net
  /\ \A v \in Validators : \A m \in streams[v] : OtherHalf(m, net \cup lost)
  /\ \A m \in net : OtherHalf(m, net \cup lost \cup streams[m.to])
  /\ \A m, n \in Unused : m.stream = n.stream => m.part = n.part

\* A running proposer has not used the streams of the rounds to come.
FreshInv ==
  \A m \in Unused :
    LET u == m.stream[1] IN
    Running(u) => \/ m.stream[2] < height[u]
                  \/ m.stream[2] = height[u] /\ m.stream[3] < round[u]

\* The fill of v is in v's buffer or in one payload of v.
FillInv ==
  /\ buffer \in [Validators -> SUBSET Validators]
  /\ \A v \in Validators :
       /\ buffer[v] \subseteq {v}
       /\ \A p \in pending[v] : p.fills \subseteq {v}
       /\ v \in buffer[v] <=> \A p \in pending[v] : v \notin p.fills
       /\ \A p, q \in pending[v] : v \in p.fills /\ v \in q.fills => p = q

EngineInv == /\ ValuesInv /\ LoopInv /\ BridgeInv /\ StreamInv /\ FreshInv /\ FillInv
             /\ NoValidatorFails

-----------------------------------------------------------------------------
(* Blocks.                                                                 *)

LEMMA BuiltOnIsNext ==
  ASSUME NEW b \in Blocks, NEW body \in Bodies
  PROVE  /\ BuiltOn(b, body) \in Blocks
         /\ Len(BuiltOn(b, body)) = Len(b) + 1
         /\ Front(BuiltOn(b, body)) = b
  <1> DEFINE c == Append(b, body)
  <1>1. b \in Seq(Bodies) /\ Len(b) \in Nat
    BY DEF Blocks
  <1>2. c \in Seq(Bodies) /\ Len(c) = Len(b) + 1 /\ \A i \in 1..Len(b) : c[i] = b[i]
    BY <1>1
  <1> HIDE DEF c
  <1>3. \A i \in 1..Len(b) : c[i] \in Bodies
    BY <1>1, <1>2
  <1>4. /\ SubSeq(c, 1, Len(b)) \in Seq(Bodies)
        /\ Len(SubSeq(c, 1, Len(b))) = Len(b)
        /\ \A i \in 1..Len(b) : SubSeq(c, 1, Len(b))[i] = c[i]
    BY <1>1, <1>3, SubSeqProperties
  <1>5. SubSeq(c, 1, Len(b)) = b
    BY <1>1, <1>2, <1>4, SeqEqual
  <1>6. Len(c) - 1 = Len(b)
    BY <1>1, <1>2
  <1> QED
    BY <1>2, <1>5, <1>6 DEF c, BuiltOn, Front, Blocks

LEMMA NoBlockIsNone == NoBlock \notin Blocks
  <1> SUFFICES ASSUME <<"none">> \in Seq(Bodies) PROVE FALSE
    BY DEF NoBlock, Blocks
  <1>1. Len(<<"none">>) = 1 /\ <<"none">>[1] = "none"
    OBVIOUS
  <1>2. <<"none">>[1] \in Bodies
    BY <1>1, ElementOfSeq
  <1> QED
    BY <1>1, <1>2, EngineAssumption

LEMMA GenesisIsABlock == Genesis \in Blocks /\ Len(Genesis) = 0
  BY DEF Genesis, Blocks

\* The parent of every loop is there to build on, and of the right height.
LEMMA ParentKnown ==
  ASSUME ValuesInv, LoopInv, BridgeInv, NEW v \in Validators
  PROVE  /\ parent[v] \in chain[v] \cup reth[v].known
         /\ parent[v] \in Blocks /\ Len(parent[v]) = Len(decided[v])
  <1> DEFINE n == Len(decided[v])
  <1>1. decided[v] \in Seq(Blocks) /\ n \in Nat /\ parent[v] = Prev(n + 1)
    BY DEF LoopInv
  <1>2. CASE n = 0
    <2>1. parent[v] = Genesis
      BY <1>1, <1>2 DEF Prev
    <2> QED
      BY <1>2, <2>1, GenesisIsABlock DEF BridgeInv, BridgeAt
  <1>3. CASE n # 0
    <2>1. n \in 1..n /\ n \in Heights
      BY <1>1, <1>3, EngineAssumption, SMTT(30) DEF LoopInv, Heights
    <2>2. parent[v] = decision[n] /\ decided[v][n] = decision[n] /\ decision[n] # NoBlock
      <3>1. decided[v][n] = decision[n] /\ decision[n] # NoBlock
        BY <2>1 DEF LoopInv
      <3>2. n + 1 # 1 /\ (n + 1) - 1 = n
        BY <1>1, <1>3
      <3> HIDE DEF n
      <3>3. Prev(n + 1) = decision[n]
        BY <3>2 DEF Prev
      <3> QED
        BY <1>1, <3>1, <3>3
    <2>3. IsBlockAt(n, decision[n])
      BY <2>1, <2>2 DEF ValuesInv
    <2>4. decided[v][n] \in chain[v]
      BY <2>1 DEF BridgeInv, BridgeAt
    <2> QED
      BY <2>2, <2>3, <2>4 DEF IsBlockAt
  <1> QED
    BY <1>2, <1>3

\* A block that is decided and held by a running loop has its timestamp.
LEMMA HeldHasTime ==
  ASSUME ValuesInv, LoopInv, BridgeInv, NEW v \in Validators, Running(v),
         Holds(v, decision[height[v]])
  PROVE  /\ decision[height[v]] \in blockTimes[v]
         /\ decision[height[v]] # NoBlock
  <1> DEFINE b == decision[height[v]]
  <1>1. PICK p \in pending[v] : p.block = b
    BY DEF Holds
  <1>2. b \in Blocks /\ b # NoBlock
    BY <1>1, NoBlockIsNone DEF BridgeInv, Payloads
  <1>3. height[v] \in Heights /\ Len(decided[v]) = height[v] - 1
    BY DEF LoopInv, Running
  <1>4. Len(b) = height[v]
    BY <1>2, <1>3 DEF ValuesInv, IsBlockAt
  <1>5. ASSUME b \in chain[v] PROVE FALSE
    <2>0. chain[v] = {decided[v][k] : k \in 1..Len(decided[v])}
      BY DEF BridgeInv, BridgeAt
    <2> HIDE DEF b
    <2>1. PICK i \in 1..Len(decided[v]) : b = decided[v][i]
      BY <1>5, <2>0
    <2> USE DEF b
    <2>2. i \in Heights /\ i < height[v]
      BY <1>3, EngineAssumption DEF Heights
    <2>3. decided[v][i] = decision[i] /\ decision[i] # NoBlock
      BY DEF LoopInv
    <2>4. Len(decision[i]) = i
      BY <2>2, <2>3 DEF ValuesInv, IsBlockAt
    <2> QED
      BY <1>4, <2>1, <2>2, <2>3, <2>4
  <1>6. b \in blockTimes[v]
    BY <1>1, <1>5 DEF BridgeInv, BridgeAt
  <1> QED
    BY <1>2, <1>6

\* Where a running loop is.
LEMMA RunningHeight ==
  ASSUME LoopInv, NEW v \in Validators, Running(v)
  PROVE  /\ height[v] \in Heights /\ height[v] \in Nat \ {0} /\ height[v] <= Decisions
         /\ Len(decided[v]) = height[v] - 1 /\ height[v] = Len(decided[v]) + 1
         /\ parent[v] = Prev(height[v])
  <1>1. height[v] \in Heights /\ Len(decided[v]) = height[v] - 1
    BY DEF LoopInv, Running
  <1>2. height[v] \in Nat \ {0} /\ height[v] <= Decisions /\ height[v] = Len(decided[v]) + 1
    BY <1>1, EngineAssumption DEF Heights
  <1>3. parent[v] = Prev(Len(decided[v]) + 1)
    BY DEF LoopInv
  <1> QED
    BY <1>1, <1>2, <1>3

\* The steps, with the error paths that can be taken: a loop fails in
\* build_payload, after Reth refused a payload or the builder its job.
Proposes(v) ==
  \E r \in 0..MaxRound, body \in Bodies :
    Running(v) /\ r >= round[v] /\ Propose(v, r, BuiltOn(parent[v], body))
Commits(v) ==
  /\ Running(v) /\ decision[height[v]] # NoBlock
  /\ \E taken \in SUBSET Calls : Commit(v, decision[height[v]], taken)
Fails(v) ==
  /\ Running(v) /\ Fail(v) /\ refused \subseteq refused'
  /\ PayloadRefused(v) \/ <<v, parent[v], "build">> \in refused'

LEMMA ErrorPaths ==
  ASSUME ValuesInv, LoopInv, BridgeInv, EngineNext
  PROVE  \/ \E v \in Validators : Proposes(v) \/ Commits(v) \/ Fails(v)
         \/ \E m \in net : BufferPart(m) \/ RegisterProposal(m) \/ Lose(m) \/ Garble(m)
         \/ \E h \in Heights : Decide(h)
  <1>1. ASSUME NEW v \in Validators, NEW r \in 0..MaxRound, GetValue(v, r)
        PROVE  Proposes(v) \/ Fails(v)
    <2>1. CASE \E body \in Bodies : Propose(v, r, BuiltOn(parent[v], body))
      BY <1>1, <2>1 DEF GetValue, Proposes
    <2>2. CASE ~ Buildable(v) /\ Fail(v) /\ UNCHANGED refused
      <3>1. PayloadRefused(v)
        BY <2>2, ParentKnown DEF Buildable, BridgeInv, BridgeAt, RethAt
      <3> QED
        BY <1>1, <2>2, <3>1 DEF GetValue, Fails
    <2>3. CASE refused' = refused \cup {<<v, parent[v], "build">>} /\ Fail(v)
      BY <1>1, <2>3 DEF GetValue, Fails
    <2> QED
      BY <1>1, <2>1, <2>2, <2>3 DEF GetValue
  <1>2. ASSUME NEW v \in Validators, NEW taken \in SUBSET Calls, Decided(v, taken)
        PROVE  Commits(v)
    BY <1>2, HeldHasTime DEF Decided, Commits
  <1> QED
    BY <1>1, <1>2 DEF EngineNext

-----------------------------------------------------------------------------
(* The values.                                                             *)

\* A decision that is made stays.
DecisionsStay == \A h \in Heights : decision[h] # NoBlock => decision'[h] = decision[h]

LEMMA PrevStays ==
  ASSUME DecisionsStay, NEW h \in Nat \ {0}, h <= Decisions + 1, Prev(h) \in Blocks
  PROVE  Prev(h)' = Prev(h)
  <1>1. CASE h = 1
    BY <1>1 DEF Prev
  <1>2. CASE h # 1
    <2>1. h - 1 \in Heights /\ Prev(h) = decision[h - 1]
      BY <1>2, EngineAssumption DEF Prev, Heights
    <2>2. decision[h - 1] # NoBlock
      BY <2>1, NoBlockIsNone
    <2> QED
      BY <1>2, <2>1, <2>2 DEF Prev, DecisionsStay
  <1> QED
    BY <1>1, <1>2

LEMMA BlocksStay ==
  ASSUME DecisionsStay, NEW h \in Heights, NEW b, IsBlockAt(h, b)
  PROVE  IsBlockAt(h, b)'
  <1>1. h \in Nat \ {0} /\ h <= Decisions + 1
    BY EngineAssumption DEF Heights
  <1>2. Prev(h)' = Prev(h)
    BY <1>1, PrevStays DEF IsBlockAt
  <1> QED
    BY <1>2 DEF IsBlockAt

LEMMA ValuesStep ==
  ASSUME ValuesInv, LoopInv, BridgeInv, [EngineNext]_engineVars
  PROVE  ValuesInv' /\ DecisionsStay
  <1>1. ASSUME UNCHANGED <<proposed, decision>>
        PROVE  ValuesInv' /\ DecisionsStay
    BY <1>1 DEF ValuesInv, DecisionsStay, IsBlockAt, Prev
  <1>2. ASSUME NEW v \in Validators, Proposes(v)
        PROVE  ValuesInv' /\ DecisionsStay
    <2>1. PICK r \in 0..MaxRound, body \in Bodies :
            Running(v) /\ Propose(v, r, BuiltOn(parent[v], body))
      BY <1>2 DEF Proposes
    <2> DEFINE b == BuiltOn(parent[v], body)
               x == <<height[v], r, b>>
    <2>2. proposed' = proposed \cup {x} /\ decision' = decision
      BY <2>1 DEF Propose
    <2>3. /\ parent[v] \in Blocks /\ Len(parent[v]) = height[v] - 1
          /\ height[v] \in Heights /\ parent[v] = Prev(height[v])
      BY <2>1, ParentKnown, RunningHeight
    <2>4. IsBlockAt(height[v], b)
      BY <2>3, BuiltOnIsNext, EngineAssumption DEF IsBlockAt, Heights
    <2>5. x \in Heights \X Nat \X Blocks /\ IsBlockAt(x[1], x[3])
      BY <2>3, <2>4, EngineAssumption DEF IsBlockAt
    <2> HIDE DEF x
    <2>6. DecisionsStay
      BY <2>2 DEF DecisionsStay
    <2>7. \A h : IsBlockAt(h, decision[h])' <=> IsBlockAt(h, decision[h])
      BY <2>2 DEF IsBlockAt, Prev
    <2>8. \A y \in proposed' : IsBlockAt(y[1], y[3])'
      BY <2>2, <2>5 DEF IsBlockAt, Prev, ValuesInv
    <2> QED
      BY <2>2, <2>5, <2>6, <2>7, <2>8 DEF ValuesInv
  <1>3. ASSUME NEW h \in Heights, Decide(h)
        PROVE  ValuesInv' /\ DecisionsStay
    <2>1. PICK b \in {x[3] : x \in {y \in proposed : y[1] = h}} :
            decision' = [decision EXCEPT ![h] = b]
      BY <1>3 DEF Decide
    <2>2. b \in Blocks /\ IsBlockAt(h, b)
      BY <2>1 DEF ValuesInv
    <2>3. DecisionsStay
      BY <1>3, <2>1 DEF Decide, DecisionsStay, ValuesInv
    <2>4. decision' \in [Heights -> Blocks \cup {NoBlock}] /\ proposed' = proposed
      BY <1>3, <2>1, <2>2 DEF Decide, ValuesInv
    <2>5. ASSUME NEW x \in proposed'
          PROVE  IsBlockAt(x[1], x[3])'
      <3>1. x \in proposed /\ x[1] \in Heights /\ IsBlockAt(x[1], x[3])
        BY <2>4 DEF ValuesInv
      <3> QED
        BY <2>3, <3>1, BlocksStay
    <2>6. ASSUME NEW g \in Heights, decision'[g] # NoBlock
          PROVE  IsBlockAt(g, decision[g])'
      <3> DEFINE c == decision'[g]
      <3>1. IsBlockAt(g, c)
        BY <2>1, <2>2, <2>6 DEF ValuesInv
      <3> HIDE DEF c
      <3>2. Prev(g)' = Prev(g)
        BY <2>3, <3>1, PrevStays, EngineAssumption DEF Heights, IsBlockAt
      <3> QED
        BY <3>1, <3>2 DEF IsBlockAt, c
    <2> QED
      BY <2>3, <2>4, <2>5, <2>6 DEF ValuesInv
  <1>4. ASSUME NEW v \in Validators, Commits(v)
        PROVE  UNCHANGED <<proposed, decision>>
    BY <1>4 DEF Commits, Commit
  <1>5. ASSUME NEW m \in net, BufferPart(m) \/ RegisterProposal(m) \/ Lose(m) \/ Garble(m)
        PROVE  UNCHANGED <<proposed, decision>>
    BY <1>5 DEF BufferPart, RegisterProposal, Lose, Garble
  <1>6. CASE UNCHANGED engineVars
    BY <1>1, <1>6 DEF engineVars
  <1>7. ASSUME NEW v \in Validators, Fails(v)
        PROVE  UNCHANGED <<proposed, decision>>
    BY <1>7 DEF Fails, Fail
  <1> QED
    BY <1>1, <1>2, <1>3, <1>4, <1>5, <1>6, <1>7, ErrorPaths

-----------------------------------------------------------------------------
(* The loops.                                                              *)

\* What a commit does to its loop, and to no other.
LEMMA CommitLoop ==
  ASSUME LoopInv, NEW v \in Validators, Commits(v)
  PROVE  LET b == decision[height[v]]
             h == height[v] IN
         /\ decided' = [decided EXCEPT ![v] = Append(@, b)]
         /\ Len(decided'[v]) = h
         /\ hook' = [hook EXCEPT ![v] = Append(@, <<h, Len(b)>>)]
         /\ parent' = [parent EXCEPT ![v] = b] /\ head' = [head EXCEPT ![v] = b]
         /\ status' = [status EXCEPT ![v] = IF h >= Decisions THEN "done" ELSE "running"]
         /\ height' = [height EXCEPT ![v] = IF h >= Decisions THEN h ELSE h + 1]
         /\ round' = [round EXCEPT ![v] = 0]
  <1> DEFINE b == decision[height[v]]
             h == height[v]
  <1>1. /\ decided' = [decided EXCEPT ![v] = Append(@, b)]
        /\ hook' = [hook EXCEPT ![v] = Append(@, <<h, Len(b)>>)]
        /\ parent' = [parent EXCEPT ![v] = b] /\ head' = [head EXCEPT ![v] = b]
        /\ status' = [status EXCEPT ![v] = IF Len(decided'[v]) >= Decisions THEN "done" ELSE @]
        /\ height' = [height EXCEPT ![v] = IF status'[v] = "done" THEN @ ELSE @ + 1]
        /\ round' = [round EXCEPT ![v] = 0]
    BY DEF Commits, Commit, Timestamp, Number, NextParent
  <1>2. status[v] = "running" /\ Len(decided[v]) = h - 1 /\ h \in Nat \ {0}
    BY RunningHeight DEF Commits, Running
  <1>3. decided[v] \in Seq(Blocks) /\ decided'[v] = Append(decided[v], b)
    BY <1>1 DEF LoopInv
  <1>4. Len(decided'[v]) = h
    BY <1>2, <1>3
  <1>5. status' = [status EXCEPT ![v] = IF h >= Decisions THEN "done" ELSE "running"]
    BY <1>1, <1>2, <1>4
  <1>6. status'[v] = (IF h >= Decisions THEN "done" ELSE "running")
    BY <1>5 DEF LoopInv
  <1>7. height' = [height EXCEPT ![v] = IF h >= Decisions THEN h ELSE h + 1]
    <2>1. (IF status'[v] = "done" THEN height[v] ELSE height[v] + 1)
            = (IF h >= Decisions THEN h ELSE h + 1)
      BY <1>6
    <2>2. height' = [height EXCEPT ![v] = IF status'[v] = "done" THEN height[v] ELSE height[v] + 1]
      BY <1>1
    <2> HIDE DEF h
    <2> QED
      BY <2>1, <2>2
  <1> QED
    BY <1>1, <1>4, <1>5, <1>7

\* A message is for a validator.
LEMMA StreamTo ==
  ASSUME StreamInv, NEW m \in net
  PROVE  m.to \in Validators
  BY DEF StreamInv, Messages

LEMMA LoopStep ==
  ASSUME ValuesInv, LoopInv, BridgeInv, StreamInv, [EngineNext]_engineVars
  PROVE  LoopInv'
  <1> DEFINE AtOf(w) ==
        /\ Len(decided[w]) = IF status[w] = "done" THEN Decisions ELSE height[w] - 1
        /\ Len(hook[w]) = Len(decided[w])
        /\ \A i \in 1..Len(decided[w]) :
             decided[w][i] = decision[i] /\ decision[i] # NoBlock /\ hook[w][i] = <<i, i>>
        /\ parent[w] = Prev(Len(decided[w]) + 1)
        /\ head[w] = parent[w]
  <1>0. DecisionsStay
    BY ValuesStep
  \* A loop that the step leaves alone, or ends with an error, is not disturbed
  \* by a decision either.
  <1>1. ASSUME NEW w \in Validators,
               status'[w] = status[w] \/ (status[w] = "running" /\ status'[w] = "failed"),
               /\ height'[w] = height[w] /\ parent'[w] = parent[w] /\ head'[w] = head[w] /\ decided'[w] = decided[w] /\ hook'[w] = hook[w]
        PROVE  AtOf(w)'
    <2>1. AtOf(w) /\ decided[w] \in Seq(Blocks) /\ Len(decided[w]) \in Nat
          /\ Len(decided[w]) <= Decisions
      <3>1. AtOf(w) /\ decided[w] \in Seq(Blocks)
        BY DEF LoopInv
      <3>2. Len(decided[w]) \in Nat
        BY <3>1, LenProperties
      <3>3. height[w] \in Heights
        BY DEF LoopInv
      <3>4. height[w] \in Nat /\ height[w] <= Decisions /\ Decisions \in Nat
        BY <3>3, EngineAssumption DEF Heights
      <3>5. Len(decided[w]) = height[w] - 1 \/ Len(decided[w]) = Decisions
        BY <3>1
      <3>6. Len(decided[w]) <= Decisions
        BY <3>2, <3>4, <3>5
      <3> QED
        BY <3>1, <3>2, <3>6
    <2>2. Prev(Len(decided[w]) + 1) \in Blocks
      BY <2>1 DEF LoopInv
    <2>3. Prev(Len(decided[w]) + 1)' = Prev(Len(decided[w]) + 1)
      <3> DEFINE n == Len(decided[w]) + 1
      <3>1. n \in Nat \ {0} /\ n <= Decisions + 1 /\ n' = n
        BY <1>1, <2>1, EngineAssumption
      <3>2. (IF n = 1 THEN Genesis ELSE decision'[n - 1]) = Prev(n)
        <4> HIDE DEF n
        <4> QED
          BY <1>0, <2>2, <3>1, PrevStays DEF Prev, n
      <3> QED
        BY <3>1, <3>2 DEF Prev
    <2>4. \A i \in 1..Len(decided[w]) : decision'[i] = decision[i]
      BY <1>0, <2>1, EngineAssumption DEF DecisionsStay, Heights
    <2> QED
      BY <1>1, <2>1, <2>3, <2>4
  <1>2. ASSUME UNCHANGED <<status, height, parent, decided, hook, head>>,
               round' \in [Validators -> 0..(MaxRound + 1)]
        PROVE  LoopInv'
    <2>1. \A w \in Validators : AtOf(w)'
      BY <1>1, <1>2
    <2> QED
      BY <1>2, <2>1 DEF LoopInv
  <1>9. ASSUME NEW v \in Validators, Running(v), status' = [status EXCEPT ![v] = "failed"],
               UNCHANGED <<height, round, parent, decided, hook, head>>
        PROVE  LoopInv'
    <2>1. /\ status' \in [Validators -> {"running", "done", "failed"}]
          /\ \A w \in Validators :
               status'[w] = status[w] \/ (status[w] = "running" /\ status'[w] = "failed")
      BY <1>9 DEF LoopInv, Running
    <2>2. \A w \in Validators : AtOf(w)'
      BY <1>1, <1>9, <2>1
    <2> QED
      BY <1>9, <2>1, <2>2 DEF LoopInv
  <1>3. ASSUME NEW v \in Validators, Proposes(v)
        PROVE  LoopInv'
    <2>1. PICK r \in 0..MaxRound, body \in Bodies : Propose(v, r, BuiltOn(parent[v], body))
      BY <1>3 DEF Proposes
    <2>2. UNCHANGED <<status, height, parent, decided, hook, head>>
          /\ round' = [round EXCEPT ![v] = r + 1]
      BY <2>1 DEF Propose
    <2>3. round' \in [Validators -> 0..(MaxRound + 1)]
      BY <2>2, EngineAssumption DEF LoopInv
    <2> QED
      BY <1>2, <2>2, <2>3
  <1>4. ASSUME NEW v \in Validators, Commits(v)
        PROVE  LoopInv'
    <2> DEFINE b == decision[height[v]]
               h == height[v]
    <2>1. /\ decided' = [decided EXCEPT ![v] = Append(@, b)]
          /\ Len(decided'[v]) = h
          /\ hook' = [hook EXCEPT ![v] = Append(@, <<h, Len(b)>>)]
          /\ parent' = [parent EXCEPT ![v] = b] /\ head' = [head EXCEPT ![v] = b]
          /\ status' = [status EXCEPT ![v] = IF h >= Decisions THEN "done" ELSE "running"]
          /\ height' = [height EXCEPT ![v] = IF h >= Decisions THEN h ELSE h + 1]
          /\ round' = [round EXCEPT ![v] = 0]
      BY <1>4, CommitLoop
    <2>2. /\ h \in Heights /\ h \in Nat \ {0} /\ h <= Decisions /\ Len(decided[v]) = h - 1
          /\ b # NoBlock
      BY <1>4, RunningHeight DEF Commits
    <2>3. b \in Blocks /\ Len(b) = h
      BY <2>2 DEF ValuesInv, IsBlockAt
    <2>4. decision' = decision
      BY <1>4 DEF Commits, Commit
    <2> HIDE DEF b
    <2>5. /\ status' \in [Validators -> {"running", "done", "failed"}]
          /\ height' \in [Validators -> Heights]
          /\ round' \in [Validators -> 0..(MaxRound + 1)]
          /\ parent' \in [Validators -> Blocks] /\ head' \in [Validators -> Blocks]
      BY <2>1, <2>2, <2>3, EngineAssumption DEF LoopInv, Heights
    <2>6. /\ decided[v] \in Seq(Blocks) /\ hook[v] \in Seq(Nat \X Nat)
          /\ Len(hook[v]) = h - 1 /\ <<h, Len(b)>> \in Nat \X Nat
      BY <2>2, <2>3 DEF LoopInv
    <2>7. /\ decided'[v] = Append(decided[v], b) /\ hook'[v] = Append(hook[v], <<h, h>>)
          /\ parent'[v] = b /\ head'[v] = b
          /\ status'[v] = (IF h >= Decisions THEN "done" ELSE "running")
          /\ height'[v] = (IF h >= Decisions THEN h ELSE h + 1)
      BY <2>1, <2>3 DEF LoopInv
    <2>8. decided' \in [Validators -> Seq(Blocks)] /\ hook' \in [Validators -> Seq(Nat \X Nat)]
      <3>1. Append(decided[v], b) \in Seq(Blocks) /\ Append(hook[v], <<h, Len(b)>>) \in Seq(Nat \X Nat)
        BY <2>3, <2>6, AppendProperties
      <3> QED
        BY <2>1, <3>1 DEF LoopInv
    <2>9. /\ Len(hook'[v]) = h
          /\ decided'[v][h] = b /\ hook'[v][h] = <<h, h>>
          /\ \A i \in 1..(h - 1) : decided'[v][i] = decided[v][i] /\ hook'[v][i] = hook[v][i]
      <3>1. PICK s \in Seq(Blocks) : s = decided[v] /\ Len(s) = h - 1
        BY <2>2, <2>6
      <3>2. PICK t \in Seq(Nat \X Nat) : t = hook[v] /\ Len(t) = h - 1
        BY <2>6
      <3>3. <<h, h>> \in Nat \X Nat /\ (h - 1) + 1 = h
        BY <2>2
      <3>4. Append(s, b)[h] = b /\ \A i \in 1..(h - 1) : Append(s, b)[i] = s[i]
        BY <2>3, <3>1, <3>3, AppendProperties
      <3>5. /\ Len(Append(t, <<h, h>>)) = h /\ Append(t, <<h, h>>)[h] = <<h, h>>
            /\ \A i \in 1..(h - 1) : Append(t, <<h, h>>)[i] = t[i]
        BY <3>2, <3>3, AppendProperties
      <3> QED
        BY <2>7, <3>1, <3>2, <3>4, <3>5
    <2>10. \A i \in 1..h : /\ decided'[v][i] = decision[i] /\ decision[i] # NoBlock
                           /\ hook'[v][i] = <<i, i>>
      <3>1. \A i \in 1..(h - 1) :
              decided[v][i] = decision[i] /\ decision[i] # NoBlock /\ hook[v][i] = <<i, i>>
        BY <2>2 DEF LoopInv
      <3>2. \A i \in 1..h : i = h \/ i \in 1..(h - 1)
        BY <2>2
      <3>3. decided'[v][h] = decision[h] /\ decision[h] # NoBlock
        BY <2>2, <2>9 DEF b
      <3> QED
        BY <2>9, <3>1, <3>2, <3>3
    <2>11. AtOf(v)'
      <3>1. h + 1 # 1 /\ (h + 1) - 1 = h
        BY <2>2
      <3>2. Prev(Len(decided[v]) + 1)' = b
        BY <2>1, <2>4, <3>1 DEF Prev, b
      <3>3. h = IF status'[v] = "done" THEN Decisions ELSE height'[v] - 1
        BY <2>2, <2>7, EngineAssumption
      <3> QED
        BY <2>1, <2>4, <2>7, <2>9, <2>10, <3>2, <3>3
    <2>12. ASSUME NEW w \in Validators, w # v
           PROVE  AtOf(w)'
      <3>1. /\ status'[w] = status[w] /\ height'[w] = height[w] /\ parent'[w] = parent[w]
            /\ head'[w] = head[w] /\ decided'[w] = decided[w] /\ hook'[w] = hook[w]
        BY <2>1, <2>12 DEF LoopInv
      <3> QED
        BY <1>1, <3>1
    <2> QED
      BY <2>5, <2>8, <2>11, <2>12 DEF LoopInv
  <1>5. ASSUME NEW m \in net,
               \/ BufferPart(m) \/ Lose(m) \/ Garble(m)
               \/ RegisterProposal(m) /\ ~ Rejected(m.to, m)
        PROVE  UNCHANGED <<status, height, round, parent, decided, hook, head>>
    BY <1>5 DEF BufferPart, RegisterProposal, Lose, Garble, app, bridge
  <1>10. ASSUME NEW m \in net, RegisterProposal(m), Rejected(m.to, m), m.to \in Validators
         PROVE  LoopInv'
    BY <1>9, <1>10 DEF RegisterProposal
  <1>11. ASSUME NEW v \in Validators, Fails(v)
         PROVE  LoopInv'
    BY <1>9, <1>11 DEF Fails, Fail, bridge
  <1>6. ASSUME NEW h \in Heights, Decide(h)
        PROVE  UNCHANGED <<status, height, round, parent, decided, hook, head>>
    BY <1>6 DEF Decide, app, bridge
  <1>7. CASE UNCHANGED engineVars
    BY <1>2, <1>7 DEF engineVars, app, bridge, LoopInv
  <1>8. round' = round => round' \in [Validators -> 0..(MaxRound + 1)]
    BY DEF LoopInv
  <1> QED
    BY <1>2, <1>3, <1>4, <1>5, <1>6, <1>7, <1>8, <1>10, <1>11, StreamTo, ErrorPaths

-----------------------------------------------------------------------------
(* The bridges.                                                            *)

\* What a payload brings to a bridge that holds it: both a proposer's own
\* and one registered from the wire.
LEMMA PayloadTypes ==
  ASSUME ValuesInv, LoopInv, BridgeInv, FillInv, StreamInv
  PROVE  /\ \A v \in Validators, body \in Bodies :
              /\ BuiltOn(parent[v], body) \in Blocks
              /\ Payload(v, BuiltOn(parent[v], body)) \in Payloads
         /\ \A m \in net : /\ Registered(m.part.block_bytes) \in Payloads
                           /\ m.to \in Validators
  <1>1. ASSUME NEW v \in Validators, NEW body \in Bodies
        PROVE  /\ BuiltOn(parent[v], body) \in Blocks
               /\ Payload(v, BuiltOn(parent[v], body)) \in Payloads
    <2>1. BuiltOn(parent[v], body) \in Blocks
      BY ParentKnown, BuiltOnIsNext
    <2>2. buffer[v] \in SUBSET Validators
      BY DEF FillInv
    <2> QED
      BY <2>1, <2>2 DEF Payload, Payloads
  <1>2. ASSUME NEW m \in net
        PROVE  Registered(m.part.block_bytes) \in Payloads /\ m.to \in Validators
    BY DEF StreamInv, Messages, Registered, Payloads
  <1> QED
    BY <1>1, <1>2

LEMMA BridgeStep ==
  ASSUME EngineInv, [EngineNext]_engineVars
  PROVE  BridgeInv'
  <1> USE DEF EngineInv
  <1>1. \A w \in Validators : BridgeAt(w)
    BY DEF BridgeInv
  <1>2. ASSUME UNCHANGED <<pending, blockTimes, chain, reth, decided, parent, head>>,
               refused \subseteq refused'
        PROVE  BridgeInv'
    BY <1>1, <1>2 DEF BridgeInv, BridgeAt, RethAt, PayloadRefused
  \* A bridge takes in a payload.
  <1>3. ASSUME NEW v \in Validators, NEW payload \in Payloads,
               pending' = [pending EXCEPT ![v] = @ \cup {payload}],
               blockTimes' = [blockTimes EXCEPT ![v] = @ \cup {payload.block}],
               UNCHANGED <<chain, reth, decided, parent, head, refused>>
        PROVE  BridgeInv'
    <2>1. /\ pending' \in [Validators -> SUBSET Payloads]
          /\ blockTimes' \in [Validators -> SUBSET Blocks]
          /\ chain' \in [Validators -> SUBSET Blocks]
          /\ reth' \in [Validators -> [known : SUBSET Blocks, head : Blocks]]
      BY <1>3 DEF BridgeInv, Payloads
    <2>2. /\ pending'[v] = pending[v] \cup {payload}
          /\ blockTimes'[v] = blockTimes[v] \cup {payload.block}
          /\ \A w \in Validators \ {v} : pending'[w] = pending[w] /\ blockTimes'[w] = blockTimes[w]
      BY <1>3 DEF BridgeInv
    <2>3. BridgeAt(v)'
      BY <1>1, <1>3, <2>2 DEF BridgeAt, RethAt, PayloadRefused
    <2>4. \A w \in Validators \ {v} : BridgeAt(w)'
      BY <1>1, <1>3, <2>2 DEF BridgeAt, RethAt, PayloadRefused
    <2> QED
      BY <2>1, <2>3, <2>4 DEF BridgeInv
  <1>4. ASSUME NEW v \in Validators, Proposes(v)
        PROVE  BridgeInv'
    <2>1. PICK r \in 0..MaxRound, body \in Bodies : Propose(v, r, BuiltOn(parent[v], body))
      BY <1>4 DEF Proposes
    <2> DEFINE payload == Payload(v, BuiltOn(parent[v], body))
    <2>2. payload \in Payloads /\ payload.block = BuiltOn(parent[v], body)
      BY PayloadTypes DEF Payload
    <2>3. /\ pending' = [pending EXCEPT ![v] = @ \cup {payload}]
          /\ blockTimes' = [blockTimes EXCEPT ![v] = @ \cup {BuiltOn(parent[v], body)}]
          /\ UNCHANGED <<chain, reth, decided, parent, head, refused>>
      BY <2>1 DEF Propose, RecordTime
    <2> HIDE DEF payload
    <2> QED
      BY <1>3, <2>2, <2>3
  <1>5. ASSUME NEW m \in net, RegisterProposal(m), ~ Rejected(m.to, m)
        PROVE  BridgeInv'
    <2> DEFINE payload == Registered(m.part.block_bytes)
    <2>1. payload \in Payloads /\ m.to \in Validators
      BY PayloadTypes
    <2>2. /\ pending' = [pending EXCEPT ![m.to] = @ \cup {payload}]
          /\ blockTimes' = [blockTimes EXCEPT ![m.to] = @ \cup {payload.block}]
          /\ UNCHANGED <<chain, reth, decided, parent, head, refused>>
      BY <1>5 DEF RegisterProposal, RecordTime
    <2> HIDE DEF payload
    <2> QED
      BY <1>3, <2>1, <2>2
  <1>6. ASSUME NEW v \in Validators, Commits(v)
        PROVE  BridgeInv'
    <2> DEFINE b == decision[height[v]]
               h == height[v]
    <2>1. /\ b # NoBlock /\ h \in Heights /\ Len(decided[v]) = h - 1 /\ h \in Nat \ {0}
          /\ parent[v] = Prev(h)
      BY <1>6, RunningHeight DEF Commits
    <2>2. b \in Blocks /\ Front(b) = parent[v]
      BY <2>1 DEF ValuesInv, IsBlockAt
    <2>0. PICK taken \in SUBSET Calls : Commit(v, b, taken)
      BY <1>6 DEF Commits
    <2>3. PICK p \in pending[v] : p.block = b /\ reth' = [reth EXCEPT ![v] = Executed(@, p, taken)]
      BY <2>0 DEF Commit
    <2>4. /\ blockTimes' = [blockTimes EXCEPT ![v] = @ \ {b}]
          /\ chain' = [chain EXCEPT ![v] = @ \cup {b}]
          /\ head' = [head EXCEPT ![v] = b] /\ parent' = [parent EXCEPT ![v] = b]
          /\ decided' = [decided EXCEPT ![v] = Append(@, b)] /\ pending' = pending
          /\ refused' = refused \cup {<<v, b, call>> : call \in Calls \ taken}
      BY <2>0 DEF Commit, NextParent
    <2>5. p.data = RealPayloads
      BY <2>3 DEF BridgeInv, Payloads
    <2> HIDE DEF b
    <2>6. /\ blockTimes'[v] = blockTimes[v] \ {b} /\ chain'[v] = chain[v] \cup {b}
          /\ head'[v] = b /\ parent'[v] = b /\ decided'[v] = Append(decided[v], b)
          /\ reth'[v] = Executed(reth[v], p, taken)
      BY <2>3, <2>4 DEF BridgeInv, LoopInv
    <2>7. \A w \in Validators \ {v} :
            /\ blockTimes'[w] = blockTimes[w] /\ chain'[w] = chain[w] /\ head'[w] = head[w]
            /\ parent'[w] = parent[w] /\ decided'[w] = decided[w] /\ reth'[w] = reth[w]
            /\ pending'[w] = pending[w]
      BY <2>3, <2>4 DEF BridgeInv, LoopInv
    <2>13. refused \subseteq refused' /\ (PayloadRefused(v) => PayloadRefused(v)')
      BY <2>4 DEF PayloadRefused
    <2>14. \A call \in Calls : call \in taken \/ <<v, b, call>> \in refused'
      BY <2>4
    <2>8. /\ Executed(reth[v], p, taken) \in [known : SUBSET Blocks, head : Blocks]
          /\ Genesis \in Executed(reth[v], p, taken).known
          /\ RealPayloads => b \in Executed(reth[v], p, taken).known \/ PayloadRefused(v)'
          /\ RealPayloads => \/ Executed(reth[v], p, taken).head = b \/ PayloadRefused(v)'
                             \/ <<v, b, "forkchoice">> \in refused'
      <3>1. reth[v] \in [known : SUBSET Blocks, head : Blocks] /\ Genesis \in reth[v].known
        BY DEF BridgeInv, BridgeAt
      <3>2. RealPayloads => Front(b) \in reth[v].known \/ PayloadRefused(v)'
        BY <1>1, <2>2, <2>13 DEF BridgeAt, RethAt
      <3>3. "payload" \in taken \/ PayloadRefused(v)'
        <4>1. "payload" \in taken \/ <<v, b, "payload">> \in refused'
          BY <2>14 DEF Calls
        <4>2. <<v, b, "payload">>[1] = v /\ <<v, b, "payload">>[3] = "payload"
          OBVIOUS
        <4> QED
          BY <4>1, <4>2 DEF PayloadRefused
      <3>4. "forkchoice" \in taken \/ <<v, b, "forkchoice">> \in refused'
        BY <2>14 DEF Calls
      <3>5. /\ Executed(reth[v], p, taken) \in [known : SUBSET Blocks, head : Blocks]
            /\ Genesis \in Executed(reth[v], p, taken).known
        BY <2>2, <2>3, <3>1 DEF Executed
      <3>6. RealPayloads => b \in Executed(reth[v], p, taken).known \/ PayloadRefused(v)'
        BY <2>3, <2>5, <3>2, <3>3 DEF Executed
      <3>7. RealPayloads => \/ Executed(reth[v], p, taken).head = b \/ PayloadRefused(v)'
                            \/ <<v, b, "forkchoice">> \in refused'
        BY <2>3, <3>4, <3>6 DEF Executed
      <3> QED
        BY <3>5, <3>6, <3>7
    <2>9. /\ pending' \in [Validators -> SUBSET Payloads]
          /\ blockTimes' \in [Validators -> SUBSET Blocks]
          /\ chain' \in [Validators -> SUBSET Blocks]
          /\ reth' \in [Validators -> [known : SUBSET Blocks, head : Blocks]]
      BY <2>2, <2>3, <2>4, <2>8 DEF BridgeInv
    <2>10. chain'[v] = {decided'[v][i] : i \in 1..Len(decided'[v])}
      <3>1. decided[v] \in Seq(Blocks)
        BY DEF LoopInv
      <3>2. /\ Len(decided'[v]) = h /\ decided'[v][h] = b
            /\ \A i \in 1..(h - 1) : decided'[v][i] = decided[v][i]
        BY <2>1, <2>2, <2>6, <3>1
      <3>3. chain[v] = {decided[v][i] : i \in 1..(h - 1)}
        BY <1>1, <2>1 DEF BridgeAt
      <3>4. 1..h = 1..(h - 1) \cup {h}
        BY <2>1
      <3> HIDE DEF h
      <3> QED
        BY <2>6, <3>2, <3>3, <3>4
    <2>11. BridgeAt(v)'
      <3>1. \A q \in pending[v] : q.block \in blockTimes'[v] \/ q.block \in chain'[v]
        BY <1>1, <2>6 DEF BridgeAt
      <3>2. /\ blockTimes'[v] \subseteq {q.block : q \in pending[v]}
            /\ chain'[v] \subseteq {q.block : q \in pending[v]}
        BY <1>1, <2>3, <2>6 DEF BridgeAt
      <3> QED
        BY <2>4, <2>6, <2>8, <2>10, <3>1, <3>2 DEF BridgeAt, RethAt
    <2>12. \A w \in Validators \ {v} : BridgeAt(w)'
      BY <1>1, <2>7, <2>13 DEF BridgeAt, RethAt, PayloadRefused
    <2> QED
      BY <2>9, <2>11, <2>12 DEF BridgeInv
  <1>7. ASSUME NEW m \in net,
               \/ BufferPart(m) \/ Lose(m) \/ Garble(m)
               \/ RegisterProposal(m) /\ Rejected(m.to, m)
        PROVE  BridgeInv'
    BY <1>2, <1>7 DEF BufferPart, Lose, Garble, RegisterProposal, app, bridge
  <1>8. ASSUME NEW h \in Heights, Decide(h)
        PROVE  BridgeInv'
    BY <1>2, <1>8 DEF Decide, app, bridge
  <1>9. CASE UNCHANGED engineVars
    BY <1>2, <1>9 DEF engineVars, app, bridge
  <1>10. ASSUME NEW v \in Validators, Fails(v)
         PROVE  BridgeInv'
    BY <1>2, <1>10 DEF Fails, Fail, bridge
  <1> QED
    BY <1>4, <1>5, <1>6, <1>7, <1>8, <1>9, <1>10, ErrorPaths

-----------------------------------------------------------------------------
(* The streams.                                                            *)

LEMMA SameMessage ==
  ASSUME NEW m \in Messages, NEW n \in Messages,
         m.to = n.to, m.stream = n.stream, m.half = n.half, m.part = n.part
  PROVE  m = n
  BY DEF Messages

LEMMA UnusedMessages ==
  ASSUME StreamInv
  PROVE  /\ Unused \subseteq Messages
         /\ \A m \in net : m \in Unused
         /\ \A v \in Validators : \A m \in streams[v] : m \in Unused
  BY DEF StreamInv, Unused

\* The messages of a proposal are new, and come in pairs.
LEMMA ProposedMessages ==
  ASSUME EngineInv, NEW v \in Validators, NEW r \in 0..MaxRound, NEW body \in Bodies,
         Running(v), r >= round[v], Propose(v, r, BuiltOn(parent[v], body))
  PROVE  \E part, new :
           /\ net' = net \cup new
           /\ new \subseteq Messages
           /\ \A m \in new : m.stream = <<v, height[v], r>> /\ m.part = part /\ OtherHalf(m, new)
           /\ \A m \in Unused : m.stream # <<v, height[v], r>>
           /\ round'[v] = r + 1
  <1> USE DEF EngineInv
  <1> DEFINE block == BuiltOn(parent[v], body)
             part == ProposalPart(height[v], r, Encoded(Payload(v, block)))
             msg(w, half) == [to |-> w, stream |-> StreamId(v, height[v], r),
                              half |-> half, part |-> part]
             new == {msg(w, half) : w \in Validators \ {v}, half \in Halves}
  <1>1. net' = net \cup new /\ round' = [round EXCEPT ![v] = r + 1]
    BY DEF Propose, Halves
  <1>2. block \in Blocks /\ height[v] \in Nat /\ r \in Nat /\ round[v] \in Nat
    <2>1. block \in Blocks
      BY PayloadTypes
    <2>2. height[v] \in Nat
      BY RunningHeight
    <2>3. r \in Nat /\ round[v] \in Nat
      BY EngineAssumption DEF LoopInv
    <2> QED
      BY <2>1, <2>2, <2>3
  <1>3. part \in [height : Nat, round : Nat, block_bytes : [block : Blocks, data : {RealPayloads}]]
    BY <1>2 DEF ProposalPart, Encoded, Payload
  <1> HIDE DEF part
  <1>4. ASSUME NEW m \in new
        PROVE  m \in Messages /\ m.stream = <<v, height[v], r>> /\ m.part = part
    BY <1>2, <1>3 DEF Messages, StreamId
  <1>5. ASSUME NEW m \in new
        PROVE  OtherHalf(m, new)
    <2>1. PICK w \in Validators \ {v}, half \in Halves : m = msg(w, half)
      OBVIOUS
    <2>2. PICK other \in Halves : other # half
      BY DEF Halves
    <2>3. msg(w, other) \in new
      OBVIOUS
    <2>4. /\ msg(w, other).to = m.to /\ msg(w, other).stream = m.stream
          /\ msg(w, other).half # m.half
      BY <2>1, <2>2
    <2> QED
      BY <2>3, <2>4 DEF OtherHalf
  <1>6. ASSUME NEW m \in Unused, m.stream = <<v, height[v], r>>
        PROVE  FALSE
    <2>1. m.stream[1] = v /\ m.stream[2] = height[v] /\ m.stream[3] = r
      BY <1>6
    <2>2. height[v] < height[v] \/ r < round[v]
      BY <2>1 DEF FreshInv
    <2> QED
      BY <1>2, <2>2
  <1>7. round'[v] = r + 1
    BY <1>1 DEF LoopInv
  <1> HIDE DEF new
  <1> QED
    BY <1>1, <1>4, <1>5, <1>6, <1>7

LEMMA StreamStep ==
  ASSUME EngineInv, [EngineNext]_engineVars
  PROVE  StreamInv'
  <1> USE DEF EngineInv
  <1>1. CASE UNCHANGED <<net, lost, streams>>
    BY <1>1 DEF StreamInv, OtherHalf, Unused
  <1>2. ASSUME NEW v \in Validators, Proposes(v)
        PROVE  StreamInv'
    <2>1. PICK r \in 0..MaxRound, body \in Bodies :
            Running(v) /\ r >= round[v] /\ Propose(v, r, BuiltOn(parent[v], body))
      BY <1>2 DEF Proposes
    <2>2. PICK part, new :
           /\ net' = net \cup new
           /\ new \subseteq Messages
           /\ \A m \in new : m.stream = <<v, height[v], r>> /\ m.part = part /\ OtherHalf(m, new)
           /\ \A m \in Unused : m.stream # <<v, height[v], r>>
           /\ round'[v] = r + 1
      BY <2>1, ProposedMessages
    <2>3. UNCHANGED <<lost, streams>>
      BY <2>1 DEF Propose
    <2>4. /\ net' \subseteq Messages /\ lost' \subseteq Messages
          /\ streams' \in [Validators -> SUBSET Messages]
      BY <2>2, <2>3 DEF StreamInv
    <2>5. ASSUME NEW w \in Validators, NEW m \in streams'[w]
          PROVE  m.to = w /\ m \notin net' /\ OtherHalf(m, net' \cup lost')
      <3>1. m \in streams[w] /\ m \in Unused
        BY <2>3, UnusedMessages
      <3>2. m \notin new
        BY <2>2, <3>1
      <3> QED
        BY <2>2, <2>3, <3>1, <3>2 DEF StreamInv, OtherHalf
    <2>6. ASSUME NEW m \in net'
          PROVE  OtherHalf(m, net' \cup lost' \cup streams'[m.to])
      <3>1. CASE m \in net
        BY <2>2, <2>3, <3>1 DEF StreamInv, OtherHalf
      <3>2. CASE m \in new
        BY <2>2, <3>2 DEF OtherHalf
      <3> QED
        BY <2>2, <3>1, <3>2
    <2>7. Unused' = Unused \cup new
      BY <2>2, <2>3 DEF Unused
    <2>8. \A m, n \in Unused' : m.stream = n.stream => m.part = n.part
      BY <2>2, <2>7 DEF StreamInv
    <2> QED
      BY <2>4, <2>5, <2>6, <2>8 DEF StreamInv
  \* A message that leaves the network, and what is buffered after it.
  <1>3. ASSUME NEW m \in net, BufferPart(m)
        PROVE  StreamInv'
    <2> DEFINE v == m.to
    <2>1. /\ net' = net \ {m} /\ lost' = lost /\ ~ Completes(streams[v], m)
          /\ streams' = [streams EXCEPT ![v] = @ \cup {m}]
      BY <1>3 DEF BufferPart
    <2>2. v \in Validators /\ m \in Messages
      BY DEF StreamInv, Messages
    <2> HIDE DEF v
    <2>3. streams'[v] = streams[v] \cup {m} /\ \A w \in Validators \ {v} : streams'[w] = streams[w]
      BY <2>1, <2>2 DEF StreamInv
    <2>4. /\ net' \subseteq Messages /\ lost' \subseteq Messages
          /\ streams' \in [Validators -> SUBSET Messages]
      BY <2>1, <2>2 DEF StreamInv
    <2>5. \A x \in streams[v] : x.stream = m.stream => x.half = m.half
      BY <2>1 DEF Completes
    <2>6. \A w \in Validators : \A x \in streams'[w] : x.to = w /\ x \notin net'
      BY <2>1, <2>3 DEF StreamInv, v
    <2>7. ASSUME NEW w \in Validators, NEW x \in streams'[w]
          PROVE  OtherHalf(x, net' \cup lost')
      <3>1. CASE x = m
        <4>1. PICK y \in net \cup lost \cup streams[m.to] :
                y.to = m.to /\ y.stream = m.stream /\ y.half # m.half
          BY DEF StreamInv, OtherHalf
        <4>2. y \notin streams[v] /\ y # m
          BY <2>5, <4>1
        <4> QED
          BY <2>1, <3>1, <4>1, <4>2 DEF OtherHalf, v
      <3>2. CASE x # m
        <4>1. x \in streams[w] /\ x.to = w
          BY <2>3, <3>2 DEF StreamInv
        <4>2. PICK y \in net \cup lost : y.to = x.to /\ y.stream = x.stream /\ y.half # x.half
          BY <4>1 DEF StreamInv, OtherHalf
        <4>3. y # m
          BY <2>5, <4>1, <4>2 DEF v
        <4> QED
          BY <2>1, <4>2, <4>3 DEF OtherHalf
      <3> QED
        BY <3>1, <3>2
    <2>8. ASSUME NEW x \in net'
          PROVE  OtherHalf(x, net' \cup lost' \cup streams'[x.to])
      <3>1. PICK y \in net \cup lost \cup streams[x.to] :
              y.to = x.to /\ y.stream = x.stream /\ y.half # x.half
        BY <2>1 DEF StreamInv, OtherHalf
      <3>2. x.to \in Validators
        BY <2>4 DEF Messages
      <3>3. y \in net' \cup lost' \cup streams'[x.to]
        BY <2>1, <2>3, <3>1, <3>2 DEF v
      <3> QED
        BY <3>1, <3>3 DEF OtherHalf
    <2>9. Unused' \subseteq Unused
      <3>1. \A w \in Validators : streams'[w] \subseteq Unused
        BY <2>3, UnusedMessages
      <3> QED
        BY <2>1, <3>1 DEF Unused
    <2> QED
      BY <2>4, <2>6, <2>7, <2>8, <2>9 DEF StreamInv
  <1>4. ASSUME NEW m \in net, RegisterProposal(m)
        PROVE  StreamInv'
    <2> DEFINE v == m.to
    <2>1. /\ net' = net \ {m} /\ lost' = lost /\ Completes(streams[v], m)
          /\ streams' = [streams EXCEPT ![v] = {x \in @ : x.stream # m.stream}]
      BY <1>4 DEF RegisterProposal, Unbuffered
    <2>2. v \in Validators /\ m \in Messages
      BY DEF StreamInv, Messages
    <2>3. PICK c \in streams[v] : c.stream = m.stream /\ c.half # m.half
      BY <2>1 DEF Completes
    <2> HIDE DEF v
    <2>4. /\ streams'[v] = {x \in streams[v] : x.stream # m.stream}
          /\ \A w \in Validators \ {v} : streams'[w] = streams[w]
          /\ \A w \in Validators : streams'[w] \subseteq streams[w]
      BY <2>1, <2>2 DEF StreamInv
    <2>5. /\ net' \subseteq Messages /\ lost' \subseteq Messages
          /\ streams' \in [Validators -> SUBSET Messages]
      BY <2>1, <2>2 DEF StreamInv
    <2>6. \A w \in Validators : \A x \in streams'[w] : x.to = w /\ x \notin net'
      BY <2>1, <2>4 DEF StreamInv
    \* Both halves of the stream have come: nothing of it is under way.
    <2>7. ASSUME NEW x \in net, x.to = v, x.stream = m.stream
          PROVE  x = m
      <3>1. /\ x \in Messages /\ c \in Messages /\ c.to = v /\ c \notin net
            /\ x.part = m.part /\ x.part = c.part
        BY <2>2, <2>3, <2>7, UnusedMessages DEF StreamInv
      <3>2. x.half = m.half \/ x.half = c.half
        BY <2>2, <2>3, <3>1 DEF Messages, Halves
      <3>3. x.half # c.half
        BY <2>3, <2>7, <3>1, SameMessage
      <3> QED
        BY <2>2, <2>7, <3>1, <3>2, <3>3, SameMessage DEF v
    <2>8. ASSUME NEW w \in Validators, NEW x \in streams'[w]
          PROVE  OtherHalf(x, net' \cup lost')
      <3>1. x \in streams[w] /\ x.to = w
        BY <2>4 DEF StreamInv
      <3>2. PICK y \in net \cup lost : y.to = x.to /\ y.stream = x.stream /\ y.half # x.half
        BY <3>1 DEF StreamInv, OtherHalf
      <3>3. y # m
        BY <2>4, <3>1, <3>2 DEF v
      <3> QED
        BY <2>1, <3>2, <3>3 DEF OtherHalf
    <2>9. ASSUME NEW x \in net'
          PROVE  OtherHalf(x, net' \cup lost' \cup streams'[x.to])
      <3>1. PICK y \in net \cup lost \cup streams[x.to] :
              y.to = x.to /\ y.stream = x.stream /\ y.half # x.half
        BY <2>1 DEF StreamInv, OtherHalf
      <3>2. x.to \in Validators /\ x \in net /\ x # m
        BY <2>1, <2>5 DEF Messages
      <3>3. ~(x.to = v /\ x.stream = m.stream)
        BY <2>7, <3>2
      <3>4. y \in net' \cup lost' \cup streams'[x.to]
        BY <2>1, <2>4, <3>1, <3>2, <3>3 DEF v
      <3> QED
        BY <3>1, <3>4 DEF OtherHalf
    <2>10. Unused' \subseteq Unused
      BY <2>1, <2>4 DEF Unused
    <2> QED
      BY <2>5, <2>6, <2>8, <2>9, <2>10 DEF StreamInv
  <1>5. ASSUME NEW m \in net, Lose(m)
        PROVE  StreamInv'
    <2>1. net' = net \ {m} /\ lost' = lost \cup {m} /\ streams' = streams
      BY <1>5 DEF Lose, app
    <2>2. net' \cup lost' = net \cup lost
      BY <2>1
    <2>3. Unused' \subseteq Unused
      BY <2>1 DEF Unused
    <2> QED
      BY <2>1, <2>2, <2>3 DEF StreamInv
  <1>6. ASSUME NEW v \in Validators, Commits(v)
        PROVE  UNCHANGED <<net, lost, streams>>
    BY <1>6 DEF Commits, Commit
  <1>7. ASSUME NEW h \in Heights, Decide(h)
        PROVE  UNCHANGED <<net, lost, streams>>
    BY <1>7 DEF Decide, app
  <1>8. UNCHANGED engineVars => UNCHANGED <<net, lost, streams>>
    BY DEF engineVars, app
  <1>9. ASSUME NEW v \in Validators, Fails(v)
        PROVE  UNCHANGED <<net, lost, streams>>
    BY <1>9 DEF Fails, Fail
  <1>10. ASSUME NEW m \in net, Garble(m)
         PROVE  UNCHANGED <<net, lost, streams>>
    BY <1>10 DEF Garble, app
  <1> QED
    BY <1>1, <1>2, <1>3, <1>4, <1>5, <1>6, <1>7, <1>8, <1>9, <1>10, ErrorPaths

LEMMA FreshStep ==
  ASSUME EngineInv, [EngineNext]_engineVars
  PROVE  FreshInv'
  <1> USE DEF EngineInv
  <1> DEFINE UsedBy(m, u) == Running(u) => \/ m.stream[2] < height[u]
                                           \/ m.stream[2] = height[u] /\ m.stream[3] < round[u]
  <1>0. ASSUME NEW m \in Messages
        PROVE  m.stream[1] \in Validators /\ m.stream[2] \in Nat /\ m.stream[3] \in Nat
    BY DEF Messages
  <1>1. ASSUME Unused' \subseteq Unused, UNCHANGED <<height, round>>,
               \A u \in Validators : Running(u)' => Running(u)
        PROVE  FreshInv'
    <2>1. ASSUME NEW m \in Unused'
          PROVE  UsedBy(m, m.stream[1])'
      <3>1. m \in Unused /\ m.stream[1] \in Validators
        BY <1>0, <1>1, UnusedMessages
      <3> QED
        BY <1>1, <3>1 DEF FreshInv
    <2> QED
      BY <2>1 DEF FreshInv
  <1>9. \A u \in Validators : status' = status => (Running(u)' => Running(u))
    BY DEF Running
  <1>2. ASSUME NEW v \in Validators, Proposes(v)
        PROVE  FreshInv'
    <2>1. PICK r \in 0..MaxRound, body \in Bodies :
            Running(v) /\ r >= round[v] /\ Propose(v, r, BuiltOn(parent[v], body))
      BY <1>2 DEF Proposes
    <2>2. PICK part, new :
           /\ net' = net \cup new
           /\ \A m \in new : m.stream = <<v, height[v], r>>
      BY <2>1, ProposedMessages
    <2>3. UNCHANGED <<streams, status, height>> /\ round' = [round EXCEPT ![v] = r + 1]
      BY <2>1 DEF Propose
    <2>4. r \in Nat /\ round \in [Validators -> Nat]
      BY EngineAssumption DEF LoopInv
    <2>5. ASSUME NEW m \in Unused'
          PROVE  UsedBy(m, m.stream[1])'
      <3>1. CASE m \in new
        <4>1. m.stream[1] = v /\ m.stream[2] = height[v] /\ m.stream[3] = r
          BY <2>2, <3>1
        <4>2. round'[v] = r + 1
          BY <2>3, <2>4
        <4> QED
          BY <2>3, <2>4, <4>1, <4>2
      <3>2. CASE m \in Unused
        <4> DEFINE u == m.stream[1]
        <4>1. m \in Messages
          BY <3>2, UnusedMessages
        <4>2. u \in Validators /\ m.stream[2] \in Nat /\ m.stream[3] \in Nat
          BY <4>1, <1>0
        <4>3. UsedBy(m, u)
          BY <3>2 DEF FreshInv
        <4>4. round[u] <= round'[u] /\ round[u] \in Nat /\ round'[u] \in Nat
          BY <2>1, <2>3, <2>4, <4>2
        <4> QED
          BY <2>3, <4>2, <4>3, <4>4 DEF Running
      <3> QED
        BY <2>2, <2>3, <3>1, <3>2 DEF Unused
    <2> QED
      BY <2>5 DEF FreshInv
  <1>3. ASSUME NEW v \in Validators, Commits(v)
        PROVE  FreshInv'
    <2>1. /\ status' = [status EXCEPT ![v] = IF height[v] >= Decisions THEN "done" ELSE "running"]
          /\ height' = [height EXCEPT ![v] = IF height[v] >= Decisions THEN height[v]
                                             ELSE height[v] + 1]
          /\ round' = [round EXCEPT ![v] = 0]
      BY <1>3, CommitLoop
    <2>2. UNCHANGED <<net, streams>> /\ Running(v)
      BY <1>3 DEF Commits, Commit
    <2>3. height[v] \in Nat
      BY <2>2, RunningHeight
    <2>4. ASSUME NEW m \in Unused'
          PROVE  UsedBy(m, m.stream[1])'
      <3> DEFINE u == m.stream[1]
      <3>1. m \in Messages /\ UsedBy(m, u)
        BY <2>2, UnusedMessages DEF Unused, FreshInv
      <3>2. u \in Validators /\ m.stream[2] \in Nat /\ m.stream[3] \in Nat
        BY <3>1, <1>0
      <3>3. CASE u # v
        <4>1. status'[u] = status[u] /\ height'[u] = height[u] /\ round'[u] = round[u]
          BY <2>1, <3>2, <3>3 DEF LoopInv
        <4> QED
          BY <3>1, <4>1 DEF Running
      <3>4. CASE u = v
        <4>1. m.stream[2] <= height[v]
          BY <2>2, <2>3, <3>1, <3>2, <3>4
        <4>2. CASE height[v] >= Decisions
          <5>1. status'[v] = "done"
            BY <2>1, <4>2 DEF LoopInv
          <5> QED
            BY <3>4, <5>1 DEF Running
        <4>3. CASE ~(height[v] >= Decisions)
          <5>1. height'[v] = height[v] + 1
            BY <2>1, <4>3 DEF LoopInv
          <5> QED
            BY <2>3, <3>2, <3>4, <4>1, <5>1
        <4> QED
          BY <4>2, <4>3
      <3> QED
        BY <3>3, <3>4
    <2> QED
      BY <2>4 DEF FreshInv
  <1>4. ASSUME NEW m \in net, BufferPart(m)
        PROVE  Unused' \subseteq Unused /\ UNCHANGED <<status, height, round>>
    <2>1. /\ net' = net \ {m} /\ streams' = [streams EXCEPT ![m.to] = @ \cup {m}]
          /\ UNCHANGED <<status, height, round>>
      BY <1>4 DEF BufferPart
    <2>2. \A w \in Validators : streams'[w] \subseteq streams[w] \cup {m}
      BY <2>1 DEF StreamInv
    <2> QED
      BY <2>1, <2>2 DEF Unused
  <1>5. ASSUME NEW m \in net, RegisterProposal(m)
        PROVE  FreshInv'
    <2>1. /\ net' = net \ {m}
          /\ streams' = [streams EXCEPT ![m.to] = {x \in @ : x.stream # m.stream}]
          /\ UNCHANGED <<height, round>>
          /\ status' = status \/ status' = [status EXCEPT ![m.to] = "failed"]
      BY <1>5 DEF RegisterProposal, Unbuffered
    <2>2. \A w \in Validators : streams'[w] \subseteq streams[w]
      BY <2>1 DEF StreamInv
    <2>3. Unused' \subseteq Unused
      BY <2>1, <2>2 DEF Unused
    <2>4. \A u \in Validators : Running(u)' => Running(u)
      BY <2>1 DEF Running, LoopInv
    <2> QED
      BY <1>1, <2>1, <2>3, <2>4
  <1>6. ASSUME NEW m \in net, Lose(m)
        PROVE  Unused' \subseteq Unused /\ UNCHANGED <<status, height, round>>
    BY <1>6 DEF Lose, app, Unused
  <1>7. ASSUME NEW h \in Heights, Decide(h)
        PROVE  Unused' \subseteq Unused /\ UNCHANGED <<status, height, round>>
    BY <1>7 DEF Decide, app, Unused
  <1>8. UNCHANGED engineVars => Unused' \subseteq Unused /\ UNCHANGED <<status, height, round>>
    BY DEF engineVars, app, Unused
  <1>10. ASSUME NEW v \in Validators, Fails(v)
         PROVE  FreshInv'
    <2>1. /\ UNCHANGED <<net, streams, height, round>>
          /\ status' = [status EXCEPT ![v] = "failed"]
      BY <1>10 DEF Fails, Fail
    <2>2. Unused' \subseteq Unused
      BY <2>1 DEF Unused
    <2>3. \A u \in Validators : Running(u)' => Running(u)
      BY <2>1 DEF Running, LoopInv
    <2> QED
      BY <1>1, <2>1, <2>2, <2>3
  <1>11. ASSUME NEW m \in net, Garble(m)
         PROVE  Unused' \subseteq Unused /\ UNCHANGED <<status, height, round>>
    BY <1>11 DEF Garble, app, Unused
  <1> QED
    BY <1>1, <1>2, <1>3, <1>4, <1>5, <1>6, <1>7, <1>8, <1>9, <1>10, <1>11, ErrorPaths

-----------------------------------------------------------------------------
(* The fills.                                                              *)

LEMMA FillStep ==
  ASSUME EngineInv, [EngineNext]_engineVars
  PROVE  FillInv'
  <1> USE DEF EngineInv
  <1>1. CASE UNCHANGED <<pending, buffer>>
    BY <1>1 DEF FillInv
  <1>2. ASSUME NEW v \in Validators, Proposes(v)
        PROVE  FillInv'
    <2>1. PICK r \in 0..MaxRound, body \in Bodies : Propose(v, r, BuiltOn(parent[v], body))
      BY <1>2 DEF Proposes
    <2> DEFINE payload == Payload(v, BuiltOn(parent[v], body))
    <2>2. payload.fills = buffer[v]
      BY DEF Payload
    <2>3. /\ pending' = [pending EXCEPT ![v] = @ \cup {payload}]
          /\ buffer' = [buffer EXCEPT ![v] = {}]
      BY <2>1 DEF Propose, Drained
    <2> HIDE DEF payload
    <2>4. /\ pending'[v] = pending[v] \cup {payload} /\ buffer'[v] = {}
          /\ \A w \in Validators \ {v} : pending'[w] = pending[w] /\ buffer'[w] = buffer[w]
      BY <2>3 DEF BridgeInv, FillInv
    <2>5. buffer' \in [Validators -> SUBSET Validators]
      BY <2>3 DEF FillInv
    <2>6. /\ buffer'[v] \subseteq {v}
          /\ \A p \in pending'[v] : p.fills \subseteq {v}
          /\ v \in buffer'[v] <=> \A p \in pending'[v] : v \notin p.fills
          /\ \A p, q \in pending'[v] : v \in p.fills /\ v \in q.fills => p = q
      <3>1. CASE v \in buffer[v]
        BY <2>2, <2>4, <3>1 DEF FillInv
      <3>2. CASE v \notin buffer[v]
        BY <2>2, <2>4, <3>2 DEF FillInv
      <3> QED
        BY <3>1, <3>2
    <2> QED
      BY <2>4, <2>5, <2>6 DEF FillInv
  <1>3. ASSUME NEW m \in net, RegisterProposal(m), ~ Rejected(m.to, m)
        PROVE  FillInv'
    <2> DEFINE payload == Registered(m.part.block_bytes)
               v == m.to
    <2>1. payload.fills = {} /\ v \in Validators
      BY PayloadTypes DEF Registered
    <2>2. pending' = [pending EXCEPT ![v] = @ \cup {payload}] /\ buffer' = buffer
      BY <1>3 DEF RegisterProposal
    <2> HIDE DEF payload, v
    <2>3. /\ pending'[v] = pending[v] \cup {payload}
          /\ \A w \in Validators \ {v} : pending'[w] = pending[w]
      BY <2>1, <2>2 DEF BridgeInv
    <2> QED
      BY <2>1, <2>2, <2>3 DEF FillInv
  <1>4. ASSUME NEW v \in Validators, Commits(v)
        PROVE  UNCHANGED <<pending, buffer>>
    BY <1>4 DEF Commits, Commit
  <1>5. ASSUME NEW m \in net,
               \/ BufferPart(m) \/ Lose(m) \/ Garble(m)
               \/ RegisterProposal(m) /\ Rejected(m.to, m)
        PROVE  UNCHANGED <<pending, buffer>>
    BY <1>5 DEF BufferPart, Lose, Garble, RegisterProposal, bridge
  <1>6. ASSUME NEW h \in Heights, Decide(h)
        PROVE  UNCHANGED <<pending, buffer>>
    BY <1>6 DEF Decide, bridge
  <1>7. UNCHANGED engineVars => UNCHANGED <<pending, buffer>>
    BY DEF engineVars, bridge
  <1>8. ASSUME NEW v \in Validators, Fails(v)
        PROVE  UNCHANGED <<pending, buffer>>
    BY <1>8 DEF Fails, Fail, bridge
  <1> QED
    BY <1>1, <1>2, <1>3, <1>4, <1>5, <1>6, <1>7, <1>8, ErrorPaths

-----------------------------------------------------------------------------
(* The failures.                                                           *)

LEMMA FailureStep ==
  ASSUME EngineInv, [EngineNext]_engineVars
  PROVE  NoValidatorFails'
  <1> USE DEF EngineInv
  <1> DEFINE Excuse(v) == \/ \E m \in malformed : m.to = v
                          \/ PayloadRefused(v)
                          \/ <<v, parent[v], "build">> \in refused
  <1>1. ASSUME NEW w \in Validators, malformed \subseteq malformed', refused \subseteq refused',
               parent'[w] = parent[w], Excuse(w)
        PROVE  Excuse(w)'
    BY <1>1 DEF PayloadRefused
  <1>2. ASSUME UNCHANGED <<status, parent>>, malformed \subseteq malformed', refused \subseteq refused'
        PROVE  NoValidatorFails'
    BY <1>1, <1>2 DEF NoValidatorFails
  \* The loop of v, and no other, ends with an error that is accounted for.
  <1>3. ASSUME NEW v \in Validators, status' = [status EXCEPT ![v] = "failed"],
               UNCHANGED parent, malformed \subseteq malformed', refused \subseteq refused',
               Excuse(v)'
        PROVE  NoValidatorFails'
    <2>1. \A w \in Validators \ {v} : status'[w] = status[w]
      BY <1>3 DEF LoopInv
    <2> QED
      BY <1>1, <1>3, <2>1 DEF NoValidatorFails
  <1>4. ASSUME NEW v \in Validators, Proposes(v)
        PROVE  NoValidatorFails'
    <2>1. UNCHANGED <<status, parent, malformed, refused>>
      BY <1>4 DEF Proposes, Propose
    <2> QED
      BY <1>2, <2>1
  <1>5. ASSUME NEW v \in Validators, Commits(v)
        PROVE  NoValidatorFails'
    <2> DEFINE b == decision[height[v]]
               s == IF height[v] >= Decisions THEN "done" ELSE "running"
    <2>3. /\ status' = [status EXCEPT ![v] = s] /\ s # "failed"
          /\ parent' = [parent EXCEPT ![v] = b]
      BY <1>5, CommitLoop
    <2> HIDE DEF b, s
    <2>1. /\ status'[v] # "failed"
          /\ \A w \in Validators \ {v} : status'[w] = status[w] /\ parent'[w] = parent[w]
      BY <2>3 DEF LoopInv
    <2>2. malformed' = malformed /\ refused \subseteq refused'
      BY <1>5 DEF Commits, Commit
    <2> QED
      BY <1>1, <2>1, <2>2 DEF NoValidatorFails
  <1>6. ASSUME NEW v \in Validators, Fails(v)
        PROVE  NoValidatorFails'
    <2>1. /\ status' = [status EXCEPT ![v] = "failed"] /\ refused \subseteq refused'
          /\ UNCHANGED <<parent, malformed>>
      BY <1>6 DEF Fails, Fail
    <2>2. Excuse(v)'
      BY <1>6, <2>1 DEF Fails, PayloadRefused
    <2> QED
      BY <1>3, <2>1, <2>2
  <1>7. ASSUME NEW m \in net, RegisterProposal(m), Rejected(m.to, m)
        PROVE  NoValidatorFails'
    <2>1. /\ status' = [status EXCEPT ![m.to] = "failed"]
          /\ UNCHANGED <<parent, malformed, refused>>
      BY <1>7 DEF RegisterProposal
    <2>2. m.to \in Validators
      BY StreamTo
    <2>3. PICK x \in streams[m.to] \cup {m} : x \in malformed
      BY <1>7 DEF Rejected
    <2>4. x.to = m.to
      BY <2>2, <2>3 DEF StreamInv
    <2> QED
      BY <1>3, <2>1, <2>2, <2>3, <2>4
  <1>8. ASSUME NEW m \in net,
               \/ BufferPart(m) \/ Lose(m) \/ Garble(m)
               \/ RegisterProposal(m) /\ ~ Rejected(m.to, m)
        PROVE  NoValidatorFails'
    BY <1>2, <1>8 DEF BufferPart, Lose, Garble, RegisterProposal, app
  <1>9. ASSUME NEW h \in Heights, Decide(h)
        PROVE  NoValidatorFails'
    BY <1>2, <1>9 DEF Decide, app
  <1>10. CASE UNCHANGED engineVars
    BY <1>2, <1>10 DEF engineVars, app
  <1> QED
    BY <1>4, <1>5, <1>6, <1>7, <1>8, <1>9, <1>10, ErrorPaths

-----------------------------------------------------------------------------
(* The theorems.                                                           *)

LEMMA EngineInvHolds == EngineSpec => []EngineInv
  <1>1. EngineInit => EngineInv
    <2> SUFFICES ASSUME EngineInit PROVE EngineInv
      OBVIOUS
    <2>1. ValuesInv
      BY DEF EngineInit, ValuesInv
    <2>2. LoopInv
      <3>1. <<>> \in Seq(Blocks) /\ <<>> \in Seq(Nat \X Nat) /\ Len(<<>>) = 0
        OBVIOUS
      <3>2. 1 \in Heights /\ 0 \in 0..(MaxRound + 1)
        BY EngineAssumption DEF Heights
      <3> QED
        BY <3>1, <3>2, GenesisIsABlock DEF EngineInit, LoopInv, Prev
    <2>3. BridgeInv
      BY GenesisIsABlock DEF EngineInit, BridgeInv, BridgeAt, RethAt
    <2>4. StreamInv /\ FreshInv
      BY DEF EngineInit, StreamInv, FreshInv, Unused
    <2>5. FillInv
      BY DEF EngineInit, FillInv
    <2>6. NoValidatorFails
      BY DEF EngineInit, NoValidatorFails
    <2> QED
      BY <2>1, <2>2, <2>3, <2>4, <2>5, <2>6 DEF EngineInv
  <1>2. EngineInv /\ [EngineNext]_engineVars => EngineInv'
    BY ValuesStep, LoopStep, BridgeStep, StreamStep, FreshStep, FillStep, FailureStep
    DEF EngineInv
  <1> QED
    BY <1>1, <1>2, PTL DEF EngineSpec

\* No order of parts, rounds, losses and decisions makes a loop end with an
\* error: a loop fails only if a part came to it malformed, if its Reth
\* refused a payload, or in a call of the payload builder. A block that is
\* decided and held has its timestamp (run_engine_app).
THEOREM EngineNoValidatorFails == EngineSpec => []NoValidatorFails
  <1>1. EngineInv => NoValidatorFails
    BY DEF EngineInv
  <1> QED
    BY <1>1, EngineInvHolds, PTL

\* With real payloads Reth's canonical head is the head of the bridge after
\* every commit, unless Reth refused a payload or this very fork choice: each
\* block it is given has its parent executed, and a fork choice that was
\* refused is made good by the next (commit of the bridge).
THEOREM EngineRethFollows == EngineSpec => []RethFollows
  <1>1. EngineInv => RethFollows
    BY DEF EngineInv, BridgeInv, BridgeAt, RethAt, RethFollows
  <1> QED
    BY <1>1, EngineInvHolds, PTL

LEMMA PrefixByElements ==
  ASSUME NEW S, NEW s \in Seq(S), NEW t \in Seq(S), Len(s) <= Len(t),
         \A i \in 1..Len(s) : s[i] = t[i]
  PROVE  IsPrefix(s, t)
  <1>1. Len(s) \in Nat /\ Len(t) \in Nat
    OBVIOUS
  <1>2. \A i \in 1..Len(s) : s[i] \in S /\ t[i] \in S
    BY <1>1
  <1> DEFINE u == SubSeq(t, 1, Len(s))
  <1>3. u \in Seq(S) /\ Len(u) = Len(s) /\ \A i \in 1..Len(s) : u[i] = t[i]
    BY <1>1, <1>2, SubSeqProperties
  <1>4. u = s
    BY <1>3, SeqEqual
  <1>5. SubSeq(s, 1, Len(s)) = s
    BY SubSeqFull
  <1> QED
    BY <1>4, <1>5 DEF IsPrefix

\* Of any two validators one is ahead of the other on the same chain, each
\* block on top of the one before, and their commit hooks were called with
\* the same heights and times (run_engine_app, on_committed).
THEOREM EngineChainsAgree == EngineSpec => []ChainsAgree
  <1>1. EngineInv => ChainsAgree
    <2> SUFFICES ASSUME EngineInv, NEW v \in Validators, NEW w \in Validators
                 PROVE
                   /\ IsPrefix(decided[v], decided[w]) \/ IsPrefix(decided[w], decided[v])
                   /\ IsPrefix(hook[v], hook[w]) \/ IsPrefix(hook[w], hook[v])
                   /\ \A i \in 1..Len(decided[v]) :
                        /\ Number(decided[v][i]) = i
                        /\ hook[v][i][1] = i
                        /\ Front(decided[v][i]) = IF i = 1 THEN Genesis ELSE decided[v][i - 1]
                   /\ head[v] = IF decided[v] = <<>> THEN Genesis ELSE Last(decided[v])
      BY DEF ChainsAgree
    <2> USE DEF EngineInv
    <2>1. \A u \in Validators :
            /\ decided[u] \in Seq(Blocks) /\ hook[u] \in Seq(Nat \X Nat)
            /\ Len(decided[u]) \in Nat /\ Len(hook[u]) = Len(decided[u])
            /\ \A i \in 1..Len(decided[u]) :
                 decided[u][i] = decision[i] /\ decision[i] # NoBlock /\ hook[u][i] = <<i, i>>
      BY DEF LoopInv
    <2>2. ASSUME NEW u \in Validators, NEW x \in Validators, Len(decided[u]) <= Len(decided[x])
          PROVE  IsPrefix(decided[u], decided[x]) /\ IsPrefix(hook[u], hook[x])
      <3>1. \A i \in 1..Len(decided[u]) :
              i \in 1..Len(decided[x]) /\ decided[u][i] = decided[x][i] /\ hook[u][i] = hook[x][i]
        <4> SUFFICES ASSUME NEW i \in 1..Len(decided[u])
                     PROVE  /\ i \in 1..Len(decided[x])
                            /\ decided[u][i] = decided[x][i] /\ hook[u][i] = hook[x][i]
          OBVIOUS
        <4>1. Len(decided[u]) \in Nat /\ Len(decided[x]) \in Nat
          BY <2>1
        <4>2. i \in 1..Len(decided[x])
          BY <2>2, <4>1
        <4>3. decided[u][i] = decision[i] /\ hook[u][i] = <<i, i>>
          BY <2>1
        <4>4. decided[x][i] = decision[i] /\ hook[x][i] = <<i, i>>
          BY <2>1, <4>2
        <4> QED
          BY <4>2, <4>3, <4>4
      <3>2. IsPrefix(decided[u], decided[x])
        BY <2>1, <2>2, <3>1, PrefixByElements
      <3>3. IsPrefix(hook[u], hook[x])
        BY <2>1, <2>2, <3>1, PrefixByElements
      <3> QED
        BY <3>2, <3>3
    <2>3. Len(decided[v]) <= Len(decided[w]) \/ Len(decided[w]) <= Len(decided[v])
      BY <2>1
    <2>4. ASSUME NEW i \in 1..Len(decided[v])
          PROVE  /\ Number(decided[v][i]) = i
                 /\ hook[v][i][1] = i
                 /\ Front(decided[v][i]) = IF i = 1 THEN Genesis ELSE decided[v][i - 1]
      <3>1. decided[v][i] = decision[i] /\ decision[i] # NoBlock /\ hook[v][i] = <<i, i>>
        BY <2>1
      <3>2. Len(decided[v]) <= Decisions
        BY EngineAssumption DEF LoopInv, Heights
      <3>3. i \in Heights
        BY <2>1, <3>2, EngineAssumption DEF Heights
      <3>4. Len(decided[v][i]) = i /\ Front(decided[v][i]) = Prev(i)
        BY <3>1, <3>3 DEF ValuesInv, IsBlockAt
      <3>5. i # 1 => decided[v][i - 1] = decision[i - 1]
        BY <2>1
      <3> QED
        BY <3>1, <3>4, <3>5 DEF Number, Prev
    <2>5. head[v] = IF decided[v] = <<>> THEN Genesis ELSE Last(decided[v])
      <3>1. head[v] = Prev(Len(decided[v]) + 1)
        BY DEF LoopInv
      <3>2. CASE decided[v] = <<>>
        BY <3>1, <3>2 DEF Prev
      <3>3. CASE decided[v] # <<>>
        <4>1. Len(decided[v]) \in 1..Len(decided[v])
          BY <2>1, <3>3
        <4>2. decided[v][Len(decided[v])] = decision[Len(decided[v])]
          BY <2>1, <4>1
        <4>3. Prev(Len(decided[v]) + 1) = decision[Len(decided[v])]
          BY <2>1, <4>1 DEF Prev
        <4> QED
          BY <3>1, <3>3, <4>2, <4>3 DEF Last
      <3> QED
        BY <3>2, <3>3
    <2> QED
      BY <2>2, <2>3, <2>4, <2>5
  <1> QED
    BY <1>1, EngineInvHolds, PTL

\* A buffered half of a stream waits for a half that is on its way or lost:
\* a stream both of whose halves have come leaves nothing behind, and the
\* state keeps its types (on_received_proposal_part).
THEOREM EngineStreamsWait == EngineSpec => []StreamsWait
  <1>1. EngineInv => StreamsWait
    <2> SUFFICES ASSUME EngineInv PROVE StreamsWait
      OBVIOUS
    <2> USE DEF EngineInv
    <2>1. \A v \in Validators :
            /\ \A p \in pending[v] : p.block \in Seq(Bodies) /\ p.fills \subseteq Validators
            /\ blockTimes[v] \subseteq {p.block : p \in pending[v]}
            /\ chain[v] \subseteq {p.block : p \in pending[v]}
      BY DEF BridgeInv, BridgeAt, Payloads, Blocks
    <2>2. EngineTypeOK
      BY <2>1 DEF EngineTypeOK, LoopInv
    <2>3. \A v \in Validators : \A m \in streams[v] :
            \E x \in net \cup lost : x.to = v /\ x.stream = m.stream /\ x.half # m.half
      BY DEF StreamInv, OtherHalf
    <2> QED
      BY <2>2, <2>3 DEF StreamsWait
  <1> QED
    BY <1>1, EngineInvHolds, PTL

\* A fill is in one place, a buffer or one payload of the validator that
\* drained it: none is lost when a payload is built, and none is attached to
\* a second payload (build_payload, register_proposed_block).
THEOREM EngineFillsAttachedOnce == EngineSpec => []FillsAttachedOnce
  <1>1. EngineInv => FillsAttachedOnce
    <2> SUFFICES ASSUME EngineInv, NEW f \in Validators
                 PROVE  LET places == [v \in Validators |->
                              Cardinality({p \in pending[v] : f \in p.fills})
                                + IF f \in buffer[v] THEN 1 ELSE 0]
                        IN MapThenSumSet(LAMBDA v : places[v], Validators) = 1
      BY DEF FillsAttachedOnce
    <2> DEFINE holding(v) == {p \in pending[v] : f \in p.fills}
               places == [v \in Validators |->
                            Cardinality(holding(v)) + IF f \in buffer[v] THEN 1 ELSE 0]
    <2>1. \A v \in Validators :
            /\ buffer[v] \subseteq {v}
            /\ \A p \in pending[v] : p.fills \subseteq {v}
            /\ v \in buffer[v] <=> \A p \in pending[v] : v \notin p.fills
            /\ \A p, q \in pending[v] : v \in p.fills /\ v \in q.fills => p = q
      BY DEF EngineInv, FillInv
    <2>2. \A x : Cardinality({}) = 0 /\ Cardinality({x}) = 1
      BY FS_EmptySet, FS_Singleton
    <2>3. ASSUME NEW v \in Validators, v # f
          PROVE  places[v] = 0
      <3>1. holding(v) = {} /\ f \notin buffer[v]
        BY <2>1, <2>3
      <3> QED
        BY <2>2, <3>1
    <2>4. places[f] = 1
      <3>0. places[f] = Cardinality(holding(f)) + IF f \in buffer[f] THEN 1 ELSE 0
        OBVIOUS
      <3> HIDE DEF places
      <3>1. CASE f \in buffer[f]
        <4>1. holding(f) = {}
          BY <2>1, <3>1
        <4>2. Cardinality(holding(f)) = 0
          BY <2>2, <4>1
        <4> QED
          BY <3>0, <3>1, <4>2
      <3>2. CASE f \notin buffer[f]
        <4>1. PICK p \in pending[f] : f \in p.fills
          BY <2>1, <3>2
        <4>2. holding(f) = {p}
          BY <2>1, <4>1
        <4>3. Cardinality(holding(f)) = 1
          BY <2>2, <4>2
        <4> QED
          BY <3>0, <3>2, <4>3
      <3> QED
        BY <3>1, <3>2
    <2> HIDE DEF places
    <2>5. IsFiniteSet(Validators) /\ IsFiniteSet(Validators \ {f})
      <3>1. Len(Power) \in Nat /\ Validators = 1..Len(Power)
        BY EngineAssumption DEF Validators
      <3>2. IsFiniteSet(1..Len(Power))
        BY <3>1, FS_Interval
      <3> QED
        BY <3>1, <3>2, FS_RemoveElement
    <2>6. \A v \in Validators : places[v] \in Int
      BY <2>3, <2>4
    <2>7. SumOf(places, Validators) = places[f] + SumOf(places, Validators \ {f})
      BY <2>5, <2>6, SumRemove
    <2>8. SumOf(places, Validators \ {f}) = 0
      BY <2>3, <2>5, SumZero
    <2>9. MapThenSumSet(LAMBDA v : places[v], Validators) = 1
      BY <2>4, <2>7, <2>8 DEF SumOf
    <2> QED
      BY <2>9 DEF places
  <1> QED
    BY <1>1, EngineInvHolds, PTL

-----------------------------------------------------------------------------
(* Sequences of numbers that count up.                                     *)

CountsFrom(n, s) == \A i \in 1..Len(s) : s[i] = n + i

LEMMA ConcatOfNats ==
  ASSUME NEW s \in Seq(Nat), NEW t \in Seq(Nat)
  PROVE  /\ s \o t \in Seq(Nat)
         /\ Len(s \o t) = Len(s) + Len(t)
         /\ \A i \in 1..(Len(s) + Len(t)) :
              (s \o t)[i] = IF i <= Len(s) THEN s[i] ELSE t[i - Len(s)]
  BY ConcatProperties

\* Counting goes on over a concatenation.
LEMMA CountingOn ==
  ASSUME NEW n \in Nat, NEW s \in Seq(Nat), NEW t \in Seq(Nat),
         CountsFrom(n, s), CountsFrom(n + Len(s), t)
  PROVE  /\ s \o t \in Seq(Nat)
         /\ Len(s \o t) = Len(s) + Len(t)
         /\ CountsFrom(n, s \o t)
  <1>1. Len(s) \in Nat /\ Len(t) \in Nat
    OBVIOUS
  <1>2. ASSUME NEW i \in 1..(Len(s) + Len(t))
        PROVE  (s \o t)[i] = n + i
    <2>1. CASE i <= Len(s)
      BY <1>1, <2>1, ConcatOfNats DEF CountsFrom
    <2>2. CASE ~(i <= Len(s))
      <3>1. i - Len(s) \in 1..Len(t) /\ (s \o t)[i] = t[i - Len(s)]
        BY <1>1, <2>2, ConcatOfNats
      <3>2. t[i - Len(s)] = n + Len(s) + (i - Len(s))
        BY <3>1 DEF CountsFrom
      <3> QED
        BY <1>1, <3>1, <3>2
    <2> QED
      BY <2>1, <2>2
  <1> QED
    BY <1>2, ConcatOfNats DEF CountsFrom

LEMMA CountingFromZero ==
  ASSUME NEW s \in Seq(Nat), NEW t \in Seq(Nat), CountsFrom(0, s), CountsFrom(Len(s), t)
  PROVE  /\ s \o t \in Seq(Nat)
         /\ Len(s \o t) = Len(s) + Len(t)
         /\ CountsFrom(0, s \o t)
  <1>1. 0 \in Nat /\ 0 + Len(s) = Len(s)
    OBVIOUS
  <1>2. CountsFrom(0 + Len(s), t)
    BY <1>1
  <1> QED
    BY <1>1, <1>2, CountingOn

LEMMA CountingTail ==
  ASSUME NEW n \in Nat, NEW s \in Seq(Nat), s # <<>>, CountsFrom(n, s)
  PROVE  /\ Head(s) = n + 1
         /\ Tail(s) \in Seq(Nat) /\ Len(Tail(s)) = Len(s) - 1
         /\ CountsFrom(n + 1, Tail(s))
  <1>1. Len(s) \in Nat \ {0} /\ Head(s) = s[1]
    OBVIOUS
  <1>2. /\ Tail(s) \in Seq(Nat) /\ Len(Tail(s)) = Len(s) - 1
        /\ \A i \in 1..Len(Tail(s)) : Tail(s)[i] = s[i + 1]
    OBVIOUS
  <1>3. ASSUME NEW i \in 1..Len(Tail(s))
        PROVE  Tail(s)[i] = (n + 1) + i
    BY <1>1, <1>2 DEF CountsFrom
  <1> QED
    BY <1>1, <1>2, <1>3 DEF CountsFrom

LEMMA CountingSingle ==
  ASSUME NEW n \in Nat
  PROVE  /\ <<n + 1>> \in Seq(Nat) /\ Len(<<n + 1>>) = 1
         /\ CountsFrom(n, <<n + 1>>)
  BY DEF CountsFrom

-----------------------------------------------------------------------------
(* The inductive invariants.                                               *)

Keys == 1..MaxBoots
Phases == {"launched", "bridged", "writing", "keyed", "configured", "waiting", "running",
           "stopping"} \cup Ended
Tasks == [pc : {"none", "poll", "send", "gone"}, first : BOOLEAN,
          last : Values \cup {NoValue}, now : Values \cup {NoValue}]

\* The key in memory is the one on disk from the moment it is safe to use
\* it, and a key that was used stays on disk.
KeyInv ==
  /\ phase \in Phases
  /\ boots \in 0..MaxBoots
  /\ keyfile \in {Absent, Truncated} \cup Keys
  /\ phase \notin Ended => boots \in Keys
  /\ phase = "writing" => keyfile = Truncated /\ key \in Keys
  /\ phase \in {"keyed", "configured", "waiting", "running", "stopping"}
       => keyfile = key /\ key \in Keys
  /\ used = {} \/ (keyfile \in Keys /\ used = {keyfile})

\* The tasks of the subscriptions.
TaskInv ==
  /\ value \in Values \cup {NoValue}
  /\ sub \in [Clients -> Tasks]

\* Where the messages are. The last part says of each queue which messages
\* it holds: consecutive ones, where the queue before it ends.
QueueInv ==
  /\ fwd \in {"off", "recv", "send", "done"}
  /\ ready \in {"pending", "sent", "closed"}
  /\ sent \in Nat /\ received \in Nat
  /\ raw \in Seq(Nat) /\ held \in Seq(Nat) /\ chan \in Seq(Nat)
  /\ Len(held) = (IF fwd = "send" THEN 1 ELSE 0)
  /\ Len(chan) <= ChannelCap

\* Until the engine is started nothing has been sent.
QuietInv ==
  /\ receiver \in BOOLEAN
  /\ phase \in {"waiting", "running"} => receiver
  /\ phase \in {"launched", "bridged", "writing", "keyed", "configured"}
       => /\ engine = "off" /\ fwd = "off" /\ sent = 0 /\ received = 0
          /\ raw = <<>> /\ chan = <<>>

Consecutive ==
  /\ received + Len(chan) + Len(held) + Len(raw) = sent
  /\ CountsFrom(received, chan)
  /\ CountsFrom(received + Len(chan), held)
  /\ CountsFrom(received + Len(chan) + Len(held), raw)

DaemonInv == KeyInv /\ TaskInv /\ QueueInv /\ QuietInv /\ (receiver => Consecutive)

-----------------------------------------------------------------------------
(* A step of each kind.                                                    *)

\* What the steps that do not touch the boot leave alone.
LEMMA BootUntouched ==
  ASSUME \/ Receive \/ EngineSends \/ EngineDies \/ ForwarderStep \/ ChangeValue
         \/ \E c \in Clients : Subscribe(c) \/ Poll(c) \/ Send(c) \/ SendFails(c)
         \/ UNCHANGED daemonVars
  PROVE  UNCHANGED bootVars
  BY DEF Receive, EngineSends, EngineDies, ForwarderStep, Take, Pass, ForwarderEnd, ChangeValue,
         Subscribe, Poll, Send, SendFails, daemonVars

\* What the steps that do not touch the subscriptions leave alone.
LEMMA TasksUntouched ==
  ASSUME \/ BootStep \/ Crash \/ Receive \/ AppReturns \/ EngineSends \/ EngineDies \/ ForwarderStep
         \/ UNCHANGED daemonVars
  PROVE  UNCHANGED <<value, changes, sub, seen>>
  BY DEF BootStep, InstallBridge, LoadKey, WriteKey, Configure, ConfigFails, StartEngine, GiveUp,
         StartSucceeds, StartCloses, StartTimesOut, Shutdown, Crash, Receive, AppReturns,
         EngineSends, EngineDies, ForwarderStep, Take, Pass, ForwarderEnd, daemonVars, rpcVars

\* What the subscriptions, and the boot before the engine, leave alone.
LEMMA QueuesUntouched ==
  ASSUME \/ InstallBridge \/ LoadKey \/ WriteKey \/ Configure \/ ConfigFails \/ StartSucceeds
         \/ ChangeValue
         \/ \E c \in Clients : Subscribe(c) \/ Poll(c) \/ Send(c) \/ SendFails(c)
         \/ UNCHANGED daemonVars
  PROVE  UNCHANGED fwdVars
  BY DEF InstallBridge, LoadKey, WriteKey, Configure, ConfigFails, StartSucceeds, ChangeValue,
         Subscribe, Poll, Send, SendFails, daemonVars

-----------------------------------------------------------------------------
(* The identity.                                                           *)

LEMMA KeyStep ==
  ASSUME KeyInv, [DaemonNext]_daemonVars
  PROVE  KeyInv'
  <1> USE DEF KeyInv, Keys, Phases, Ended, Absent, Truncated
  <1> MaxBoots \in Nat
    BY DaemonAssumption
  <1>1. CASE Launch
    BY <1>1 DEF Launch
  <1>2. CASE InstallBridge
    BY <1>2 DEF InstallBridge
  <1>3. CASE LoadKey
    BY <1>3 DEF LoadKey, LoadedKey
  <1>4. CASE WriteKey
    BY <1>4 DEF WriteKey
  <1>5. CASE Configure
    BY <1>5 DEF Configure
  <1>6. CASE ConfigFails
    BY <1>6 DEF ConfigFails
  <1>7. CASE StartEngine
    BY <1>7 DEF StartEngine
  <1>8. CASE StartSucceeds
    BY <1>8 DEF StartSucceeds
  <1>9. CASE StartCloses \/ StartTimesOut
    BY <1>9 DEF StartCloses, StartTimesOut, GiveUp
  <1>10. CASE Shutdown
    BY <1>10 DEF Shutdown
  <1>11. CASE Crash
    BY <1>11 DEF Crash
  <1>12. CASE AppReturns
    BY <1>12 DEF AppReturns
  <1>13. CASE UNCHANGED bootVars
    BY <1>13 DEF bootVars
  <1> QED
    BY <1>1, <1>2, <1>3, <1>4, <1>5, <1>6, <1>7, <1>8, <1>9, <1>10, <1>11, <1>12, <1>13,
       BootUntouched
       DEF DaemonNext, BootStep

-----------------------------------------------------------------------------
(* The subscriptions.                                                      *)

LEMMA TaskStep ==
  ASSUME TaskInv, [DaemonNext]_daemonVars
  PROVE  TaskInv'
  <1> USE DEF TaskInv, Tasks
  <1>1. CASE Launch
    BY <1>1 DEF Launch, NewTask
  <1>2. CASE ChangeValue
    BY <1>2 DEF ChangeValue
  <1>3. ASSUME NEW c \in Clients, Subscribe(c)
        PROVE  TaskInv'
    BY <1>3 DEF Subscribe
  <1>4. ASSUME NEW c \in Clients, Poll(c)
        PROVE  TaskInv'
    BY <1>4 DEF Poll
  <1>5. ASSUME NEW c \in Clients, Send(c)
        PROVE  TaskInv'
    BY <1>5, ZenonT(60) DEF Send, Emitted
  <1>6. ASSUME NEW c \in Clients, SendFails(c)
        PROVE  TaskInv'
    BY <1>6 DEF SendFails
  <1>7. CASE UNCHANGED <<value, changes, sub, seen>>
    BY <1>7
  <1> QED
    BY <1>1, <1>2, <1>3, <1>4, <1>5, <1>6, <1>7, TasksUntouched DEF DaemonNext

-----------------------------------------------------------------------------
(* The messages.                                                           *)

LEMMA QueueStep ==
  ASSUME QueueInv, QuietInv, [DaemonNext]_daemonVars
  PROVE  QueueInv'
  <1> USE DEF QueueInv
  <1>1. CASE Launch
    BY <1>1, DaemonAssumption DEF Launch
  <1>2. CASE StartEngine
    BY <1>2 DEF StartEngine, QuietInv
  <1>3. CASE StartCloses \/ StartTimesOut
    BY <1>3 DEF StartCloses, StartTimesOut, GiveUp
  <1>4. CASE Shutdown \/ AppReturns
    BY <1>4 DEF Shutdown, AppReturns
  <1>5. CASE Crash
    BY <1>5 DEF Crash
  <1>6. CASE Receive
    <2>1. chan # <<>> /\ received' = Head(chan) /\ chan' = Tail(chan)
          /\ UNCHANGED <<sent, raw, fwd, held, ready>>
      BY <1>6 DEF Receive
    <2>2. Head(chan) \in Nat /\ Tail(chan) \in Seq(Nat) /\ Len(Tail(chan)) = Len(chan) - 1
      BY <2>1
    <2> QED
      BY <2>1, <2>2, DaemonAssumption
  <1>7. CASE EngineSends
    <2>1. sent' = sent + 1 /\ raw' = Append(raw, sent + 1)
          /\ UNCHANGED <<fwd, held, ready, chan, received>>
      BY <1>7 DEF EngineSends
    <2> QED
      BY <2>1
  <1>8. CASE EngineDies
    BY <1>8 DEF EngineDies
  <1>9. CASE Take
    <2>1. /\ raw # <<>> /\ held' = <<Head(raw)>> /\ raw' = Tail(raw)
          /\ ready' = IF ready = "pending" THEN "sent" ELSE ready
          /\ fwd' = IF held' = <<>> THEN "recv" ELSE "send"
          /\ UNCHANGED <<sent, chan, received>>
      BY <1>9 DEF Take, Forwarded
    <2>2. Head(raw) \in Nat /\ Tail(raw) \in Seq(Nat)
      BY <2>1
    <2>3. held' \in Seq(Nat) /\ Len(held') = 1 /\ held' # <<>>
      BY <2>1, <2>2
    <2> QED
      BY <2>1, <2>2, <2>3
  <1>10. CASE Pass
    <2>1. /\ fwd = "send" /\ held' = <<>> /\ fwd' \in {"recv", "done"}
          /\ \/ chan' = chan
             \/ Len(chan) < ChannelCap /\ chan' = chan \o held
          /\ UNCHANGED <<sent, raw, ready, received>>
      BY <1>10 DEF Pass, HasRoom
    <2>2. Len(held) = 1
      BY <2>1
    <2>3. chan \o held \in Seq(Nat) /\ Len(chan \o held) = Len(chan) + 1
      BY <2>2, ConcatOfNats
    <2>4. chan' \in Seq(Nat) /\ Len(chan') <= ChannelCap
      <3>1. CASE chan' = chan
        BY <3>1
      <3>2. CASE Len(chan) < ChannelCap /\ chan' = chan \o held
        <4>1. Len(chan) \in Nat /\ ChannelCap \in Nat
          BY DaemonAssumption
        <4> QED
          BY <3>2, <2>3, <4>1
      <3> QED
        BY <2>1, <3>1, <3>2
    <2>5. held' \in Seq(Nat) /\ Len(held') = 0
      BY <2>1
    <2> QED
      BY <2>1, <2>4, <2>5
  <1>11. CASE ForwarderEnd
    BY <1>11 DEF ForwarderEnd
  <1>12. CASE UNCHANGED fwdVars
    BY <1>12 DEF fwdVars
  <1> QED
    BY <1>1, <1>2, <1>3, <1>4, <1>5, <1>6, <1>7, <1>8, <1>9, <1>10, <1>11, <1>12,
       QueuesUntouched
       DEF DaemonNext, BootStep, ForwarderStep


LEMMA QuietStep ==
  ASSUME QueueInv, QuietInv, [DaemonNext]_daemonVars
  PROVE  QuietInv'
  <1> USE DEF QuietInv
  <1>1. CASE Launch
    BY <1>1 DEF Launch
  <1>2. CASE InstallBridge \/ LoadKey \/ WriteKey \/ Configure \/ ConfigFails \/ StartSucceeds
    BY <1>2, QueuesUntouched
       DEF InstallBridge, LoadKey, WriteKey, Configure, ConfigFails, StartSucceeds, fwdVars
  <1>3. CASE StartEngine
    BY <1>3 DEF StartEngine
  <1>4. CASE StartCloses \/ StartTimesOut
    BY <1>4 DEF StartCloses, StartTimesOut, GiveUp
  <1>5. CASE Shutdown
    BY <1>5 DEF Shutdown
  <1>6. CASE AppReturns
    BY <1>6 DEF AppReturns
  <1>7. CASE Crash
    BY <1>7 DEF Crash
  <1>8. CASE Receive
    BY <1>8 DEF Receive, bootVars
  <1>9. CASE EngineSends
    BY <1>9 DEF EngineSends, bootVars
  <1>10. CASE EngineDies
    BY <1>10 DEF EngineDies, bootVars
  <1>11. CASE Take
    BY <1>11 DEF Take, bootVars
  <1>12. CASE Pass
    BY <1>12 DEF Pass, bootVars
  <1>13. CASE ForwarderEnd
    BY <1>13 DEF ForwarderEnd, bootVars
  <1>14. CASE UNCHANGED <<bootVars, fwdVars>>
    BY <1>14 DEF bootVars, fwdVars
  <1> QED
    BY <1>1, <1>2, <1>3, <1>4, <1>5, <1>6, <1>7, <1>8, <1>9, <1>10, <1>11, <1>12, <1>13, <1>14,
       BootUntouched, QueuesUntouched
       DEF DaemonNext, BootStep, ForwarderStep

\* A receiver that exists after a step sees the queues in order: only
\* StartEngine creates one, with nothing in the queues.
LEMMA ConsecutiveStep ==
  ASSUME QueueInv, QuietInv, receiver => Consecutive, [DaemonNext]_daemonVars, receiver'
  PROVE  Consecutive'
  <1> USE DEF QueueInv
  <1>1. CASE StartEngine
    <2>1. Len(held) = 0 /\ Len(chan) = 0 /\ Len(raw) = 0 /\ sent = 0 /\ received = 0
      BY <1>1 DEF StartEngine, QuietInv
    <2>2. UNCHANGED <<sent, raw, held, chan, received>>
      BY <1>1 DEF StartEngine
    <2> QED
      BY <2>1, <2>2 DEF Consecutive, CountsFrom
  <1>2. CASE Launch \/ StartCloses \/ StartTimesOut \/ AppReturns \/ Crash
    BY <1>2 DEF Launch, StartCloses, StartTimesOut, GiveUp, AppReturns, Crash
  <1>3. CASE Receive
    <2>1. /\ receiver /\ chan # <<>> /\ received' = Head(chan) /\ chan' = Tail(chan)
          /\ UNCHANGED <<sent, raw, held>>
      BY <1>3 DEF Receive, QuietInv
    <2>2. CountsFrom(received, chan)
      BY <2>1 DEF Consecutive
    <2>3. /\ received' = received + 1 /\ Len(chan') = Len(chan) - 1
          /\ CountsFrom(received', chan')
      BY <2>1, <2>2, CountingTail
    <2>4. received' + Len(chan') = received + Len(chan)
      BY <2>3
    <2> QED
      BY <2>1, <2>3, <2>4 DEF Consecutive
  <1>4. CASE EngineSends
    <2>1. receiver /\ sent' = sent + 1 /\ raw' = Append(raw, sent + 1)
          /\ UNCHANGED <<held, chan, received>>
      BY <1>4 DEF EngineSends
    <2>2. raw' = raw \o <<sent + 1>>
      BY <2>1
    <2> DEFINE before == received + Len(chan) + Len(held)
    <2>3. before \in Nat /\ CountsFrom(before, raw) /\ before + Len(raw) = sent
      BY <2>1 DEF Consecutive
    <2> HIDE DEF before
    <2>4. Len(raw') = Len(raw) + 1 /\ CountsFrom(before, raw')
      BY <2>2, <2>3, CountingSingle, CountingOn
    <2>5. before = (received + Len(chan) + Len(held))' /\ before + Len(raw') = sent'
      <3>1. before = (received + Len(chan) + Len(held))'
        BY <2>1 DEF before
      <3>2. Len(raw) \in Nat /\ sent' = sent + 1
        BY <2>1
      <3>3. Len(raw') = Len(raw) + 1
        BY <2>4
      <3>4. before + Len(raw') = sent'
        BY <3>2, <3>3, <2>3
      <3> QED
        BY <3>1, <3>4
    <2>6. CountsFrom(received, chan)' /\ CountsFrom(received + Len(chan), held)'
      BY <2>1 DEF Consecutive
    <2> QED
      BY <2>4, <2>5, <2>6 DEF Consecutive
  <1>5. CASE Take
    <2>1. /\ receiver /\ fwd = "recv" /\ raw # <<>>
          /\ held' = <<Head(raw)>> /\ raw' = Tail(raw)
          /\ UNCHANGED <<sent, chan, received>>
      BY <1>5 DEF Take, Forwarded
    <2> DEFINE before == received + Len(chan)
    <2>2. Len(held) = 0 /\ before \in Nat /\ CountsFrom(before, raw)
      BY <2>1 DEF Consecutive
    <2>3. before = (received + Len(chan))' /\ before + Len(raw) = sent
      BY <2>1, <2>2 DEF Consecutive
    <2> HIDE DEF before
    <2>4. /\ held' = <<before + 1>> /\ Len(raw') = Len(raw) - 1
          /\ CountsFrom(before + 1, raw')
      BY <2>1, <2>2, CountingTail
    <2>5. Len(held') = 1 /\ CountsFrom(before, held')
      BY <2>2, <2>4, CountingSingle
    <2>6. CountsFrom(received, chan)'
      BY <2>1 DEF Consecutive
    <2>7. before + 1 = (received + Len(chan) + Len(held))'
      BY <2>3, <2>5
    <2>8. (before + 1) + Len(raw') = sent'
      <3>1. Len(raw) \in Nat /\ before \in Nat /\ sent' = sent /\ sent \in Nat
        BY <2>1, <2>2
      <3>2. Len(raw') = Len(raw) - 1
        BY <2>4
      <3> QED
        BY <3>1, <3>2, <2>3
    <2> QED
      BY <2>3, <2>4, <2>5, <2>6, <2>7, <2>8 DEF Consecutive
  <1>6. CASE Pass
    <2>1. /\ receiver /\ fwd = "send" /\ chan' = chan \o held /\ held' = <<>>
          /\ UNCHANGED <<sent, raw, received>>
      BY <1>6 DEF Pass
    <2>2. Len(held') = 0 /\ CountsFrom((received + Len(chan))', held')
      BY <2>1 DEF CountsFrom
    <2>3. Len(chan') = Len(chan) + Len(held) /\ CountsFrom(received, chan')
      BY <2>1, CountingOn DEF Consecutive
    <2> QED
      BY <2>1, <2>2, <2>3 DEF Consecutive
  <1>7. CASE UNCHANGED <<sent, raw, held, chan, receiver, received>>
    BY <1>7 DEF Consecutive
  <1>8. Shutdown \/ EngineDies \/ ForwarderEnd \/ UNCHANGED fwdVars
          => UNCHANGED <<sent, raw, held, chan, receiver, received>>
    BY DEF Shutdown, EngineDies, ForwarderEnd, fwdVars
  <1> QED
    BY <1>1, <1>2, <1>3, <1>4, <1>5, <1>6, <1>7, <1>8, QueuesUntouched
       DEF DaemonNext, BootStep, ForwarderStep

\* Queues that hold consecutive messages make up the messages sent.
LEMMA ConsecutiveIsInOrder ==
  ASSUME QueueInv, Consecutive
  PROVE  [i \in 1..received |-> i] \o chan \o held \o raw = [i \in 1..sent |-> i]
  <1> DEFINE past == [i \in 1..received |-> i]
             all == [i \in 1..sent |-> i]
  <1> USE DEF QueueInv
  <1>1. past \in Seq(Nat) /\ Len(past) = received /\ CountsFrom(0, past)
    BY DEF CountsFrom
  <1>2. all \in Seq(Nat) /\ Len(all) = sent /\ CountsFrom(0, all)
    BY DEF CountsFrom
  <1> HIDE DEF past, all
  <1>3. /\ past \o chan \in Seq(Nat) /\ Len(past \o chan) = received + Len(chan)
        /\ CountsFrom(0, past \o chan)
    BY <1>1, CountingOn DEF Consecutive
  <1> DEFINE two == past \o chan
  <1>4. /\ two \o held \in Seq(Nat) /\ Len(two \o held) = received + Len(chan) + Len(held)
        /\ CountsFrom(0, two \o held)
    <2>1. CountsFrom(Len(two), held)
      BY <1>3 DEF Consecutive
    <2>2. two \in Seq(Nat) /\ Len(two) = received + Len(chan) /\ CountsFrom(0, two)
      BY <1>3
    <2>3. held \in Seq(Nat)
      OBVIOUS
    <2> HIDE DEF two, QueueInv
    <2> QED
      BY <2>1, <2>2, <2>3, CountingFromZero
  <1> DEFINE three == two \o held
  <1>5. /\ three \o raw \in Seq(Nat) /\ Len(three \o raw) = sent
        /\ CountsFrom(0, three \o raw)
    <2>1. CountsFrom(Len(three), raw) /\ Len(three) + Len(raw) = sent
      BY <1>4 DEF Consecutive
    <2>2. three \in Seq(Nat) /\ CountsFrom(0, three)
      BY <1>4
    <2>3. raw \in Seq(Nat)
      OBVIOUS
    <2> HIDE DEF three, QueueInv
    <2> QED
      BY <2>1, <2>2, <2>3, CountingFromZero
  <1> HIDE DEF three
  <1>6. three \o raw = all
    BY <1>2, <1>5, SeqEqual DEF CountsFrom
  <1> QED
    BY <1>6 DEF three, two, past, all

-----------------------------------------------------------------------------
(* The theorems.                                                           *)

LEMMA DaemonInvHolds == DaemonSpec => []DaemonInv
  <1>1. DaemonInit => DaemonInv
    <2> SUFFICES ASSUME DaemonInit PROVE DaemonInv
      OBVIOUS
    <2>1. KeyInv
      BY DaemonAssumption DEF DaemonInit, KeyInv, Keys, Phases, Ended
    <2>2. TaskInv
      BY DEF DaemonInit, TaskInv, Tasks, NewTask
    <2>3. QueueInv
      BY DaemonAssumption DEF DaemonInit, QueueInv
    <2>4. QuietInv /\ ~receiver
      BY DEF DaemonInit, QuietInv
    <2> QED
      BY <2>1, <2>2, <2>3, <2>4 DEF DaemonInv
  <1>2. DaemonInv /\ [DaemonNext]_daemonVars => DaemonInv'
    BY KeyStep, TaskStep, QueueStep, QuietStep, ConsecutiveStep DEF DaemonInv
  <1> QED
    BY <1>1, <1>2, PTL DEF DaemonSpec

\* A validator keeps its identity: whatever the boots, the failed boots and
\* the crashes between the write's truncation and its end, consensus is
\* never started with two keys (run_reth_devnet, the validator key file).
THEOREM DaemonOneIdentity == DaemonSpec => []OneIdentity
  <1>1. DaemonInv => OneIdentity
    <2> SUFFICES ASSUME DaemonInv PROVE Cardinality(used) <= 1
      BY DEF OneIdentity
    <2>1. Cardinality({}) = 0 /\ Cardinality({keyfile}) = 1
      BY FS_EmptySet, FS_Singleton
    <2>2. used = {} \/ used = {keyfile}
      BY DEF DaemonInv, KeyInv
    <2> QED
      BY <2>1, <2>2
  <1> QED
    BY <1>1, DaemonInvHolds, PTL

\* The forwarder loses, repeats and reorders nothing: what the application
\* has handled, the channel to it, the message in hand and the engine's
\* channel are together the messages sent, for as long as there is a
\* receiver, and the bounded channel keeps its capacity
\* (spawn_consensus_forwarder, start, run_engine_app).
THEOREM DaemonMessagesInOrder == DaemonSpec => []MessagesInOrder
  <1>1. DaemonInv => MessagesInOrder
    <2> SUFFICES ASSUME DaemonInv PROVE MessagesInOrder
      OBVIOUS
    <2>1. \A c \in Clients : sub[c].pc \in {"none", "poll", "send", "gone"}
      BY DEF DaemonInv, TaskInv, Tasks
    <2>2. DaemonTypeOK
      BY <2>1 DEF DaemonInv, KeyInv, QueueInv, DaemonTypeOK, Phases, Keys
    <2> QED
      BY <2>2, ConsecutiveIsInOrder DEF DaemonInv, MessagesInOrder
  <1> QED
    BY <1>1, DaemonInvHolds, PTL

=============================================================================

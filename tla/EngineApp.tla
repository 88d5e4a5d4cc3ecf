------------------------------ MODULE EngineApp ------------------------------
(***************************************************************************)
(* The consensus application loop of crates/consensus (run_engine_app) and *)
(* the block side of the bridge it drives, for a set of validators.        *)
(*                                                                         *)
(* A proposer builds a block on its last decided one and publishes it as a *)
(* stream of two messages, Data and Fin.  A follower keeps the halves of a *)
(* stream until both are there, then registers the block with its bridge.  *)
(* When consensus decides, each validator commits the block it built or    *)
(* registered and runs its commit hook with the block's timestamp.         *)
(*                                                                         *)
(* Malachite is external: rounds time out at any moment, the network       *)
(* delivers the parts in any order and may lose some of them, and a height *)
(* is decided for at most one value, one that validators with more than    *)
(* two thirds of the voting power hold.  It reports a decision to a        *)
(* validator that holds the value.  The application answers requests for   *)
(* decided values and synced values with nothing and streams nothing       *)
(* again, so nothing repairs a lost part.                                  *)
(*                                                                         *)
(* A part may reach a follower as bytes that do not decode, or whose       *)
(* header does not hash to what they claim; else it is the proposer's.     *)
(* Reth is external: it may refuse a payload or a fork choice, or fail to  *)
(* build.                                                                  *)
(***************************************************************************)
EXTENDS Validators

CONSTANTS
  Power,          \* voting power by validator address, 1..N
  Bodies,         \* what payload building may put into a block: the mempool
                  \* is each node's own; one value for synthesized headers
  RealPayloads,   \* whether a PayloadBuilderHandle is installed
  Decisions,      \* stop_after_decisions
  MaxRound,       \* bound: highest round
  MaxFaults       \* bound: parts lost or malformed and calls that Reth refuses

ASSUME EngineAssumption ==
  /\ Power \in Seq(Nat \ {0}) /\ Power # <<>>
  /\ Bodies # {} /\ "none" \notin Bodies
  /\ RealPayloads \in BOOLEAN
  /\ Decisions \in Nat \ {0}
  /\ MaxRound \in Nat /\ MaxFaults \in Nat

VARIABLES
  status,       \* status[v]: "running", "done" or "failed"
  height,       \* height[v]: current_height
  round,        \* round[v]: the first round in which v has not been asked for a
                \* value at its height
  parent,       \* parent[v]: current_parent
  decided,      \* decided[v]: what run_engine_app returns
  hook,         \* history: <<height, time>> of each on_committed call
  blockTimes,   \* blockTimes[v]: block_times
  streams,      \* streams[v]: halves buffered, as messages
  pending,      \* pending[v]: State.pending of the bridge
  chain,        \* chain[v]: State.chain of the bridge
  head,         \* head[v]: State.head, or genesis
  reth,         \* reth[v]: [known, head], the blocks Reth has executed and
                \* its canonical head
  buffer,       \* buffer[v]: pending_fills
  net,          \* parts in flight
  lost,         \* parts lost
  malformed,    \* Data messages whose bytes are not a proposed block
  refused,      \* history: <<validator, block, call>> of what Reth refused
  proposed,     \* history: <<height, round, block>> of every value proposed
  decision      \* decision[h]: the value decided at height h, or NoBlock

app    == <<status, height, round, parent, decided, hook, blockTimes, streams>>
bridge == <<pending, chain, head, reth, buffer>>
engineVars == <<app, bridge, net, lost, malformed, refused, proposed, decision>>

Validators == DOMAIN Power
Heights == 1..Decisions

-----------------------------------------------------------------------------
(* Blocks. A hash commits to the header and through its parent hash to all *)
(* earlier blocks: a block is the sequence of bodies from genesis on.      *)

Genesis == <<>>
NoBlock == <<"none">>

Number(b) == Len(b)

\* PayloadAttrs carry timestamp 0, so that every block is one second after
\* its parent.
Timestamp(b) == Number(b)

-----------------------------------------------------------------------------
(* Mutated forms of definitions below.                                     *)

\* Reth is told of the new head before it is given the block.
Executed_ForkchoiceFirst(r, p, taken) ==
  [known |-> IF p.data /\ "payload" \in taken THEN r.known \cup {p.block} ELSE r.known,
   head |-> IF p.block \in r.known THEN p.block ELSE r.head]

\* The next block is built on the same parent again.
NextParent_Unchanged(v, b) == parent[v]

\* A follower's loop records no timestamp.
RecordTime_ProposerOnly(times, b, own) == IF own THEN times \cup {b} ELSE times

\* The buffered half of a completed stream is kept.
Unbuffered_Kept(buffered, m) == buffered \cup {m}

\* A stream is complete only when Fin comes after Data.
Completes_InOrder(buffered, m) ==
  m.half = "Fin" /\ \E x \in buffered : x.stream = m.stream /\ x.half = "Data"

\* The fills are copied into the payload and stay in the buffer.
Drained_Copied(fills) == fills

-----------------------------------------------------------------------------
(* The bridge.                                                             *)

\* new_payload gives Reth the block, if the payload carries one and its
\* parent has been executed; then the forkchoice update makes it the head.
\* `taken` are the calls that Reth does not refuse: commit drops the result
\* of both and goes on.
Executed(r, p, taken) ==
  LET known == IF p.data /\ "payload" \in taken /\ Front(p.block) \in r.known
               THEN r.known \cup {p.block} ELSE r.known
  IN [known |-> known,
      head |-> IF "forkchoice" \in taken /\ p.block \in known THEN p.block ELSE r.head]

Calls == {"payload", "forkchoice"}

NextParent(v, b) == b

\* mem::take of pending_fills.
Drained(fills) == {}

RecordTime(times, b, own) == times \cup {b}

\* `streams` after message m completes its stream.
Unbuffered(buffered, m) == {x \in buffered : x.stream # m.stream}

\* Whether message m is the second half of its stream.
Completes(buffered, m) == \E x \in buffered : x.stream = m.stream /\ x.half # m.half

Holds(v, b) == \E p \in pending[v] : p.block = b

\* build_real_payload: Reth puts what it has in its mempool on the parent.
BuiltOn(b, body) == Append(b, body)

\* Whether a block can be built on the last decided one: Reth's builder needs
\* to know it, a synthesized header takes it from the bridge or from Reth.
Buildable(v) ==
  IF RealPayloads THEN parent[v] \in reth[v].known
  ELSE parent[v] \in chain[v] \cup reth[v].known

\* What build_payload enters into `pending`: the block, the fills it takes
\* out of the buffer, and the execution payload if Reth built one.
Payload(v, block) == [block |-> block, fills |-> buffer[v], data |-> RealPayloads]

\* encode_proposed_block: header and execution payload, and no fills.
Encoded(p) == [block |-> p.block, data |-> p.data]

\* register_proposed_block rejects bytes that it cannot decode, and a header
\* that does not hash to the hash they claim. m completes its stream at v.
Rejected(v, m) == \E x \in streams[v] \cup {m} : x.stream = m.stream /\ x \in malformed

\* What register_proposed_block enters into `pending`.
Registered(wire) == [block |-> wire.block, fills |-> {}, data |-> wire.data]

\* An OpenHlProposalPart: the Data message of a stream. Its proposer is
\* select_proposer's of the height and round.
ProposalPart(h, r, bytes) == [height |-> h, round |-> r, block_bytes |-> bytes]

\* The key of a stream: no two streams of a validator share one.
StreamId(v, h, r) == <<v, h, r>>

-----------------------------------------------------------------------------
\* Every validator starts with one fill, of the orders seeded at boot.
EngineInit ==
  /\ status = [v \in Validators |-> "running"]
  /\ height = [v \in Validators |-> 1]
  /\ round = [v \in Validators |-> 0]
  /\ parent = [v \in Validators |-> Genesis]
  /\ decided = [v \in Validators |-> <<>>]
  /\ hook = [v \in Validators |-> <<>>]
  /\ blockTimes = [v \in Validators |-> {}]
  /\ streams = [v \in Validators |-> {}]
  /\ pending = [v \in Validators |-> {}]
  /\ chain = [v \in Validators |-> {}]
  /\ head = [v \in Validators |-> Genesis]
  /\ reth = [v \in Validators |-> [known |-> {Genesis}, head |-> Genesis]]
  /\ buffer = [v \in Validators |-> {v}]
  /\ net = {} /\ lost = {} /\ malformed = {} /\ refused = {} /\ proposed = {}
  /\ decision = [h \in Heights |-> NoBlock]

Running(v) == status[v] = "running"

\* The environment may fail once more.
FaultsLeft == Cardinality(lost) + Cardinality(malformed) + Cardinality(refused) < MaxFaults

\* An error of the bridge ends the loop.
Fail(v) ==
  /\ status' = [status EXCEPT ![v] = "failed"]
  /\ UNCHANGED <<height, round, parent, decided, hook, blockTimes, streams,
                 bridge, net, lost, malformed, proposed, decision>>

\* build_payload, payload_ready and encode_proposed_block, and the two
\* messages of the stream to every other validator.
Propose(v, r, block) ==
  LET payload == Payload(v, block)
      part == ProposalPart(height[v], r, Encoded(payload))
      msg(w, half) == [to |-> w, stream |-> StreamId(v, height[v], r),
                       half |-> half, part |-> part]
  IN /\ round' = [round EXCEPT ![v] = r + 1]
     /\ pending' = [pending EXCEPT ![v] = @ \cup {payload}]
     /\ buffer' = [buffer EXCEPT ![v] = Drained(@)]
     /\ blockTimes' = [blockTimes EXCEPT ![v] = RecordTime(@, block, TRUE)]
     /\ net' = net \cup {msg(w, half) : w \in Validators \ {v}, half \in {"Data", "Fin"}}
     /\ proposed' = proposed \cup {<<height[v], r, block>>}
     /\ UNCHANGED <<status, height, parent, decided, hook, streams,
                    chain, head, reth, lost, malformed, refused, decision>>

\* The engine has started round r and asks its proposer for a value. A round
\* in which v is not the proposer changes nothing of v's. build_payload fails
\* for a parent that cannot be built on, and when Reth's payload builder
\* refuses the job or drops it.
GetValue(v, r) ==
  /\ Running(v)
  /\ r >= round[v]
  /\ v = SelectProposer(Power, height[v], r)
  /\ \/ /\ Buildable(v)
        /\ \E body \in Bodies : Propose(v, r, BuiltOn(parent[v], body))
     \/ /\ ~ Buildable(v)
        /\ Fail(v) /\ UNCHANGED refused
     \/ /\ RealPayloads /\ FaultsLeft
        /\ refused' = refused \cup {<<v, parent[v], "build">>}
        /\ Fail(v)

\* The first half of a stream is buffered.
BufferPart(m) ==
  LET v == m.to
  IN /\ m \in net /\ Running(v)
     /\ ~ Completes(streams[v], m)
     /\ net' = net \ {m}
     /\ streams' = [streams EXCEPT ![v] = @ \cup {m}]
     /\ UNCHANGED <<status, height, round, parent, decided, hook, blockTimes,
                    bridge, lost, malformed, refused, proposed, decision>>

\* The second half completes it: register_proposed_block, whose error ends
\* the loop.
RegisterProposal(m) ==
  LET v == m.to
      payload == Registered(m.part.block_bytes)
  IN /\ m \in net /\ Running(v)
     /\ Completes(streams[v], m)
     /\ net' = net \ {m}
     /\ streams' = [streams EXCEPT ![v] = Unbuffered(@, m)]
     /\ IF Rejected(v, m)
        THEN /\ status' = [status EXCEPT ![v] = "failed"]
             /\ UNCHANGED <<pending, blockTimes>>
        ELSE /\ pending' = [pending EXCEPT ![v] = @ \cup {payload}]
             /\ blockTimes' = [blockTimes EXCEPT ![v] = RecordTime(@, payload.block, FALSE)]
             /\ UNCHANGED status
     /\ UNCHANGED <<height, round, parent, decided, hook, chain, head, reth, buffer,
                    lost, malformed, refused, proposed, decision>>

\* The network drops a part.
Lose(m) ==
  /\ m \in net
  /\ FaultsLeft
  /\ net' = net \ {m}
  /\ lost' = lost \cup {m}
  /\ UNCHANGED <<app, bridge, malformed, refused, proposed, decision>>

\* The bytes of a part are not what a bridge of this version encodes.
Garble(m) ==
  /\ m \in net \ malformed /\ m.half = "Data"
  /\ FaultsLeft
  /\ malformed' = malformed \cup {m}
  /\ UNCHANGED <<app, bridge, net, lost, refused, proposed, decision>>

\* Malachite decides height h for a proposed value that a quorum holds.
Decide(h) ==
  /\ decision[h] = NoBlock
  /\ \E b \in {x[3] : x \in {y \in proposed : y[1] = h}} :
       /\ IsQuorum(Power, {v \in Validators : Holds(v, b)})
       /\ decision' = [decision EXCEPT ![h] = b]
  /\ UNCHANGED <<app, bridge, net, lost, malformed, refused, proposed>>

\* bridge.commit, the commit hook, and the next height or the end.
Commit(v, b, taken) ==
  /\ \E p \in pending[v] :
       p.block = b /\ reth' = [reth EXCEPT ![v] = Executed(@, p, taken)]
  /\ refused' = refused \cup {<<v, b, call>> : call \in Calls \ taken}
  /\ blockTimes' = [blockTimes EXCEPT ![v] = @ \ {b}]
  /\ chain' = [chain EXCEPT ![v] = @ \cup {b}]
  /\ head' = [head EXCEPT ![v] = b]
  /\ hook' = [hook EXCEPT ![v] = Append(@, <<height[v], Timestamp(b)>>)]
  /\ decided' = [decided EXCEPT ![v] = Append(@, b)]
  /\ parent' = [parent EXCEPT ![v] = NextParent(v, b)]
  /\ status' = [status EXCEPT ![v] = IF Len(decided'[v]) >= Decisions THEN "done" ELSE @]
  /\ height' = [height EXCEPT ![v] = IF status'[v] = "done" THEN @ ELSE @ + 1]
  /\ round' = [round EXCEPT ![v] = 0]
  /\ UNCHANGED <<streams, pending, buffer, net, lost, malformed, proposed, decision>>

\* Decided. The loop fails without the block's timestamp.
Decided(v, taken) ==
  LET b == decision[height[v]]
  IN /\ Running(v)
     /\ Holds(v, b)
     /\ taken = Calls \/ (RealPayloads /\ FaultsLeft)
     /\ IF b \in blockTimes[v] THEN Commit(v, b, taken) ELSE Fail(v) /\ UNCHANGED refused

EngineNext ==
  \/ \E v \in Validators :
       \/ \E taken \in SUBSET Calls : Decided(v, taken)
       \/ \E r \in 0..MaxRound : GetValue(v, r)
  \/ \E m \in net : BufferPart(m) \/ RegisterProposal(m) \/ Lose(m) \/ Garble(m)
  \/ \E h \in Heights : Decide(h)

\* The engine asks, the network delivers what it does not lose, a height with
\* a value that a quorum holds is decided, and the decision is reported. No
\* validator is obliged to trade.
EngineFairness ==
  /\ \A v \in Validators :
       /\ WF_engineVars(\E taken \in SUBSET Calls : Decided(v, taken))
       /\ WF_engineVars(\E r \in 0..MaxRound : GetValue(v, r))
  /\ WF_engineVars(\E m \in net : BufferPart(m) \/ RegisterProposal(m))
  /\ WF_engineVars(\E h \in Heights : Decide(h))

EngineSpec == EngineInit /\ [][EngineNext]_engineVars

FairEngineSpec == EngineSpec /\ EngineFairness

-----------------------------------------------------------------------------
(* Properties.                                                             *)

\* The types of the loop's and the bridges' state; a part of StreamsWait.
EngineTypeOK ==
  /\ status \in [Validators -> {"running", "done", "failed"}]
  /\ height \in [Validators -> Heights]
  /\ round \in [Validators -> 0..(MaxRound + 1)]
  /\ \A v \in Validators :
       /\ \A p \in pending[v] : p.block \in Seq(Bodies) /\ p.fills \subseteq Validators
       /\ blockTimes[v] \subseteq {p.block : p \in pending[v]}
       /\ chain[v] \subseteq {p.block : p \in pending[v]}

\* The validators' chains and the calls of their commit hooks agree: of any
\* two validators one is ahead of the other on the same chain of blocks, each
\* on top of the one before, with the same heights and times for the hook.
ChainsAgree ==
  \A v, w \in Validators :
    /\ IsPrefix(decided[v], decided[w]) \/ IsPrefix(decided[w], decided[v])
    /\ IsPrefix(hook[v], hook[w]) \/ IsPrefix(hook[w], hook[v])
    /\ \A i \in 1..Len(decided[v]) :
         /\ Number(decided[v][i]) = i
         /\ hook[v][i][1] = i
         /\ Front(decided[v][i]) = IF i = 1 THEN Genesis ELSE decided[v][i - 1]
    /\ head[v] = IF decided[v] = <<>> THEN Genesis ELSE Last(decided[v])

PayloadRefused(v) == \E x \in refused : x[1] = v /\ x[3] = "payload"

\* No order of parts, rounds and decisions makes a loop end with an error: a
\* block that is decided and held has its timestamp, and a proposer's parent
\* is there to build on. A loop fails only if a part came to it malformed,
\* if its Reth refused a payload that commit gave it, or in a call of the
\* payload builder; a refused fork choice alone ends no loop.
NoValidatorFails ==
  \A v \in Validators : status[v] = "failed" =>
    \/ \E m \in malformed : m.to = v
    \/ PayloadRefused(v)
    \/ <<v, parent[v], "build">> \in refused

\* Reth's canonical chain advances in lockstep with consensus, unless it has
\* refused a payload; a fork choice that it refused is made good by the next.
RethFollows ==
  RealPayloads => \A v \in Validators :
    \/ reth[v].head = head[v]
    \/ PayloadRefused(v)
    \/ <<v, head[v], "forkchoice">> \in refused

\* The buffer of streams keeps only what waits for its other half: the half
\* that is missing is on its way or lost. A stream both of whose halves have
\* come leaves nothing behind.
StreamsWait ==
  /\ EngineTypeOK
  /\ \A v \in Validators : \A m \in streams[v] :
       \E x \in net \cup lost :
         x.to = v /\ x.stream = m.stream /\ x.half # m.half

\* A fill is in one place: a buffer, or one payload of the validator that
\* drained it.
FillsAttachedOnce ==
  \A f \in Validators :
    LET places == [v \in Validators |->
                     Cardinality({p \in pending[v] : f \in p.fills})
                       + IF f \in buffer[v] THEN 1 ELSE 0]
    IN MapThenSumSet(LAMBDA v : places[v], Validators) = 1

\* v lost a part or failed, or too few are left to decide.
Excused(v) ==
  \/ status[v] = "failed"
  \/ \E m \in lost : m.to = v
  \/ ~ IsQuorum(Power, {w \in Validators : status[w] # "failed"})

\* A validator that no part is lost for and whose loop does not fail commits
\* every height, as long as the loops that did not fail are a quorum.
CommitsUnlessLost == \A v \in Validators : <>(status[v] = "done" \/ Excused(v))

=============================================================================

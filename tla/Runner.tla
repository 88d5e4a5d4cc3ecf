------------------------------- MODULE Runner -------------------------------
(***************************************************************************)
(* The synchronous runners of crates/consensus (run_single_validator and   *)
(* run_multi_validator, which simulates honest peers), the devnet loop     *)
(* that calls the first, and the in-memory bridge under them.              *)
(*                                                                         *)
(* The runner feeds Malachite's Driver inputs, turns each output into      *)
(* further inputs, and stops at a decision, at an error of the bridge, or  *)
(* as stuck when a pass over the outputs gives no input.  The Driver is    *)
(* external: only what it does for the inputs a runner feeds it is here.   *)
(* The peers' votes come in the order of a hash map, which is any order.   *)
(***************************************************************************)
EXTENDS Validators

CONSTANTS
  MaxValidators,   \* bound: validators of run_multi_validator
  DevnetRounds     \* rounds of the devnet

ASSUME RunnerAssumption == MaxValidators \in Nat /\ DevnetRounds \in Nat \ {0}

VARIABLES
  power,     \* voting power by address; address 1 is ours
  multi,     \* which runner
  refuses,   \* the call the bridge refuses, or "none": the runners are
             \* generic in it, and the in-memory one refuses nothing it built
  phase,     \* "boot", "build", "round", "outputs", "inputs", "commit",
             \* "ok", "count", "bridge" or "stuck"
  parent,    \* the parent of the block to decide
  value,     \* the value built in this run, or NoBlock
  driver,    \* [step, proposal, votes]
  outputs,   \* outputs of the driver not yet handled
  next,      \* inputs collected from them
  pending,   \* bridge: payloads built
  chain,     \* bridge: committed blocks
  head,      \* bridge: head, or Genesis
  decided    \* what the runs have returned

bridge == <<pending, chain, head>>
runnerVars == <<power, multi, refuses, phase, parent, value, driver, outputs, next, bridge, decided>>

Us == 1
Height == 1     \* OpenHlHeight::INITIAL, for every run

\* A block is known by its payload id and number, which its hash is made of.
Genesis == [id |-> 0, number |-> 0, parent |-> 0]
NoBlock == [id |-> -1, number |-> 0, parent |-> 0]
NilVote == NoBlock

NewDriver == [step |-> "new", proposal |-> NoBlock, votes |-> {}]

\* run_multi_validator gives us power 2, so that we are first in the sorted
\* set.
Powers(n) == [i \in 1..n |-> IF i = Us THEN 2 ELSE 1]

Input(kind, b) == [kind |-> kind, value |-> b, from |-> Us]

\* A proposal and a vote of height 1 and round 0; the vote's value may be NilVote.
Proposal(b, w) == [kind |-> "proposal", value |-> b, from |-> w]
Vote(kind, b, w) == [kind |-> kind, value |-> b, from |-> w]

-----------------------------------------------------------------------------
(* Mutated forms of definitions below.                                     *)

\* The devnet's next round builds on the same parent.
NextParent_Unchanged(b) == parent

\* Peers vote nil whatever we vote.
MatchingVote_Nil(kind, b, w) == Vote(kind, NilVote, w)

-----------------------------------------------------------------------------
(* The bridge.                                                             *)

Chained(c, b) == c \cup {b}

\* build_payload: the id is the number of payloads so far; a parent that is
\* not in the chain has number zero.
Payload ==
  [id |-> Cardinality(pending) + 1,
   number |-> (IF \E b \in chain : b.id = parent.id
               THEN (CHOOSE b \in chain : b.id = parent.id).number ELSE 0) + 1,
   parent |-> parent.id]

-----------------------------------------------------------------------------
(* The Driver.                                                             *)

VotesFor(d, kind, b) == {x.from : x \in {y \in d.votes : y.kind = kind /\ y.value = b}}

\* process: the driver after the input, and what it puts out. A quorum of
\* votes for no single value only schedules a timeout.
Process(d, in) ==
  LET vote == [d EXCEPT !.votes = @ \cup {in}]
      polka == IsQuorum(power, VotesFor(vote, "prevote", d.proposal))
      commits == IsQuorum(power, VotesFor(vote, "precommit", d.proposal))
      same == [driver |-> d, out |-> <<>>]
  IN CASE in.kind = "newround" /\ in.from = Us ->
            [driver |-> [d EXCEPT !.step = "propose"], out |-> <<Input("getvalue", NoBlock)>>]
       [] in.kind = "newround" /\ in.from # Us ->
            [driver |-> [d EXCEPT !.step = "propose"], out |-> <<Input("timeout", NoBlock)>>]
       [] in.kind = "proposevalue" ->
            [driver |-> d, out |-> <<Input("propose", in.value)>>]
       [] in.kind = "proposal" ->
            IF d.step # "propose" THEN same
            ELSE [driver |-> [d EXCEPT !.step = "prevote", !.proposal = in.value],
                  out |-> <<Input("prevote", in.value)>>]
       [] in.kind = "prevote" ->
            IF d.step = "prevote" /\ polka
            THEN [driver |-> [vote EXCEPT !.step = "precommit"],
                  out |-> <<Input("precommit", d.proposal)>>]
            ELSE [driver |-> vote, out |-> <<>>]
       [] in.kind = "precommit" ->
            IF d.step # "commit" /\ commits
            THEN [driver |-> [vote EXCEPT !.step = "commit"],
                  out |-> <<Input("decide", d.proposal)>>]
            ELSE [driver |-> vote, out |-> <<>>]

-----------------------------------------------------------------------------
(* The runners.                                                            *)

RunnerInit ==
  /\ \/ multi = FALSE /\ power = <<1>>
     \/ multi = TRUE /\ power \in {Powers(n) : n \in 0..MaxValidators}
  /\ refuses \in {"none", "build", "commit"}
  /\ phase = "boot"
  /\ parent = Genesis /\ value = NoBlock
  /\ driver = NewDriver /\ outputs = <<>> /\ next = <<>>
  /\ pending = {} /\ chain = {} /\ head = Genesis
  /\ decided = <<>>

\* A run begins: no validators is an error; run_multi_validator builds the
\* value first, run_single_validator when the driver asks for it.
Begin ==
  /\ phase = "boot"
  /\ phase' = IF multi THEN IF power = <<>> THEN "count" ELSE "build" ELSE "round"
  /\ driver' = NewDriver /\ value' = NoBlock /\ outputs' = <<>> /\ next' = <<>>
  /\ UNCHANGED <<power, multi, refuses, parent, bridge, decided>>

\* build_payload and payload_ready. The value goes to the driver if it has
\* asked for one.
Build ==
  /\ phase = "build"
  /\ IF refuses = "build"
     THEN phase' = "bridge" /\ UNCHANGED <<pending, value, next>>
     ELSE /\ pending' = pending \cup {Payload}
          /\ value' = Payload
          /\ IF driver.step = "new"
             THEN phase' = "round" /\ UNCHANGED next
             ELSE phase' = "outputs" /\ next' = Append(next, Input("proposevalue", Payload))
  /\ UNCHANGED <<power, multi, refuses, parent, driver, outputs, chain, head, decided>>

\* NewRound for round 0. When another validator is the proposer, its signed
\* proposal of the value is fed next.
StartRound ==
  LET proposer == SelectProposer(power, Height, 0)
      started == Process(driver, [kind |-> "newround", value |-> NoBlock, from |-> proposer])
      voted == Process(started.driver, Proposal(value, proposer))
  IN /\ phase = "round"
     /\ IF proposer = Us
        THEN driver' = started.driver /\ outputs' = started.out
        ELSE driver' = voted.driver /\ outputs' = started.out \o voted.out
     /\ phase' = "outputs"
     /\ UNCHANGED <<power, multi, refuses, parent, value, next, bridge, decided>>

\* matching_vote_from: a peer's vote like ours; nil stays nil.
MatchingVote(kind, b, w) == Vote(kind, IF b = NilVote THEN NilVote ELSE value, w)

\* Our vote, and the peers' in any order.
Echoes(out) ==
  {<<out>> \o [i \in 1..Len(order) |-> MatchingVote(out.kind, out.value, order[i])] :
     order \in SetToSeqs(DOMAIN power \ {Us})}

\* Whether GetValue builds a payload.
BuildsFor(m) == ~m

\* One output of the driver. A decision is committed and the rest of the
\* outputs forgotten; timeouts are ignored.
HandleOutput ==
  LET out == Head(outputs)
  IN /\ phase = "outputs" /\ outputs # <<>>
     /\ outputs' = Tail(outputs)
     /\ CASE out.kind = "getvalue" ->
               IF BuildsFor(multi) THEN phase' = "build" /\ UNCHANGED next
               ELSE next' = Append(next, Input("proposevalue", value)) /\ UNCHANGED phase
          [] out.kind = "propose" ->
               next' = Append(next, Proposal(out.value, Us)) /\ UNCHANGED phase
          [] out.kind \in {"prevote", "precommit"} ->
               (\E votes \in Echoes(out) : next' = next \o votes) /\ UNCHANGED phase
          [] out.kind = "decide" -> phase' = "commit" /\ UNCHANGED next
          [] out.kind = "timeout" -> UNCHANGED <<phase, next>>
     /\ UNCHANGED <<power, multi, refuses, parent, value, driver, bridge, decided>>

\* All outputs are handled: without an input the run is stuck.
EndOutputs ==
  /\ phase = "outputs" /\ outputs = <<>>
  /\ phase' = IF next = <<>> THEN "stuck" ELSE "inputs"
  /\ UNCHANGED <<power, multi, refuses, parent, value, driver, outputs, next, bridge, decided>>

FeedInput ==
  LET result == Process(driver, Head(next))
  IN /\ phase = "inputs"
     /\ driver' = result.driver
     /\ outputs' = outputs \o result.out
     /\ next' = Tail(next)
     /\ phase' = IF Len(next) = 1 THEN "outputs" ELSE "inputs"
     /\ UNCHANGED <<power, multi, refuses, parent, value, bridge, decided>>

NextParent(b) == b

\* bridge.commit of the decided value; then the devnet starts another run on
\* top of it.
Commit ==
  LET b == driver.proposal
  IN /\ phase = "commit"
     /\ IF b \in pending /\ refuses # "commit"
        THEN /\ chain' = Chained(chain, b) /\ head' = b
             /\ decided' = Append(decided, b)
             /\ parent' = NextParent(b)
             /\ phase' = IF ~multi /\ Len(decided') < DevnetRounds THEN "boot" ELSE "ok"
        ELSE phase' = "bridge" /\ UNCHANGED <<chain, head, decided, parent>>
     /\ UNCHANGED <<power, multi, refuses, value, driver, outputs, next, pending>>

RunnerNext ==
  \/ Begin \/ Build \/ StartRound \/ HandleOutput \/ EndOutputs \/ FeedInput \/ Commit

\* Nothing else runs: each step of the runner is taken.
RunnerSpec == RunnerInit /\ [][RunnerNext]_runnerVars /\ WF_runnerVars(RunnerNext)

-----------------------------------------------------------------------------
(* Properties.                                                             *)

\* The types of the runner's and the bridge's state; a part of
\* DecidedIsChain.
RunnerTypeOK ==
  /\ phase \in {"boot", "build", "round", "outputs", "inputs", "commit",
                "ok", "count", "bridge", "stuck"}
  /\ chain \subseteq pending /\ value \in pending \cup {NoBlock}
  /\ \A x \in driver.votes : x.from \in DOMAIN power
  /\ head \in chain \cup {Genesis}

\* The blocks decided by the rounds of a devnet are the bridge's chain: each
\* is built on the one before, with the next number, although every round
\* runs at consensus height 1. A run builds one payload, and decides that
\* one.
DecidedIsChain ==
  /\ RunnerTypeOK
  /\ Cardinality(pending) <= Len(decided) + 1
  /\ phase = "ok" => Cardinality(pending) = Len(decided)
  /\ {decided[i] : i \in DOMAIN decided} = chain
  /\ \A i \in DOMAIN decided :
       /\ decided[i].number = i
       /\ decided[i].parent = IF i = 1 THEN Genesis.id ELSE decided[i - 1].id

\* For every number of validators and every order of the peers' votes the
\* run ends with a decision, or with the error of a refused call or of an
\* empty set: it is never stuck, and never loops (drive_loop_multi ignores
\* timeouts, so that one missing quorum would end it).
RunDecides ==
  <>[](phase = (IF power = <<>> THEN "count" ELSE IF refuses = "none" THEN "ok" ELSE "bridge"))
=============================================================================

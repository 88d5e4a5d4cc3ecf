# A TLA+ model of openhl

openhl is a small exchange chain: BFT consensus (Malachite), EVM execution
(Reth), and between them an order book with perpetual-futures accounting,
funding, liquidation and auto-deleveraging. This directory holds TLA+
specifications of its core, TLC configurations that check them on small
instances, and TLAPS proofs. Paths below are relative to the repository root.

## 1. The system

### Components

| Component | State | Operations | What makes it correct |
| --- | --- | --- | --- |
| Order book, `crates/clob` | two `BTreeMap`s of price to FIFO queue | `submit` (limit, market), `cancel`, `best_*` | price-time priority; never crossed; no quantity lost; map keys agree with queues |
| Clearing, `crates/clearing` | none (pure) | `apply_fill`, `free_collateral` | accounting by average entry price agrees with the cash that changed hands |
| Bridge, `crates/evm/src/live_node.rs` | book, account map, fill buffer, oracle index, each behind its own mutex; pending payloads, committed chain | `submit_order`, `deposit`, `withdraw`, `build_payload`, `commit`, `register_proposed_block`, `snapshot`, `load_snapshot` | every fill reaches the accounts and one payload; withdrawals leave the margin; calls return; Reth follows consensus |
| Precompiles, `crates/evm/src/precompiles` | the bridge's state through process globals; `NEXT_ORDER_ID` | `place_order`, `deposit`, `withdraw`, `margin_health`, `read_best_bid` | same effect as the bridge's methods |
| Revert guard, `precompiles/revert_guard.rs` | a stack of savepoints per EVM | `call`, `call_end` | a failed frame leaves nothing behind, and takes nothing else with it |
| Liquidation, `crates/liquidation` | balance of the insurance fund | `scan`, fund `deposit` / `withdraw_shortfall`, `execute_adl` | losses are paid by the fund, then by the winners in rank order, and by nobody twice |
| Funding, `crates/funding` | time of the last settlement | `FundingClock::tick` | moves collateral between longs and shorts, creates none; at most one settlement per interval |
| Oracle, `crates/oracle` | last observation per feed, cached aggregate, publishers | `ingest_signed`, `refresh`, `current_price_fresh_at` | no stale or replayed price is used; no minority sets the price |
| Vault, `crates/vault` | total shares, total assets | `deposit`, `withdraw`, `mark_to_market` | no share holder loses by another's rounding |
| Coordinator, `crates/node` | the four above | `tick`, `snapshot`, `load_snapshot` | fixed order; settlements apart; one mark for scan and ADL |
| Commit hook, `bin/openhl/src/main.rs` | none of its own | snapshots the accounts, ticks, writes the report back | every delta lands on the live accounts once |
| Event replay, `bin/openhl/src/chain_history.rs` | heights applied | `apply_for_height` | every event of the chain is applied once |
| Persistence, `bin/openhl/src/main.rs` | two JSON files | written at the end of a run, loaded at boot | nothing of the future after a restart, nothing twice |
| Consensus loop, `crates/consensus/src/engine_app.rs` | current parent and height, block times, partial streams | `GetValue`, `ReceivedProposalPart`, `Decided`, ... | validators commit the same chain; a decided block can be committed by everyone who received it |
| Runners, `crates/consensus/src/runner.rs` | inputs and outputs of one driver | `run_single_validator`, `run_multi_validator` | a run ends with a decision |
| Codec and signing, `codec.rs`, `signing*.rs` of `crates/consensus` | none (pure) | `encode`, `decode`, `sign_*`, `verify_signed_*` | a signature is for one message; a receiver gets what was sent and can check it |
| Daemon, `bin/openhl/src/main.rs`, `crates/consensus/src/node.rs` | key file, dial list, forwarding task | boot, `start`, `kill` | one identity; no message lost; nothing left running |
| RPC, `bin/openhl/src/rpc.rs` | last value per subscription | polling subscriptions | the last value arrives |

Malachite (consensus), Reth and REVM (execution) and libp2p are external.

### Interaction

The *node's thread* (the consensus loop and its commit hook) and the *EVM's
thread* (Reth executing transactions) share the book, the account map and the
fill buffer through `Arc<Mutex<..>>`. The EVM reaches them through process
globals that `LiveRethEvmBridge::new` installs; Reth runs several EVMs at once
over the same globals, each with a revert guard. Consensus calls
`build_payload`, which drains the fill buffer into the payload, and `commit`;
after `commit` the hook copies the accounts, runs `OpenHlNode::tick` on the
copy, and writes funding, liquidation and ADL results back into the live map.

### What is hard here

* Two threads, three mutexes that are taken in different orders and sometimes
  nested (`submit_order`: book, then fill buffer, then accounts; the withdraw
  precompile: accounts, then book), and sometimes dropped half way
  (`place_order` drops the book before it pushes its fills).
* A snapshot that is used after other writers had the mutex (the hook).
* Passes in which every step depends on the fund or the deficit the earlier
  ones left (scan, ADL), with saturation, truncation and ties at the edges.
* A book whose map keys and queues are kept consistent by hand.
* Snapshots and rollbacks of whole maps (the revert guard) beside other
  writers of the same maps.
* Rounds that fail, streams that arrive in part, transactions that are
  executed more than once.
* State that is saved in two files which a crash can leave of different runs,
  and clocks and prices that are aged by block time across restarts.
* Tasks that must end with the one they serve: forwarder, engine, pollers.

`PROJECT.json` lists these hazards, each at its line, with the properties that
would catch it or the reason why none does.

## 2. Modules

| Module | Models | Extends |
| --- | --- | --- |
| `Clob` | `crates/clob`: submit, matching loop, cancel | |
| `PriceTimeBook` | what an order book promises, abstractly | |
| `ClobRefinement` | the refinement mapping from `Clob` to `PriceTimeBook` | `Clob` |
| `ClobProofs` | theorems about `Clob` and its refinement | `ClobRefinement`, `TLAPS` |
| `Clearing` | `crates/clearing`: fill and margin arithmetic | |
| `Bridge` | the bridge's order and collateral paths and the precompiles, two threads | `Clob`, `Clearing` |
| `RevertGuard` | `revert_guard.rs` with snapshot and restore, several EVMs and the node's thread | |
| `Liquidation` | `crates/liquidation`: scan, insurance fund, ADL | `Clearing` |
| `Settlement` | the commit hook's write-backs and `crates/funding`, with concurrent deposits | `Liquidation` |
| `Vault` | `crates/vault`, with its part of tick and snapshot | |
| `Oracle` | `crates/oracle`, state and operators | |
| `Coordinator` | `crates/node` and the daemon around it: hook, event replay, state files, boot | `Oracle` |
| `Validators` | validator sets and proposer selection | |
| `EngineApp` | `run_engine_app` and the block side of the bridge, several validators | `Validators` |
| `MCEngineApp` | voting powers for checking `EngineApp` | `EngineApp` |
| `Runner` | the synchronous runners, the devnet loop, the in-memory bridge | `Validators` |
| `Wire` | signing bytes, signatures and codec of consensus messages | |
| `Daemon` | boot and shutdown of a process, the forwarder of `node.rs`, RPC subscriptions | |
| `SumTheorems` | lemmas: sums over finite sets and over `1..n`, integer division | `TLAPS` |
| `BridgeProofs` | theorems about `Bridge` and `Clearing` | `Bridge`, `ClobProofs`, `SumTheorems` |
| `SettlementProofs` | theorems about `Liquidation` and `Settlement` | `Settlement`, `SumTheorems` |
| `RevertGuardProofs` | theorems about `RevertGuard` | `RevertGuard` |
| `CoordinatorProofs` | theorems about `Coordinator`, `Oracle` and `Vault` | `Coordinator`, `Vault`, `SumTheorems` |
| `NodeProofs` | theorems about `EngineApp` and `Daemon` | `EngineApp`, `Daemon`, `SumTheorems` |
| `ConsensusProofs` | theorems about `Wire` and `Runner` | `Wire`, `Runner`, `TLAPS` |

A definition named `X_Y` is a mutated form of `X`: a plausible bug, kept beside
the code it mutates, that the properties are tested against. No specification
uses one.

### Clob

`book[s][p]` is the queue of side `s` at price `p`; `levels[s]` is the set of
keys of that side's `BTreeMap`. They are two variables because the code keeps
them consistent by hand. `Book::submit` is a loop: `Submit` enters it,
`MatchAtLevel(p)` is one iteration (the loops of `submit_limit` and
`submit_market` differ in the limit check only), `Rest` and `Return` leave it.
While `matching` holds nothing else is enabled: callers hold the book's mutex.
`log` is history: every submitted order with what was filled and what was
discarded or cancelled. Order ids are the caller's and may repeat.

### Clearing

Pure operators. The code computes in `i128` and saturates to `i64`; `MaxI64`
is a constant, `Int` stands for `i128`. The saturating products of the new
average (`clearing/src/lib.rs:223-231`) are therefore exact here, as they are
in the code for every size and price that fits in 64 bits.

### Bridge

One step is what a thread does between taking or releasing a mutex and the
next. `CallSubmit`, `MatchStep` and `SubmitDone` run the book of module `Clob`
under its mutex; `NodePush` and `NodeApply` are the rest of `submit_order`,
with the book still locked; `EvmPush` is the rest of `place_order`, with the
book unlocked. `EvmWithdraw` takes the accounts' mutex, `EvmDebit` reads the
effective mark (and waits for the book's mutex when no oracle index is
installed), decides and unlocks. The bridge's own withdraw does it the other
way round: `NodeWithdraw` reads the mark, `NodeDebit` takes the mutex and
decides. `Health` and `HealthRead` are `margin_health`. `SetIndex` and
`InstallIndex` are the two writes of `set_oracle_index_price`, to the bridge's
cell and to the precompiles' global; `BuildPayload` is the drain of the fill
buffer. `executed`, `loaded`, `cash` and `slack` are history: every fill, the
positions at the start, what each account deposited and was paid, and how far
rounding of entry prices can have moved it.

The initial states are those at the end of a boot: mark orders on the book,
and either no account or a long and a short, with an index installed. Left
out: zero-quantity orders (`Clob` has them; they match and rest nothing),
cancels (no caller of the bridge cancels), the uninstalled state of the
globals (in `RevertGuard`), and malformed calldata, which the precompiles
refuse without touching state.

### RevertGuard

A global (accounts, book, fill buffer) is the set of the writes that stand in
it. `Enter` and `Leave` are REVM's call frames with the guard's hooks; creation
frames have none in the code. `Snapshot` and `Restore` go through the globals
one at a time, in the code's order, waiting for the book while `submit_order`
holds it. `Precompile`, `NodeCall` and `Write` are the writers, `Drain` is
`build_payload`. `Install` is the boot: book, sink and accounts come one after
the other while Reth is already executing calls, and a precompile needs the
ones it writes. The node's own calls come once all are installed. `writes`,
`opened` and `drained` are history: which frames were open when.

### Liquidation

`StartScan` to `EndScan` is `LiquidationScanner::scan`, one account per step:
`SkipAccount`, `CloseSolvent`, `CloseUnderwater`. `EndScan` hands an unfilled
deficit to `execute_adl`: `AdlClose` closes the best-ranked winner that is
left, `EndAdl` returns. `snap` and `mark` are inputs; integer division
truncates towards zero as Rust's does, and notional is capped at `u64`.

### Settlement

`TakeSnapshot` copies `live` and starts the tick, with any mark, any fresh
oracle index or none, and any decision of the funding clock. `TickOnSnapshot`
is a step of `Liquidation` on the copy. `ApplyFunding` and `ApplyRecords` are
the two `with_accounts_mut` calls; the loops over the records are written per
account (`LiquidationWriteBack`, then `AdlWriteBack`), for a scan and an ADL
pass make at most one record each for an account. An ADL quantity is taken as
it is: the code's cut at `i64::MAX` (`main.rs:1135`) never applies to the size
of a position, an `i64`, but for the most negative one. `EvmDeposit`, of either sign, may happen in
every gap; what it does to collateral is also what a withdrawal does. Initial
accounts are those that trading among themselves has led to: positions sum to
zero. The vault's mark-to-market (module `Vault`) and the oracle's part of the
hook (`Coordinator`) are not part of it.

### Vault

`total_shares` and `total_assets` are the vault; `held` is history, kept by the
callers. `MarkToMarket` is the vault's part of a tick, `TakeSnapshot` and
`Restore` its part of the coordinator's. The vault checks a withdrawal against
the total only; `Withdraw` asks for no more than the holder has.

### Oracle and Coordinator

`Oracle` has the state of `OracleState` and its functions as operators;
`Coordinator` runs them. A block is `Commit` (with its chain-history events: a
trade, which rests if its height is in `MakerHeights` and otherwise takes what
rests, and then a deposit; at `BadHeight` a second trade, without a price, comes
between the two and ends the block's events),
one `Ingest` per publisher, of any observation (late, from the future, with
price zero, signed by someone else), and `Tick`: refresh if due, the scan's
mark, the funding clock, the push of the index to the bridge. Block time is
the height: `engine_app` asks for timestamp 0 and the bridge raises it to the
parent's plus one. `EndRun` leads to `OpenFile` and `WriteFile` of the bridge's
and then the coordinator's file; `Crash` may come at any moment; `Boot` reads
the files, `Refuse` meets a truncated one, `SeedFails` a fixture that cannot be
replayed. `book` is in memory only: a boot starts with an empty one, so that an
order that rested before a restart is not there for a later taker
(`chain_history.rs:55-60`). `filled` is what the accounts have of the fills, and
is saved with them; `begun` is history. Orders of the seed and of the EVM on
the same book are in `Bridge`, not here: the chain-history file alone decides
what its trades meet. `Refuse` assumes an operator who clears both files after
the refusal. The code only names the malformed one (`main.rs:614-617`); an
operator who removes a truncated bridge file and keeps the coordinator's would
resume a chain of height zero with the clocks of a later one, and
`NothingFromTheFuture` would not hold.

### Validators and EngineApp

`Validators` has the sorted set and `select_proposer`. In `EngineApp` a block is
the sequence of bodies from genesis, which is what its hash commits to.
`GetValue` builds and publishes a stream of two parts (`Propose`), or fails for
a parent it cannot build on or for an error of Reth's payload builder;
`BufferPart` and `RegisterProposal` are `ReceivedProposalPart`; `Decided`
commits (new_payload and forkchoice update in `Executed`), calls the hook and
moves to the next height. Malachite is two actions: rounds advance at any
moment (`GetValue` for any later round), and `Decide` fixes one value per height
that a quorum holds. It reports it to validators that hold the value. `AppMsg`s
that the loop answers without changing state are left out.

The environment may fail in three ways, `MaxFaults` times in all. `Lose` drops
a part. `Garble` makes the bytes of a part ones that `register_proposed_block`
rejects (they do not decode, or the header does not hash to what they claim):
the error leaves the loop through `?` and the validator's loop has failed.
And Reth may refuse new_payload, the fork choice or both, which `commit`
ignores, or fail to build. Nothing else is assumed of the peers' bytes: a part
is the proposer's block or it is rejected, as the header's hash is the value
that is voted on. A payload on a parent that Reth does not know is taken as an
error of the builder, as Reth's generator answers; a comment on
`build_real_payload` says that the request hangs. The validator is out of
action either way.

### Runner

One run of `run_single_validator` or `run_multi_validator` at a time: `Begin`,
`Build`, `StartRound`, then `HandleOutput` for every output of the driver and
`FeedInput` for every input, until `Commit`, an error or `stuck`. `Process` is
Malachite's driver as far as the runner's inputs reach it. The peers' votes
are fed in any order (the code takes them from a `HashMap`).

### Wire

`votes` and `proposals` are what validators have signed. A signature is the key
and the bytes: `vote_signing_bytes` and `proposal_signing_bytes` keep their
layout and widths (numbers in little-endian two's complement; a hash and an
address are one byte, repeated). `Send` encodes a message: a signed vote or
proposal, a certificate that Malachite makes of the signatures of several
votes, a stream message, a log entry, a sync message. JSON is the Raw struct it
is written from, so a conversion is which fields it keeps. `Receive` decodes;
`Refuse` is a `CodecError`. Signatures of proposal parts and of vote extensions,
which this engine does not use, are left out.

### Daemon

`Launch` to `Shutdown` is `run_reth_devnet` around the engine loop: bridge cell,
validator key (load, or truncate and write), validator file and dial list
(`Configure`), `load_config`, `start()` with its three outcomes. `Take`, `Pass`
and `ForwarderEnd` are the forwarding task. `Subscribe`, `Poll`, `Send` and
`SendFails` are an RPC subscription, which Reth serves before the bridge
exists. An error of `start_engine` ends `start()` as one of `load_config` does
(`ConfigFails`). When the loop's task panics or is not done after 60 s,
`run_reth_devnet` returns at once and skips saving and `kill`
(`main.rs:1169-1172`): for the other tasks that is the end of the process, and
`Crash` stands for it.

## 3. What TLC checks

Every run finishes within three minutes with two workers. A module's type
invariant is checked as a conjunct of one of its properties (`TypeOK` of `IInv`,
`BridgeTypeOK` of `SubmittedFillsApplied`, and so on): a range matters where
another part of the property relies on it.

| Run | Bounds | Shows |
| --- | --- | --- |
| `clob` | 3 prices, quantities 0..2, 2 ids that may repeat, 3 orders | keys match queues, not crossed, conservation, price-time priority, `submit` returns; the inductive invariant `IInv` of the proofs (resting orders are exactly the unfilled parts, queues in order of arrival); `Clob` implements `PriceTimeBook` |
| `bridge` | 2 accounts, 2 prices, quantities 1..2, 2 mark orders, 3 calls of either thread | the fills of `submit_order` on both accounts, once (those of `place_order` on both or neither); average-entry accounting equals cash flow up to rounding; every fill in exactly one payload or on its way; withdrawals leave the margin at the mark they read; calls return |
| `settlement` | 3 accounts, sizes -2..2, entries 1..2, fund 0..1, one block, one deposit | report equals fund; shortfalls are accounted for; ADL by rank, for no more than the deficit; accounts that are not closed lose nothing to the stale snapshot; winners are paid; funding balances |
| `validators` | 2 validators (powers 1 and 3), 2 heights, rounds 0..1, 2 bodies, 1 fault (a part lost or malformed, a call Reth refuses) | chains and hook calls agree; a loop fails only for a malformed part, a refused payload or the builder; Reth follows what it does not refuse; buffers keep only what waits; a fill is in one place; who loses nothing and does not fail commits while a quorum is left |
| `revert_guard` | 2 EVMs and the node's thread, 3 frames, one of them while the globals are installed, 1 write | what a failed call leaves behind, what it takes away, and what it brings back |
| `vault` | 2 holders, deposits to 4, assets to 8, 2 marks, restarts | nobody is diluted; the last share empties the vault; shares are the holders' |
| `coordinator` | 3 feeds, 4 blocks, an order that rests at height 1, takers at 3 (malformed) and 4, 2 stops | index bounded by every majority; a price when there can be one; nothing from the future; deposits once, and fills unless a restart lost the resting order; settlements apart |
| `runner` | 0 to 6 validators, all orders of votes, 3 devnet rounds | a run decides; rounds form a chain; one payload per decision |
| `wire` | 2 validators, 2 heights, 2 rounds, 2 hashes, 2 signatures, 1 message | a signature verifies for what was signed and for nothing else; what is received is what was sent, and every signature in it can be checked |
| `daemon` | 2 boots, 2 entries, 2 subscribers, channel of 1, 3 messages, 2 changes | start returns and its forwarder ends; messages in order; one identity; subscribers catch up |

Why the bounds are enough for the interesting cases.

* `clob`: three orders over three prices give a level that is partly filled,
  emptied and filled again, a taker that walks two levels, a level between two
  others and an order exactly at the limit.
* `bridge`: with the two mark orders and the initial long and short, three
  calls reach increase, partial close, close, flip and self-trade, and let
  every pair of critical sections overlap with a third call in the gap.
* `settlement`: three accounts are one loser and two winners, or two losers
  that share a fund; margins (scale 10, thresholds 8 and 9, fee 5) are chosen
  so that each class of health, each fund outcome and ties of the score occur.
* `validators`: powers 1 and 3 make one validator a quorum alone, so that the
  other may fall behind by whole heights and rounds while parts are in flight;
  two heights make parents matter, two bodies make proposals of different
  rounds differ. The sorted set is not the order of addresses. One fault is
  enough for each of its effects; the safety properties are proved for any
  number (section 4).
* `revert_guard`: each property speaks of one write and of the frames around
  it; three frames are a nested pair in one EVM beside a third in the other,
  or three nested ones. One of them may begin at any point of the installation,
  and so hold a copy that lacks some of the globals.
* `vault`: eight assets and deposits of up to four give every remainder of the
  two divisions.
* `coordinator`: a refresh every second block, freshness of one block and a
  funding interval of two, over four blocks and two stops, separate "not due",
  "due and failed", "too old" and "settled before the stop"; two stops allow a
  torn pair of files to be read and written again. A stop falls before the
  order, between the order and its taker at height 3, or after it; the taker at
  height 4 must find nothing in any case.
* `runner`: 1 to 6 validators pass every remainder of the two-thirds quorum,
  and the proposer is another validator from two on.
* `wire`: a collision of signing bytes is between two messages, and a
  certificate differs from a signed message from two signatures on; heights 1
  and 256 and bytes 0 and 1 make neighbouring fields look alike. The codec has
  no state, so one message is as good as several.

`MaxOrders`, `MaxCalls`, `MaxScans`, `MaxDeposits`, `MaxHeight`, `MaxStops`,
`MaxFrames`, `MaxEarly`, `MaxWrites`, `MaxMarks`, `MaxAssets`, `MaxRound`, `MaxFaults`,
`MaxSigned`, `MaxSent`, `MaxMsgs`, `MaxChanges`, `MaxBoots` and the like only cut behaviours short; runs
in which they are used up switch the deadlock check off. `clob` and `vault`
keep it on. Symmetry is used for the EVMs of `revert_guard`, which has no
liveness property.

### Fairness

* `Clob`, `Bridge`: weak fairness of a thread that is inside a call. The loop
  is sequential code, and a thread whose mutex is free gets it; the two
  threads compete a bounded number of times. Nobody is obliged to make a call.
* `EngineApp`: weak fairness of asking a proposer for a value, of delivery of
  what the network does not lose, of deciding a height for which a quorum holds
  a value, and of reporting it: what Malachite promises once rounds are long
  enough. Nothing repairs a lost part or restarts a loop that failed, so
  `CommitsUnlessLost` speaks of validators for which none was lost and whose
  loop has not failed, while the loops that have not failed are a quorum.
* `Runner`: weak fairness of its only thread.
* `Daemon`: weak fairness of the boot, of the forwarder, of each polling task
  and of the completion or failure of a send, all tasks of one tokio runtime.
  Not of the engine, the application loop, or the clients.

`RevertGuard`, `Settlement`, `Vault`, `Coordinator` and `Wire` check safety
only.

### Disagreements with the documentation

Two runs state what a document or a comment says and end in a counterexample.

* `bridge_lock_order`: without an oracle index, the withdraw precompile
  (accounts, then book) and `submit_order` (book, then accounts) can wait for
  each other for ever.
* `settlement_deltas`: the funding settlement of an account that is liquidated
  in the same block is overwritten.

Others were met while reading. They need no run, or restate one definition:

* Fills of the `place_order` precompile reach the payload and no account
  (`precompiles/mod.rs:540`; action `EvmPush`), though `docs/architecture.md:15`
  says that the bridge routes every CLOB fill through `apply_fill`, and
  `live_node.rs:89` that the account map is mutated by every fill the bridge
  sees. `SubmittedFillsApplied` demands it of the fills of `submit_order` and
  leaves it open for the others: it holds of this code, and would of one that
  applied them.
* `spawn_polling_subscription` is documented to exit when a poll finds nothing,
  so that the caller must subscribe again (`rpc.rs:316-318`). The loop skips such
  a poll and goes on (`rpc.rs:333-335`, as the comment on `read_bridge` says);
  `SubscribersCatchUp` follows the code, and a subscription made before the
  bridge is installed comes to life with it.
* Settlement. An account that both the scan and ADL close ends with the
  opposite position: the ADL write-back moves it by the snapshot's size
  (`main.rs:1137`), where `adl.rs:78` says "set their position size to zero".
  A negative equity smaller than notional / `MARGIN_SCALE` has ratio 0 and is
  `Liquidatable`, documented as equity of at least zero (`types.rs:49`). With
  equal thresholds a position exactly at the threshold is `Safe`
  (`margin_health` compares with a strict `<`), where the comment on
  `LiquidationParams` says `Liquidatable`.
* Consensus loop. A comment on restreaming says that a validator that missed
  the proposal syncs through `GetDecidedValue`; the loop answers that with
  nothing, and a validator that lost a part stays at its height. Fills drained
  into a payload that is not decided are not put back into the buffer, and
  `encode_proposed_block` does not carry the fills its comment mentions.
* `node.rs` documents the value payload as `ProposalOnly` and sets
  `ProposalAndParts`; `start()` passes the initial height although the loop may
  resume later. `main.rs` describes followers' Reth as staying at genesis,
  which `register_proposed_block` has made untrue, and its "clean shutdown
  regardless" does not hold for the timeout and for a panic of the task, whose
  `?` skips saving and `kill`. `LoadedValidatorSet` calls its addresses
  parallel to `set.validators()`; they are parallel to the file.
* `signing.rs` calls its encoding length-prefixed; it has no lengths. It is still
  injective (run `wire`): the only optional field has a tag, and the three
  lengths that occur (38, 70 and 76 bytes) differ.
* `revert_guard.rs` says it is not wired yet; `OpenHlEvmFactory` wires it.
  Creation frames have no hook, so a failed constructor keeps what its own
  precompile calls wrote, unless an enclosing call fails too.
* The bridge documents that its index is cleared when the oracle misses a
  refresh; the hook pushes the cached price as long as it is fresh.
* A chain-history trade without a price leaves the trades before it applied and
  persisted; the block's deposits, which come after all trades, are never made.
  Orders that rest on the book are in no file, so a restart between an order
  and its taker loses the fill, as `chain_history.rs:55-60` says; `EventsOnce`
  allows that and nothing else. The seed fixture's comment says that duplicate ids are rejected;
  the book accepts them.
* A subscription task whose client has gone ends at its next send, not at its
  next poll. An empty vault mints 1:1 whatever assets it was marked to, and a
  withdrawal that rounds to zero burns its shares.

## 4. What is proved

Every safety property that a run checks, invariant or action property, is also
the statement of a theorem: TLAPS proves it for every value of the constants that
satisfies the `ASSUME`s of the modules, where a run checks one small instance.
Each rests on an inductive invariant. Invariants that the runs check are seldom
inductive: they speak of what a caller sees, the induction needs what the code
keeps on the side.

| Module | Theorems | Invariant |
| --- | --- | --- |
| `ClobProofs` | `BookInvariant`, `TypeCorrect`, `LevelsMatchQueuesAlways`, `NeverCrossed`, `QuantityConserved`, `PriorityRespected`, `BookImplementsPriceTimeBook` | `IInv` |
| `BridgeProofs` | `BridgeKeepsBook`, `MutexesHeld`, `MarginKept`, `FillsDelivered`, `FillsAreApplied`, `ValueIsCash` | `CoreInv`, `DeliveryInv`, `LedgerInv` |
| `SettlementProofs` | `SettlementInvHolds`, `SettlementShortfallsAccounted`, `SettlementAdlAbsorbsDeficit`, `SettlementBystanders`, `SettlementWinnersArePaid`, `SettlementFundingBalances` | `SettlementInv` |
| `NodeProofs` | `EngineNoValidatorFails`, `EngineRethFollows`, `EngineChainsAgree`, `EngineStreamsWait`, `EngineFillsAttachedOnce` | `EngineInv` |
| | `DaemonOneIdentity`, `DaemonMessagesInOrder` | `DaemonInv` |
| `CoordinatorProofs` | `CoordNothingFromTheFuture`, `CoordEventsOnce`, `CoordSettlementsApart`, `CoordMajorityBoundsIndex`, `CoordHealthyFeedsGiveAPrice` | `CoordInv`, `BookInv` |
| | `VaultLastShareTakesAll`, `VaultOthersAreNotDiluted` | `VaultInv` |
| `RevertGuardProofs` | `GuardInvHolds`, `GuardFailedCallsLeaveNothing`, `GuardOnlyFailedCallsLoseWrites`, `GuardDrainedFillsStayDrained` | `GuardInv` |
| `ConsensusProofs` | `SignaturesBound`, `ArrivalsVerifiable` | `WireInv` |
| | `DecisionsAreChain` | `RunnerInv` |

A proof that a step keeps an invariant has one lemma per action, and under it a
step per conjunct. Facts about the operators are lemmas: what `Append`, a
division, a truncation, the median or a closing order do.

**Order book.** `NotCrossed` needs `LevelsMatchQueues`: a limit order rests only
when the best opposite *key* is outside its limit, and that says something about
the orders only if keys and queues agree. `NoOrderLost` needs
`RestingIsUnfilled` (a fill takes from the maker's log entry what it takes from
the queue), `QueuesInArrivalOrder` (no order is queued twice, so a fill or a
cancel concerns one entry), and `TakerAccounted`: the order being matched is not
on the book yet and `remaining` is what it has not been filled for. Price-time
priority, an action property, follows from `IInv` and the step of
`MatchAtLevel`: the first key is best, the front of a queue its oldest order.

The refinement of `PriceTimeBook` is a step simulation under `IInv`.
`RestingAfter` says what replacing one queue does to the set of resting orders
(order numbers are unique, so exactly the removed ones leave); with it a fill is
the abstract `Trade`, `cancel` the abstract `Cancel`, the two ends of a submit
are `Finish`. `FrontIsTradable` shows that the front of the best level is the
order the abstract book singles out, `NothingTradable` that the loop stops with
quantity left only when there is none: it looks at one key, the abstract book at
every order.

**Bridge.** The bridge's steps on the book are steps of `Clob` by one thread at
a time, so `IInv` holds of it too (`BridgeKeepsBook`), provided that nobody else
touches the book meanwhile: that is `LockInv`, which says of each point of a call
which mutexes its thread holds. `CoreInv` joins it with the types of the state
(saturated amounts are `i64` whatever happens, which is all that `MarginKept`
needs), with what a thread at that point has asked for, and with the fills it
has in hand. `DeliveryInv` counts: a fill occurs in `executed` as often as in
payloads, buffer, the thread's hands and the fills under way together, and
`Append`, `\o` and the drain move occurrences without changing the sum.

`LedgerInv` is the accounting. Fills are applied as a batch, a recursive function
over the sequence (`ApplyFills`); its induction is over the prefixes of the batch,
by a least prefix for which the claim fails. `BoughtInv` says that each position
is what was loaded and what the node's fills bought, and `Balanced` that
collateral less the cost of the open position is within `slack` of `cash`: one
case each for opening, increasing, reducing, closing and flipping, where only
the new average of an increase rounds, by less than the position's size. Both are
false once an amount saturates. Hypothesis `HaveRoom` is that the largest amounts
the bounds of a behaviour lead to are `i64`: `SizeBound` is what `MaxOrders`
orders can buy on top of what was loaded, `CollateralBound` what they can cost
together with `MaxCalls` deposits. `Bridge.cfg` satisfies it; `FitInv` carries it
through the steps. `BridgeAssumption` says that there are two accounts and two
mark orders, as in a devnet's boot.

**Liquidation and settlement.** Amounts saturate at the ends of `i64`, and where
they do none of the properties is true. The hypothesis `HaveRoom` says that the
largest amounts the bounds of a behaviour lead to are `i64`: `N` fees per scan
on top of the first fund, and `N` shortfalls. It is no more than that, it holds
of the instance TLC checks, and nothing else is assumed of margins, fees and
rates; `SettlementFundingBalances` also needs an account (`N # 0`). `RangeInv`
carries the bound: `Reach(s, d)` is how far collateral can be from zero after
`s` blocks and `d` deposits, and each stage of the hook adds its own part.
`FundingInv` says that the settlements are the sizes of the snapshot times *one*
factor: linearity of the sum and the bound on a truncation give the rest.
`HookInv` relates the live accounts to the snapshot at each stage of the hook,
`ScanInv` the fund to the report (records are in order of accounts, so no
account has two), `AdlInv` what ADL has taken to what there is to take: the PnL
of all winners is that of the candidates left and of those cut, and while some
deficit remains nobody who was cut keeps anything.

**Consensus loop.** `ValuesInv`: whatever is proposed or decided for a height is
built on the decision before it. `LoopInv`: a loop at height `h` has exactly the
decisions below `h`, its parent is the last of them and its hook was called for
each. `BridgeInv`: a block that is held has its timestamp until it is committed,
and Reth knows what was committed unless it has refused a payload, which is why
no lookup fails: every failed loop is traced to a malformed part, a refused
payload or the builder, for any number of faults. `StreamInv` and
`FreshInv`: both halves of a stream carry one part, the other half of a message
is buffered, under way or lost, and a proposer has not used the streams of the
rounds to come. `FillInv`: a fill is in the buffer or in one payload. Assumed of
Malachite is what `Decide` says: one value per height. `"none" \notin Bodies`
keeps the name for "no block" apart from blocks.

**Coordinator.** `DiskInv`: the coordinator's file is never of a later height
than the bridge's, since it is written second; files of one height agree on the
last settlement, unless a boot has read files of two runs. `RunInv` says the
same of a running process and the files it will replace, and that nothing in
memory is later than the head. `BookInv` is for the fills of `CoordEventsOnce`,
in memory and in the bridge's file: an order that a process of this chain has
submitted rests, has been taken by the first taker after it, or was lost to a
process that began since; and an order on the book is of this process, with no
taker since. The bound of the median is about any finite set
of feeds: more than half of them are at most the median and more than half at
least it, so every majority has one on either side; the deviation cap adds its
tolerance. `CoordHealthyFeedsGiveAPrice` has a hypothesis that the code does not
enforce, `RefreshInterval <= AggregateMaxAge + 1`; the defaults satisfy it (12 s
in `crates/node/src/lib.rs:105`, 60 s in `crates/oracle/src/types.rs:183`).
`BadHeight \in HistoryHeights \cup {0}` and `MakerHeights \subseteq
HistoryHeights` say that the malformed trade, if any, and the resting orders
are the history's.

**Revert guard.** `CopiesInv` is the heart: of every copy a guard holds it says
which writes it may lack (those made while its frame was open, or lost already)
and which it may still have (those that a frame below it in the same EVM, or a
frame that ran beside it, must take out). Putting a copy back then loses and
brings back exactly what the properties allow. `FrameInv`, `StackInv` and
`TodoInv` say which copy belongs to which frame, also half way through the three
globals; `LeftInv` is the property for frames whose rollback is not over.
`"node" \notin Evms` keeps the threads apart.

**Vault.** `VaultInv` is that the shares outstanding are the sum of the shares
held, in the vault and in the saved snapshot, and that a vault without shares
has no assets unless it was marked so. That nobody is diluted is arithmetic of
the two floors: a pool that grows in assets at least in proportion to its
shares.

**Daemon.** One identity: a key that was used is the one in the key file, and
the file is only rewritten when it held no key. Messages: what was handled, the
channel, the message in hand and the engine's channel, one after the other,
count up from one without a gap.

**Codec and signing.** Signing bytes are five parts side by side, none with its
length. All but the fourth have a fixed length; that one is a vote's value, which
begins with a tag, or a proposal's round, so the parts can be peeled off one by
one (`AlignedSplit`, `PartsBind`); the lengths 38, 70 and 76 keep votes for nil,
other votes and proposals apart. Heights and rounds up to 65535 are assumed
(`WireAssumption`): `LeBytes` spells out the two low bytes of a number and extends
the sign over the rest, as nil, -1, needs. `ArrivalsVerifiable` rests on a lemma
per codec: the Raw structs of a certificate keep exactly the fields from which
header and address rebuild each signed vote. `WireInv` says that everything sent
can be rebuilt like that, that every blob on the wire that decodes is the encoding
of something sent, and that nothing else was received.

**Runners.** `BlocksInv`: payloads have different ids, none above the count of
payloads built, and the decided ones link up to the parent of the run under way.
`CarryInv`: whatever lies between runner and driver (proposal, votes, inputs,
outputs) carries the value this run has built, or nil. `PhaseInv`: at most one
payload has been built beyond the decided ones, and from which phase on. A decision
is then for the run's own payload, whose parent is the head; how many votes make a
quorum plays no part in it. That there are enough is `RunDecides`, which TLC
checks.

**Sums.** `SumTheorems` shows that a sum over a finite set is well defined and
may be taken in any order, that it is monotonic and linear. The library's
induction rules cannot be instantiated here, so each is shown by a smallest
counterexample: a set of subsets, were it not empty, would have a smallest
member.

### Only model-checked

Liveness: `SubmitReturns` (`Clob`), `CallsReturn` (`Bridge`),
`CommitsUnlessLost` (`EngineApp`), `RunDecides` (`Runner`), `StartEndsCleanly` and
`SubscribersCatchUp` (`Daemon`). Fairness and `ENABLED` are out of the prover's
reach. The two runs that end in a counterexample are TLC's by nature.

## 5. What is not modelled

* ed25519 and JSON themselves: `Wire` takes a signature to be its key and bytes,
  and a blob to be the struct it was written from. The other modules carry what
  messages carry.
* `engine.rs`, an earlier bridge that only its tests use; `reth_node.rs`, a boot
  test; reader contracts, constant bytecode; the command line and printing.
* Malachite, Reth, REVM, libp2p: external, by how this code uses them. The
  consensus algorithm itself is not re-verified: `Decide` is its guarantee.
* Overflow of the book's midpoint above half the range of `u64`, saturation at
  the ends of `i64` and `u64` in the vault: amounts in the runs are small.
* Which executions belong to one transaction: the precompiles act on every
  execution, and so do the models.
* `revoke_publisher` and the unsigned `ingest`, which the node does not call.

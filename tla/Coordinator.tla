----------------------------- MODULE Coordinator -----------------------------
(***************************************************************************)
(* The coordinator of crates/node and the daemon around it: the hook       *)
(* bin/openhl runs for every committed block (chain-history events, one    *)
(* observation per publisher, the tick, the push of the oracle's index to  *)
(* the bridge, the funding settlement), the two state files written at the *)
(* end of a run, and the boot that reads them.  The process may stop at    *)
(* any moment.  The scan, ADL and the settlement's amounts are module      *)
(* Settlement's.                                                           *)
(*                                                                         *)
(* engine_app asks for timestamp 0 and the bridge raises it to the         *)
(* parent's plus one, so the time of block h of a chain whose genesis is   *)
(* at 0 is h.                                                              *)
(***************************************************************************)
EXTENDS Oracle, Sequences

CONSTANTS
  RefreshInterval,    \* oracle_refresh_interval_secs
  FundingInterval,    \* FundingParams::interval_secs
  HistoryHeights,     \* heights the chain-history file has events for
  MakerHeights,       \* the ones whose trade rests; the others' takes what rests
  BadHeight,          \* height whose last trade has no price, or 0
  MaxHeight,          \* bound: blocks of the chain
  MaxStops            \* bound: runs that end, in any way

ASSUME CoordinatorAssumption ==
  /\ RefreshInterval \in Nat /\ FundingInterval \in Nat
  /\ MaxHeight \in Nat /\ MaxStops \in Nat
  /\ HistoryHeights \subseteq 1..MaxHeight /\ MakerHeights \subseteq HistoryHeights
  /\ BadHeight \in HistoryHeights \cup {0}

VARIABLES
  phase,          \* where the process is
  replay,         \* whether it is run with --chain-history
  height,         \* bridge: blocks of the committed chain
  accounts,       \* bridge: accounts[h], deposits of block h in the accounts;
                  \* accounts[0] is the seed
  filled,         \* bridge: <<m, t>>, the accounts have the fill of block m's
                  \* order against block t's
  book,           \* bridge: heights whose order rests on the book, which no
                  \* file keeps
  begun,          \* history: heights at which the processes that made this
                  \* chain began
  funded,         \* bridge: block whose funding the accounts got last
  cell,           \* bridge: oracle_index_price, or NoPrice
  turn,           \* hook: the publisher whose observation is next
  last_refresh,   \* coordinator: last_oracle_refresh_at, or -1
  last_settled,   \* coordinator: the funding clock
  applied,        \* chain history: heights applied by this process
  disk,           \* the two state files
  torn,           \* history: a boot has read files of different runs
  stops           \* runs ended

bridgeVars == <<height, accounts, filled, book, begun, funded, cell>>
nodeVars == <<last_refresh, last_settled, applied>>
coordVars == <<oracleVars, phase, replay, bridgeVars, nodeVars, turn, disk, torn, stops>>

Absent == [kind |-> "absent"]
Truncated == [kind |-> "truncated"]
Heights == 0..MaxHeight

TakerHeights == HistoryHeights \ MakerHeights

\* The deposits of a block of the chain-history file, applied after its
\* trades.
EventsOf(h) == IF h \in HistoryHeights THEN 1 ELSE 0

-----------------------------------------------------------------------------
(* Mutated forms of definitions below.                                     *)

\* The refresh marker moves although the refresh failed.
RefreshMarker_Always(now) == now

\* The funding clock starts anew after a restart.
RestoredClock_Genesis(snap) == 0

\* The coordinator's file is written before the bridge's.
SaveOrder_Swapped == <<"coordinator", "bridge">>

\* Consensus resumes at the height of the last block.
ResumedHeight_Same(snap) == IF snap.height = 0 THEN 0 ELSE snap.height - 1

-----------------------------------------------------------------------------
SaveOrder == <<"bridge", "coordinator">>

\* BridgeSnapshot: chain, head and accounts, read under one mutex; not the
\* book. `begun` is history.
BridgeSnapshot ==
  [kind |-> "snapshot", height |-> height, accounts |-> accounts, filled |-> filled,
   funded |-> funded, begun |-> begun]

\* CoordinatorSnapshot: what the next boot cannot rebuild. `height` is
\* history.
CoordinatorSnapshot ==
  [kind |-> "snapshot", height |-> height, last_refresh |-> last_refresh,
   last_settled |-> last_settled, current |-> current]

SnapshotOf(file) == IF file = "bridge" THEN BridgeSnapshot ELSE CoordinatorSnapshot

EmptyBridge ==
  [height |-> 0, accounts |-> [h \in Heights |-> 0], filled |-> {}, funded |-> 0, begun |-> {}]
NewNode == [height |-> 0, last_refresh |-> -1, last_settled |-> 0, current |-> NoAggregate]

\* initial_height is one more than the blocks of the loaded chain.
ResumedHeight(snap) == snap.height

RestoredClock(snap) == snap.last_settled

CoordInit ==
  /\ OracleInit
  /\ phase = "down"
  /\ replay \in BOOLEAN
  /\ height = 0 /\ accounts = EmptyBridge.accounts /\ filled = {} /\ book = {}
  /\ begun = {} /\ funded = 0 /\ cell = NoPrice
  /\ last_refresh = -1 /\ last_settled = 0 /\ applied = {}
  /\ turn = 1
  /\ disk = [file \in {"bridge", "coordinator"} |-> Absent]
  /\ torn = FALSE /\ stops = 0

\* The bridge's file: chain, head and accounts, or none at the first boot.
LoadedBridge == IF disk["bridge"] = Absent THEN EmptyBridge ELSE disk["bridge"]

LoadedCoordinator == IF disk["coordinator"] = Absent THEN NewNode ELSE disk["coordinator"]

\* The accounts are seeded if none was loaded and no chain history is given.
Seeded(accts) ==
  IF replay \/ \E h \in Heights : accts[h] > 0 THEN accts ELSE [accts EXCEPT ![0] = @ + 1]

\* run_reth_devnet up to the engine loop: the bridge's file, then the
\* coordinator's, then the publishers are registered and the accounts seeded.
Boot ==
  /\ phase = "down"
  /\ \A file \in DOMAIN disk : disk[file] # Truncated
  /\ height' = ResumedHeight(LoadedBridge)
  /\ accounts' = Seeded(LoadedBridge.accounts)
  /\ filled' = LoadedBridge.filled
  /\ book' = {}
  /\ begun' = LoadedBridge.begun \cup {ResumedHeight(LoadedBridge)}
  /\ funded' = LoadedBridge.funded
  /\ last_refresh' = LoadedCoordinator.last_refresh
  /\ last_settled' = RestoredClock(LoadedCoordinator)
  /\ current' = LoadedCoordinator.current
  /\ torn' = (torn \/ LoadedBridge.height # LoadedCoordinator.height)
  /\ feeds' = [f \in Feeds |-> NoRecord]
  /\ RegisterPublishers
  /\ cell' = NoPrice /\ applied' = {}
  /\ turn' = 1
  /\ phase' = "idle"
  /\ UNCHANGED <<replay, disk, stops>>

\* A file that does not parse ends the boot; the operator clears the data
\* directory.
Refuse ==
  /\ phase = "down"
  /\ \E file \in DOMAIN disk : disk[file] = Truncated
  /\ disk' = [file \in DOMAIN disk |-> Absent]
  /\ torn' = FALSE
  /\ UNCHANGED <<oracleVars, phase, replay, bridgeVars, nodeVars, turn, stops>>

\* A seed fixture that cannot be read, or has a limit trade without a price,
\* ends the boot; the trades before it were made in memory only.
SeedFails ==
  /\ phase = "down" /\ stops < MaxStops
  /\ \A file \in DOMAIN disk : disk[file] # Truncated
  /\ Seeded(LoadedBridge.accounts) # LoadedBridge.accounts
  /\ stops' = stops + 1
  /\ UNCHANGED <<oracleVars, phase, replay, bridgeVars, nodeVars, turn, disk, torn>>

\* apply_for_height: a height is marked as applied before its events run, and
\* a trade without a price stops after the trades before it and before the
\* deposits.
Applies(h) == replay /\ EventsOf(h) > 0 /\ h \notin applied

EventsRun(h) == IF h = BadHeight THEN 0 ELSE EventsOf(h)

\* submit_order of block h's trade: a limit order that crosses nothing rests,
\* a market order takes all that rests, or finds nothing.
BookAfter(h) == IF h \in MakerHeights THEN book \cup {h} ELSE {}

FillsOf(h) == IF h \in MakerHeights THEN {} ELSE {<<m, h>> : m \in book}

\* A block is committed and the hook begins with its chain-history events;
\* their error ends the run.
Commit ==
  LET h == height + 1
  IN /\ phase = "idle"
     /\ height < MaxHeight
     /\ height' = h
     /\ IF Applies(h)
        THEN /\ applied' = applied \cup {h}
             /\ book' = BookAfter(h) /\ filled' = filled \cup FillsOf(h)
             /\ accounts' = [accounts EXCEPT ![h] = @ + EventsRun(h)]
        ELSE UNCHANGED <<accounts, filled, book, applied>>
     /\ phase' = IF Applies(h) /\ h = BadHeight THEN "stopping" ELSE "ingest"
     /\ UNCHANGED <<oracleVars, replay, begun, funded, cell, last_refresh, last_settled, turn,
                    disk, torn, stops>>

\* Who signs: a publisher, or somebody whose key is registered for no feed.
Signers == Keys \cup {NoKey}

Observations ==
  [feed : {turn}, price : Prices \cup {0}, ts : {height - 1, height, height + 1},
   key : Signers]

\* One observation per publisher, in the order of the feeds.
Ingest ==
  /\ phase = "ingest" /\ turn \in Feeds
  /\ \E obs \in Observations : IngestSigned(obs, height)
  /\ turn' = turn + 1
  /\ UNCHANGED <<publishers, current, phase, replay, bridgeVars, nodeVars, disk,
                 torn, stops>>

RefreshDue(now) ==
  last_refresh = -1 \/ SaturatingSub(now, last_refresh) >= RefreshInterval

\* maybe_refresh_oracle moves its marker only on success.
RefreshMarker(now) == IF AggregateIndex(Fresh(now)) = NoPrice THEN last_refresh ELSE now

\* The index the hook installs in the bridge, or clears.
Pushed(now) == PriceFreshAt(current', now)

\* The rest of the hook: the tick (refresh if it is due, the mark of the
\* scan, the funding clock), the push to the bridge, and the settlement.
Tick ==
  /\ phase = "ingest" /\ turn > NumFeeds
  /\ IF RefreshDue(height)
     THEN current' = Refreshed(height) /\ last_refresh' = RefreshMarker(height)
     ELSE UNCHANGED <<current, last_refresh>>
  /\ IF PriceFreshAt(current', height) # NoPrice /\ height >= last_settled + FundingInterval
     THEN last_settled' = height /\ funded' = height
     ELSE UNCHANGED <<last_settled, funded>>
  /\ cell' = Pushed(height)
  /\ turn' = 1
  /\ phase' = "idle"
  /\ UNCHANGED <<feeds, publishers, replay, height, accounts, filled, book, begun, applied, disk,
                 torn, stops>>

\* The process ends and its memory is gone.
Gone ==
  /\ phase' = "down"
  /\ feeds' = [f \in Feeds |-> NoRecord]
  /\ publishers' = [f \in Feeds |-> NoKey]
  /\ current' = NoAggregate
  /\ height' = 0 /\ accounts' = EmptyBridge.accounts /\ filled' = {} /\ book' = {}
  /\ begun' = {} /\ funded' = 0 /\ cell' = NoPrice
  /\ last_refresh' = -1 /\ last_settled' = 0 /\ applied' = {}
  /\ turn' = 1
  /\ stops' = stops + 1

\* run_engine_app returns, with the decisions it was asked for or an error.
EndRun ==
  /\ phase = "idle" /\ stops < MaxStops
  /\ phase' = "stopping"
  /\ UNCHANGED <<oracleVars, replay, bridgeVars, nodeVars, turn, disk, torn, stops>>

\* std::fs::write of one file: it truncates, and then writes.
OpenFile(n) ==
  /\ phase = IF n = 1 THEN "stopping" ELSE "saved1"
  /\ stops < MaxStops
  /\ disk' = [disk EXCEPT ![SaveOrder[n]] = Truncated]
  /\ phase' = IF n = 1 THEN "save1" ELSE "save2"
  /\ UNCHANGED <<oracleVars, replay, bridgeVars, nodeVars, turn, torn, stops>>

WriteFile(n) ==
  /\ phase = IF n = 1 THEN "save1" ELSE "save2"
  /\ disk' = [disk EXCEPT ![SaveOrder[n]] = SnapshotOf(SaveOrder[n])]
  /\ IF n = 1
     THEN /\ phase' = "saved1"
          /\ UNCHANGED <<oracleVars, bridgeVars, nodeVars, turn, stops>>
     ELSE Gone
  /\ UNCHANGED <<replay, torn>>

\* The process dies, or the 60 s timeout or a panic of the task ends it
\* before anything is written.
Crash ==
  /\ phase # "down" /\ stops < MaxStops
  /\ Gone
  /\ UNCHANGED <<replay, disk, torn>>

CoordNext ==
  \/ Boot \/ Refuse \/ SeedFails \/ Commit \/ Ingest \/ Tick \/ EndRun \/ Crash
  \/ \E n \in 1..2 : OpenFile(n) \/ WriteFile(n)

CoordSpec == CoordInit /\ [][CoordNext]_coordVars

-----------------------------------------------------------------------------
(* Properties.                                                             *)

\* The types of the oracle's, the bridge's and the coordinator's state: no
\* record or aggregate has a zero price. A part of NothingFromTheFuture.
CoordTypeOK ==
  /\ \A f \in Feeds : feeds[f] = NoRecord \/ (feeds[f].price \in Prices /\ feeds[f].ts \in Heights)
  /\ publishers \in [Feeds -> Keys \cup {NoKey}]
  /\ current = NoAggregate \/ (current.index \in Nat \ {0} /\ current.at \in Heights)
  /\ height \in Heights /\ funded \in Heights /\ cell \in Nat
  /\ turn \in 1..NumFeeds + 1
  /\ last_refresh \in Heights \cup {-1} /\ last_settled \in Heights

\* No minority of the feeds sets the price: right after a refresh the index
\* is within the deviation cap of a price that lies between the prices of
\* any strict majority of the fresh feeds (compute_median, aggregate_index).
MajorityBoundsIndex ==
  phase = "idle" /\ current.at = height =>
    \A H \in SUBSET Fresh(height) : 2 * Cardinality(H) > Cardinality(Fresh(height)) =>
      LET reported == {feeds[f].price : f \in H}
      IN \E p \in Min(reported)..Max(reported) : DeviationBps(current.index, p) <= MaxDeviation

\* Feeds that can be aggregated give a usable price after every block: a
\* refresh that fails is tried again at the next block, and one that is not
\* due leaves a price that is not yet too old, across restarts
\* (maybe_refresh_oracle, current_price_fresh_at).
HealthyFeedsGiveAPrice ==
  phase = "idle" /\ AggregateIndex(Fresh(height)) # NoPrice
    => PriceFreshAt(current, height) # NoPrice

\* No cached price, observation or settlement is later than the chain's
\* head: an age measured with a saturating subtraction would count such a
\* price as fresh for ever. It is so because the coordinator's file is
\* never newer than the bridge's.
NothingFromTheFuture ==
  /\ CoordTypeOK
  /\ phase \in {"idle", "ingest"} =>
       /\ current.at <= height /\ last_refresh <= height /\ last_settled <= height
       /\ \A f \in Feeds : feeds[f].ts <= height

\* Two settlements are at least the funding interval apart on the accounts,
\* through stops and restarts, unless the process died between the two
\* files (FundingClock::tick, load_snapshot).
SettlementsApart ==
  [][phase' = "idle" /\ funded' > funded /\ phase = "ingest" /\ ~torn
       => funded' - funded >= FundingInterval]_coordVars

\* The fills of the file's trades in a run that never stops: each order that
\* rests is taken by the first taker after it.
Matches ==
  {p \in MakerHeights \X TakerHeights :
     p[1] < p[2] /\ \A x \in TakerHeights : x <= p[1] \/ x >= p[2]}

\* A process began between the order and its taker.
BookLost(p) == \E r \in begun : p[1] <= r /\ r < p[2]

\* Through any stops, losses of files and boots, the accounts have the
\* deposits of every block of the chain once, and the seed once; only the
\* deposits of a block with a malformed trade are never made up for. They
\* have no fill that a run without stops would not make, and lack one only
\* if a process began between the order and its taker, as resting orders do
\* not survive it (apply_for_height, the height a boot resumes at,
\* accounts_already_loaded).
EventsOnce ==
  phase = "idle" =>
    /\ \A h \in Heights :
         accounts[h] = IF h = 0 THEN IF replay THEN 0 ELSE 1
                       ELSE IF replay /\ h <= height /\ h # BadHeight THEN EventsOf(h)
                            ELSE 0
    /\ \A p \in filled : replay /\ p \in Matches /\ p[2] <= height
    /\ replay => \A p \in Matches : p[2] <= height => p \in filled \/ BookLost(p)
=============================================================================

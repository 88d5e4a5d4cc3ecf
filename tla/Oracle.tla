------------------------------- MODULE Oracle -------------------------------
(***************************************************************************)
(* The price oracle of crates/oracle: the last observation of every feed,  *)
(* the registered publisher keys, and the aggregate of the last successful *)
(* refresh, which is the median of the fresh feeds after those that        *)
(* deviate too far from a first median are dropped.                        *)
(***************************************************************************)
EXTENDS Integers, FiniteSets, FiniteSetsExt

CONSTANTS
  NumFeeds,           \* feeds are 1..NumFeeds
  Prices,             \* prices publishers report; the code refuses zero
  Keys,               \* publisher keys
  StalenessWindow,    \* OracleParams, in seconds
  MinFeeds,
  MaxDeviation,       \* in parts of DeviationScale
  DeviationScale,
  AggregateMaxAge

ASSUME OracleAssumption ==
  /\ NumFeeds \in Nat /\ Prices \subseteq Nat /\ MinFeeds \in Nat
  /\ StalenessWindow \in Nat /\ AggregateMaxAge \in Nat
  /\ MaxDeviation \in Nat /\ DeviationScale \in Nat \ {0}

VARIABLES
  feeds,        \* feeds[f]: last_price and last_timestamp, or NoRecord
  publishers,   \* publishers[f]: the registered key, or NoKey
  current       \* the cached AggregatedPrice, or NoAggregate

oracleVars == <<feeds, publishers, current>>

Feeds == 1..NumFeeds
NoRecord == [price |-> 0, ts |-> -1]
NoKey == "none"
NoPrice == 0
NoAggregate == [index |-> NoPrice, at |-> -1]

SaturatingSub(a, b) == IF a < b THEN 0 ELSE a - b

IsStale(ts, now) == ts < SaturatingSub(now, StalenessWindow)

-----------------------------------------------------------------------------
(* Mutated forms of definitions below.                                     *)

\* sorted[n / 2 + 1]: one past the middle of an odd number of prices.
Middle_OneTooHigh(n) == IF n = 1 THEN 1 ELSE (n \div 2) + 2

-----------------------------------------------------------------------------
\* Index, from 1, of the upper middle of n sorted prices.
Middle(n) == (n \div 2) + 1

\* The k-th smallest price of the feeds F.
Smallest(F, k) ==
  Min({feeds[f].price : f \in {g \in F :
         Cardinality({h \in F : feeds[h].price <= feeds[g].price}) >= k}})

\* compute_median: the mean of the two middle prices for an even number.
Median(F) ==
  LET n == Cardinality(F)
  IN IF n % 2 = 1 THEN Smallest(F, Middle(n))
     ELSE (Smallest(F, n \div 2) + Smallest(F, (n \div 2) + 1)) \div 2

DeviationBps(price, reference) ==
  ((IF price < reference THEN reference - price ELSE price - reference) * DeviationScale)
    \div reference

FilterByDeviation(F, reference) ==
  {f \in F : DeviationBps(feeds[f].price, reference) <= MaxDeviation}

\* aggregate_index: NoPrice when too few feeds are left before or after the
\* filter.
AggregateIndex(F) ==
  LET few(G) == G = {} \/ Cardinality(G) < MinFeeds
      kept == FilterByDeviation(F, Median(F))
  IN IF few(F) THEN NoPrice ELSE IF few(kept) THEN NoPrice ELSE Median(kept)

\* Feeds whose last observation is inside the staleness window.
Fresh(now) == {f \in Feeds : feeds[f] # NoRecord /\ ~IsStale(feeds[f].ts, now)}

\* register_publisher, for every feed; a key replaces the one before.
RegisterPublishers == publishers' \in [Feeds -> Keys]

OracleInit ==
  /\ feeds = [f \in Feeds |-> NoRecord]
  /\ publishers = [f \in Feeds |-> NoKey]
  /\ current = NoAggregate

\* The checks of validate_and_store: not from the future, not stale, not
\* zero, not older than the feed's last.
Valid(obs, now) ==
  /\ obs.ts <= now
  /\ ~IsStale(obs.ts, now)
  /\ obs.price # 0
  /\ obs.ts >= feeds[obs.feed].ts

\* verify_observation: the signature is the registered key's.
Verified(obs) == publishers[obs.feed] # NoKey /\ obs.key = publishers[obs.feed]

\* ingest_signed; a rejected observation is logged and changes nothing.
IngestSigned(obs, now) ==
  feeds' = IF Verified(obs) /\ Valid(obs, now)
           THEN [feeds EXCEPT ![obs.feed] = [price |-> obs.price, ts |-> obs.ts]]
           ELSE feeds

\* refresh: a failure leaves the cached aggregate alone.
Refreshed(now) ==
  LET index == AggregateIndex(Fresh(now))
  IN IF index = NoPrice THEN current ELSE [index |-> index, at |-> now]

\* current_price_fresh_at
PriceFreshAt(aggregate, now) ==
  IF aggregate # NoAggregate /\ SaturatingSub(now, aggregate.at) <= AggregateMaxAge
  THEN aggregate.index ELSE NoPrice
=============================================================================

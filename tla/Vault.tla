-------------------------------- MODULE Vault --------------------------------
(***************************************************************************)
(* The vault of crates/vault: shares of a pool of assets, minted by        *)
(* deposits, burned by withdrawals, and repriced by mark_to_market.        *)
(* The vault keeps the two totals; who holds which shares is kept by its   *)
(* callers, and is history here.  The coordinator's tick marks the vault   *)
(* with a value its caller read before, and a restart restores the totals  *)
(* from the coordinator's snapshot.                                        *)
(***************************************************************************)
EXTENDS Integers, FiniteSets, FiniteSetsExt

CONSTANTS
  Holders,      \* who may hold shares
  MinDeposit,   \* VaultParams::min_deposit
  MaxDeposit,   \* greatest deposit
  MaxAssets,    \* bound: assets and shares stay in -MaxAssets..MaxAssets
  MaxMarks      \* bound: profits and losses marked in one behaviour

ASSUME VaultAssumption ==
  /\ IsFiniteSet(Holders)
  /\ MinDeposit \in Int
  /\ MaxDeposit \in Nat /\ MaxAssets \in Nat /\ MaxMarks \in Nat

VARIABLES
  total_shares,
  total_assets,
  snapshot,     \* the totals in the coordinator's snapshot
  held,         \* history: held[h], shares of h
  kept,         \* history: the shares of each holder at the snapshot
  seeded,       \* history: assets were marked while there were no shares
  marks         \* profits and losses counted against MaxMarks

vaultVars == <<total_shares, total_assets, snapshot, held, kept, seeded, marks>>

NoShares == [shares |-> 0, assets |-> 0]

-----------------------------------------------------------------------------
(* Mutated forms of definitions below.                                     *)

\* The division rounds up.
AssetsToShares_RoundUp(a) ==
  IF total_shares = 0 THEN a ELSE (a * total_shares + total_assets - 1) \div total_assets

\* The share price is that of a vault with one share more.
SharesToAssets_OneMore(s) == (s * total_assets) \div (total_shares + 1)

-----------------------------------------------------------------------------
IsInsolvent == total_shares > 0 /\ total_assets <= 0

\* assets_to_shares: 1:1 as long as there are no shares, whatever the assets.
AssetsToShares(a) ==
  IF total_shares = 0 THEN a ELSE (a * total_shares) \div total_assets

\* shares_to_assets
SharesToAssets(s) == (s * total_assets) \div total_shares

\* The checks of deposit, those of assets_to_shares included.
Accepts(a) ==
  /\ a > 0 /\ a >= MinDeposit
  /\ ~IsInsolvent
  /\ AssetsToShares(a) # 0

VaultInit ==
  /\ total_shares = 0 /\ total_assets = 0
  /\ snapshot = NoShares
  /\ held = [h \in Holders |-> 0]
  /\ kept = held
  /\ seeded = FALSE
  /\ marks = 0

Deposit(h, a) ==
  /\ Accepts(a)
  /\ total_assets + a <= MaxAssets /\ total_shares + AssetsToShares(a) <= MaxAssets
  /\ total_shares' = total_shares + AssetsToShares(a)
  /\ total_assets' = total_assets + a
  /\ held' = [held EXCEPT ![h] = @ + AssetsToShares(a)]
  /\ UNCHANGED <<snapshot, kept, seeded, marks>>

\* A holder asks for no more shares than it has; withdraw itself compares
\* with the total.
Withdraw(h, s) ==
  /\ s > 0 /\ s <= held[h] /\ s <= total_shares
  /\ ~IsInsolvent
  /\ total_shares' = total_shares - s
  /\ total_assets' = total_assets - SharesToAssets(s)
  /\ held' = [held EXCEPT ![h] = @ - s]
  /\ UNCHANGED <<snapshot, kept, seeded, marks>>

\* A tick marks the vault with the value of its positions.
MarkToMarket(new) ==
  /\ marks < MaxMarks
  /\ new # total_assets
  /\ marks' = marks + 1
  /\ total_assets' = new
  /\ seeded' = (seeded \/ total_shares = 0)
  /\ UNCHANGED <<total_shares, snapshot, held, kept>>

\* The end of a run writes the totals to the coordinator's file.
TakeSnapshot ==
  /\ snapshot' = [shares |-> total_shares, assets |-> total_assets]
  /\ kept' = held
  /\ UNCHANGED <<total_shares, total_assets, held, seeded, marks>>

Restored == snapshot

\* load_snapshot in a new process; what happened since the snapshot is lost,
\* for the holders too.
Restore ==
  /\ total_shares' = Restored.shares
  /\ total_assets' = Restored.assets
  /\ held' = kept
  /\ UNCHANGED <<snapshot, kept, seeded, marks>>

Trade == \E h \in Holders : \/ \E a \in 1..MaxDeposit : Deposit(h, a)
                            \/ \E s \in 1..MaxAssets : Withdraw(h, s)

VaultNext ==
  \/ Trade
  \/ \E new \in -1..MaxAssets : MarkToMarket(new)
  \/ TakeSnapshot
  \/ Restore

VaultSpec == VaultInit /\ [][VaultNext]_vaultVars

-----------------------------------------------------------------------------
(* Properties.                                                             *)

\* The totals keep their type, and the shares outstanding are the shares the
\* holders have, through every rounding and restart. A part of
\* LastShareTakesAll.
VaultTypeOK ==
  /\ total_shares \in Nat /\ total_assets \in Int
  /\ total_shares = MapThenSumSet(LAMBDA h : held[h], Holders)

\* What a holder could take out now.
Claim(h) == IF total_shares = 0 \/ total_assets <= 0 THEN 0 ELSE SharesToAssets(held[h])

\* A deposit or a withdrawal of one holder never lowers what another could
\* take out, whatever was deposited, withdrawn and marked before: rounding
\* is always at the cost of the one who acts (assets_to_shares,
\* shares_to_assets).
OthersAreNotDiluted ==
  [][Trade => \A h \in Holders : held'[h] = held[h] => Claim(h)' >= Claim(h)]_vaultVars

\* Rounding strands nothing: when the last share is burned the vault is
\* empty, unless it was marked to a value while nobody had shares.
LastShareTakesAll ==
  /\ VaultTypeOK
  /\ total_shares = 0 /\ ~seeded => total_assets = 0
=============================================================================

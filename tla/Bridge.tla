------------------------------- MODULE Bridge -------------------------------
(***************************************************************************)
(* The EVM bridge of crates/evm: one order book, one account map and one   *)
(* fill buffer, shared by the node's thread (submit_order, deposit,        *)
(* withdraw, margin_health, build_payload, set_oracle_index_price) and the *)
(* EVM's (the precompiles).  The book is module Clob, entered by one       *)
(* thread at a time; the arithmetic is module Clearing.                    *)
(*                                                                         *)
(* A step of a thread is what it does between taking or releasing one      *)
(* mutex and the next.  submit_order keeps the book's mutex while it takes *)
(* the fill buffer's and then the accounts'; place_order drops it before   *)
(* the fill buffer's; the withdraw precompile keeps the accounts' mutex    *)
(* while it reads its mark, for which it takes the book's when no oracle   *)
(* index is installed; the bridge's withdraw and both margin_health read   *)
(* the mark first and take the accounts' mutex after.                      *)
(***************************************************************************)
EXTENDS Clob, Clearing, FiniteSets, FiniteSetsExt, TLC

CONSTANTS
  EvmPlacesOrders,    \* whether contracts call the place_order precompile
  MaxAmount,          \* greatest amount of one deposit or withdrawal
  MaxCalls            \* bound: calls of the two threads in one behaviour

ASSUME BridgeAssumption ==
  /\ EvmPlacesOrders \in BOOLEAN
  /\ MaxAmount \in Nat
  /\ MaxCalls \in Nat
  /\ MaxPrice > 0 /\ MaxQty > 0 /\ MaxOrders >= 2 /\ OrderIds # {}
  /\ \E a, b \in Accounts : a # b

VARIABLES
  clobLock,       \* holder of the book's mutex, or "free"
  accountsLock,   \* holder of the accounts' mutex, or "free"
  pc,             \* pc[t]: where thread t is in its call
  accounts,       \* account map; an account not in `known` is not in the map
  known,          \* keys of the account map
  pending,        \* pending_fills, which the EVM knows as FILL_SINK
  unsent,         \* fills place_order has not pushed to the sink yet
  request,        \* request[t]: the arguments of t's withdrawal or query
  held,           \* held[t]: the mark t has read for its call
  cell,           \* the bridge's oracle_index_price, or NoMark
  index,          \* ORACLE_INDEX_PRICE, which the EVM reads, or NoMark
  attached,       \* fills drained into payloads, in order
  executed,       \* history: every fill of the book, in order
  loaded,         \* history: the positions at the start
  cash,           \* history: deposits less withdrawals and less the cost of
                  \* the contracts bought, per account
  slack,          \* history: most that rounding entry prices can have
                  \* moved, per account
  calls           \* calls counted against MaxCalls

locks   == <<clobLock, accountsLock>>
ledger  == <<accounts, known, cash, slack>>
buffers == <<pending, unsent, attached>>
queries == <<request, held>>
oracle  == <<cell, index>>
bridgeVars == <<locks, pc, ledger, buffers, queries, oracle, executed, loaded, calls>>
allVars == <<vars, bridgeVars>>

Threads == {"node", "evm"}

-----------------------------------------------------------------------------
(* Fills as the bridge sees them, and what they do to the account map.     *)

BridgeFill(t, f) ==
  [by |-> t, maker |-> f.maker.account, taker |-> log[f.taker].order.account,
   price |-> f.price, qty |-> f.qty, side |-> f.maker_side]

\* `by` is history: the thread whose order made the fill.
BridgeFills(t) == [i \in 1..Len(fills) |-> BridgeFill(t, fills[i])]

\* Rounding a weighted mean down moves |size| * avg by less than |size|.
RoundingOf(acct, qty, side) ==
  IF Sign(acct.size) = SideSign(side) THEN Abs(acct.size) + qty - 1 ELSE 0

\* One side of a fill on the ledger [accts, cash, slack].
ApplyLeg(l, a, f, side) ==
  [accts |-> [l.accts EXCEPT ![a] = ApplyFill(@, f.price, f.qty, side)],
   cash  |-> [l.cash EXCEPT ![a] = @ - SideSign(side) * f.qty * f.price],
   slack |-> [l.slack EXCEPT ![a] = @ + RoundingOf(l.accts[a], f.qty, side)]]

\* Midpoint of the book, or NoMark when a side is empty.
CurrentMark ==
  IF levels["Buy"] = {} \/ levels["Sell"] = {} THEN NoMark
  ELSE LET bid == CHOOSE p \in levels["Buy"] : IsBest("Buy", p)
           ask == CHOOSE p \in levels["Sell"] : IsBest("Sell", p)
       IN (bid + ask) \div 2

\* Each thread has its own copy of the oracle's index.
IndexOf(t) == IF t = "node" THEN cell ELSE index

\* The installed oracle index, or else the midpoint.
EffectiveMark(t) == IF IndexOf(t) = NoMark THEN CurrentMark ELSE IndexOf(t)

\* Reading the midpoint takes the book's mutex.
MarkReadable(t) == IndexOf(t) = NoMark => clobLock = "free"

\* What a withdrawal takes out: all that was asked for, or nothing when it
\* exceeds the free collateral.
Paid(acct, amount, m) == IF amount <= WithdrawFreeCollateral(acct, m) THEN amount ELSE 0

-----------------------------------------------------------------------------
(* Mutated forms of definitions below.                                     *)

\* The taker is put on the maker's side of the fill.
ApplyBoth_SameSide(l, f) ==
  ApplyLeg(ApplyLeg(l, f.maker, f, f.side), f.taker, f, f.side)

\* place_order assigns the sink instead of extending it.
Extended_Overwrites(buffer, fs) == fs

\* withdraw keeps the accounts' mutex when it rejects the request.
UnlockAccounts_OnSuccessOnly(granted) == IF granted THEN "free" ELSE "evm"

\* The bridge's withdraw decides on the account it saw with the mark.
DebitedAccount_Stale(r) == r.seen

-----------------------------------------------------------------------------
\* The maker is on the side its order rested on, the taker opposite.
ApplyBoth(l, f) ==
  ApplyLeg(ApplyLeg(l, f.maker, f, f.side), f.taker, f, Opposite(f.side))

\* apply_fills_to_accounts: one fill after the other.
ApplyFills(l, fs) ==
  LET after[i \in 0..Len(fs)] == IF i = 0 THEN l ELSE ApplyBoth(after[i - 1], fs[i])
  IN after[Len(fs)]

Extended(buffer, fs) == buffer \o fs

UnlockAccounts(granted) == "free"

\* The bridge's withdraw decides on the account as it is under the mutex,
\* whatever has happened to it since the mark was read.
DebitedAccount(r) == accounts[r.account]

\* `seen` is history: the account when the call began.
Request(a, amount) == [account |-> a, amount |-> amount, seen |-> accounts[a]]

NoRequest == [account |-> 0, amount |-> 0, seen |-> Flat]

\* Two different accounts, the parties of the seeds.
Pair == CHOOSE x \in Accounts \X Accounts : x[1] # x[2]

\* A long and a short that met at price 1, as seed_accounts_via_fills leaves
\* them or load_snapshot restores them.
OnePairOpen ==
  LET met(n) == [size |-> n, avg |-> 1, collateral |-> 0]
  IN [a \in Accounts |-> IF a = Pair[2] THEN met(1) ELSE IF a = Pair[1] THEN met(-1) ELSE Flat]

\* A bid and an ask that give the book a midpoint, as seed_mark_orders or a
\* seed fixture places them.
SeedMarkOrders ==
  LET seed(a, s, p) == [id |-> CHOOSE i \in OrderIds : TRUE, account |-> a, side |-> s,
                        qty |-> MaxQty, type |-> "Limit", price |-> p]
      bid == seed(Pair[1], "Buy", 0)
      ask == seed(Pair[2], "Sell", MaxPrice)
      resting(n, o) == [n |-> n, id |-> o.id, account |-> o.account, qty |-> o.qty]
      queue(s, p) == IF s = "Buy" /\ p = 0 THEN <<resting(1, bid)>>
                     ELSE IF s = "Sell" /\ p = MaxPrice THEN <<resting(2, ask)>> ELSE <<>>
      entry(o) == [order |-> o, filled |-> 0, closed |-> 0]
  IN /\ book = [s \in Sides |-> [p \in Prices |-> queue(s, p)]]
     /\ levels = [s \in Sides |-> IF s = "Buy" THEN {0} ELSE {MaxPrice}]
     /\ log = <<entry(bid), entry(ask)>>
     /\ matching = FALSE /\ remaining = 0 /\ fills = <<>>

\* The bridge at the end of the boot: new, or resumed from a snapshot with
\* positions and an oracle index pushed since. No order survives a restart;
\* the mark orders are placed at every boot.
BridgeInit ==
  /\ SeedMarkOrders
  /\ clobLock = "free" /\ accountsLock = "free"
  /\ pc = [t \in Threads |-> "idle"]
  /\ \/ accounts = [a \in Accounts |-> Flat] /\ cell = NoMark
     \/ accounts = OnePairOpen /\ cell = MaxPrice
  /\ index = cell
  /\ known = {a \in Accounts : accounts[a] # Flat}
  /\ loaded = [a \in Accounts |-> accounts[a].size]
  /\ pending = <<>> /\ unsent = <<>> /\ attached = <<>> /\ executed = <<>>
  /\ request = [t \in Threads |-> NoRequest]
  /\ held = [t \in Threads |-> NoMark]
  /\ cash = [a \in Accounts |-> -(accounts[a].avg * accounts[a].size)]
  /\ slack = [a \in Accounts |-> 0]
  /\ calls = 0

\* What the node submits, of its own seeds or a fixture's or history's trades:
\* limit and market orders of either side. Orders of quantity zero match
\* nothing and rest nothing (see Clob); they are left out.
NodeOrders == {o \in Orders : o.qty > 0}

\* What place_order submits: limit orders, and none of quantity zero.
EvmOrders == IF EvmPlacesOrders THEN {o \in Orders : o.qty > 0 /\ o.type = "Limit"} ELSE {}

\* A deposit is signed: a negative one debits.
Amounts == {-MaxAmount, MaxAmount}

Count == calls < MaxCalls /\ calls' = calls + 1

\* A thread takes the book's mutex and enters Book::submit.
CallSubmit(t, o) ==
  /\ pc[t] = "idle"
  /\ clobLock = "free"
  /\ Count
  /\ Submit(o)
  /\ clobLock' = t
  /\ pc' = [pc EXCEPT ![t] = "matching"]
  /\ UNCHANGED <<accountsLock, ledger, buffers, queries, oracle, executed>>

MatchStep(t) ==
  /\ clobLock = t /\ pc[t] = "matching"
  /\ \E p \in Prices : MatchAtLevel(p)
  /\ UNCHANGED bridgeVars

\* Book::submit returns. submit_order keeps the mutex if there are fills to
\* push; place_order drops it in any case.
SubmitDone(t) ==
  LET more == fills # <<>>
  IN /\ clobLock = t /\ pc[t] = "matching"
     /\ Rest \/ Return
     /\ executed' = executed \o BridgeFills(t)
     /\ pc' = [pc EXCEPT ![t] = IF more THEN "push" ELSE "idle"]
     /\ clobLock' = IF t = "node" /\ more THEN "node" ELSE "free"
     /\ unsent' = IF t = "evm" THEN BridgeFills(t) ELSE unsent
     /\ UNCHANGED <<accountsLock, ledger, pending, attached, queries, oracle, calls>>

\* submit_order, still under the book's mutex.
NodePush ==
  /\ pc["node"] = "push"
  /\ pending' = Extended(pending, BridgeFills("node"))
  /\ pc' = [pc EXCEPT !["node"] = "apply"]
  /\ UNCHANGED <<vars, locks, ledger, unsent, attached, queries, oracle, executed, calls>>

\* The accounts, and the return of submit_order.
NodeApply ==
  LET fs == BridgeFills("node")
      l == ApplyFills([accts |-> accounts, cash |-> cash, slack |-> slack], fs)
  IN /\ pc["node"] = "apply"
     /\ accountsLock = "free"
     /\ accounts' = l.accts /\ cash' = l.cash /\ slack' = l.slack
     /\ known' = known \cup UNION {{f.maker, f.taker} : f \in ToSet(fs)}
     /\ clobLock' = "free"
     /\ pc' = [pc EXCEPT !["node"] = "idle"]
     /\ UNCHANGED <<vars, accountsLock, buffers, queries, oracle, executed, calls>>

\* place_order, the book's mutex already dropped. The fills reach the sink
\* and no account.
EvmPush ==
  /\ pc["evm"] = "push"
  /\ pending' = Extended(pending, unsent)
  /\ unsent' = <<>>
  /\ pc' = [pc EXCEPT !["evm"] = "idle"]
  /\ UNCHANGED <<vars, locks, ledger, attached, queries, oracle, executed, calls>>

\* deposit, by either thread; a negative amount debits, unchecked.
Deposit(t, a, amount) ==
  /\ pc[t] = "idle"
  /\ accountsLock = "free"
  /\ Count
  /\ accounts' = [accounts EXCEPT ![a].collateral = Saturate(@ + amount)]
  /\ known' = known \cup {a}
  /\ cash' = [cash EXCEPT ![a] = @ + amount]
  /\ UNCHANGED <<vars, locks, pc, slack, buffers, queries, oracle, executed>>

\* The withdraw precompile takes the accounts' mutex. It returns at once
\* for an account that is not in the map.
EvmWithdraw(a, amount) ==
  /\ pc["evm"] = "idle"
  /\ accountsLock = "free"
  /\ a \in known
  /\ Count
  /\ accountsLock' = "evm"
  /\ request' = [request EXCEPT !["evm"] = Request(a, amount)]
  /\ pc' = [pc EXCEPT !["evm"] = "mark"]
  /\ UNCHANGED <<vars, clobLock, ledger, buffers, held, oracle, executed>>

\* It reads effective_mark, for which it needs the book's mutex unless an
\* index is installed, decides, and releases the accounts' mutex.
EvmDebit ==
  LET r == request["evm"]
      paid == Paid(accounts[r.account], r.amount, EffectiveMark("evm"))
  IN /\ pc["evm"] = "mark"
     /\ MarkReadable("evm")
     /\ accounts' = [accounts EXCEPT ![r.account].collateral = @ - paid]
     /\ cash' = [cash EXCEPT ![r.account] = @ - paid]
     /\ accountsLock' = UnlockAccounts(paid = r.amount)
     /\ pc' = [pc EXCEPT !["evm"] = "idle"]
     /\ request' = [request EXCEPT !["evm"] = NoRequest]
     /\ UNCHANGED <<vars, clobLock, known, slack, buffers, held, oracle, executed, calls>>

\* The bridge's withdraw reads its mark, with no other mutex held.
NodeWithdraw(a, amount) ==
  /\ pc["node"] = "idle"
  /\ MarkReadable("node")
  /\ Count
  /\ held' = [held EXCEPT !["node"] = EffectiveMark("node")]
  /\ request' = [request EXCEPT !["node"] = Request(a, amount)]
  /\ pc' = [pc EXCEPT !["node"] = "debit"]
  /\ UNCHANGED <<vars, locks, ledger, buffers, oracle, executed>>

\* It takes the accounts' mutex, decides with the mark it holds, and returns.
NodeDebit ==
  LET r == request["node"]
      paid == IF r.account \in known THEN Paid(DebitedAccount(r), r.amount, held["node"]) ELSE 0
  IN /\ pc["node"] = "debit"
     /\ accountsLock = "free"
     /\ accounts' = [accounts EXCEPT ![r.account].collateral = @ - paid]
     /\ cash' = [cash EXCEPT ![r.account] = @ - paid]
     /\ pc' = [pc EXCEPT !["node"] = "idle"]
     /\ request' = [request EXCEPT !["node"] = NoRequest]
     /\ held' = [held EXCEPT !["node"] = NoMark]
     /\ UNCHANGED <<vars, locks, known, slack, buffers, oracle, executed, calls>>

\* margin_health, the bridge's and the precompile: the mark first. Without a
\* mark the answer is indeterminate and the call is over.
Health(t) ==
  /\ pc[t] = "idle"
  /\ MarkReadable(t)
  /\ EffectiveMark(t) # NoMark
  /\ Count
  /\ pc' = [pc EXCEPT ![t] = "health"]
  /\ UNCHANGED <<vars, locks, ledger, buffers, queries, oracle, executed>>

\* Then the account, of which it changes nothing.
HealthRead(t) ==
  /\ pc[t] = "health"
  /\ accountsLock = "free"
  /\ pc' = [pc EXCEPT ![t] = "idle"]
  /\ UNCHANGED <<vars, locks, ledger, buffers, queries, oracle, executed, calls>>

\* The node's commit hook installs an oracle index or clears it: first in the
\* bridge's cell ...
SetIndex(p) ==
  /\ pc["node"] = "idle"
  /\ p # cell
  /\ Count
  /\ cell' = p
  /\ pc' = [pc EXCEPT !["node"] = "install"]
  /\ UNCHANGED <<vars, locks, ledger, buffers, queries, index, executed>>

\* ... then in the global of the precompiles.
InstallIndex ==
  /\ pc["node"] = "install"
  /\ index' = cell
  /\ pc' = [pc EXCEPT !["node"] = "idle"]
  /\ UNCHANGED <<vars, locks, ledger, buffers, queries, cell, executed, calls>>

\* build_payload drains the fill buffer into the payload.
BuildPayload ==
  /\ pc["node"] = "idle"
  /\ pending # <<>>
  /\ Count
  /\ attached' = attached \o pending
  /\ pending' = <<>>
  /\ UNCHANGED <<vars, locks, pc, ledger, unsent, queries, oracle, executed>>

BridgeStep ==
  \/ \E o \in NodeOrders : CallSubmit("node", o)
  \/ \E o \in EvmOrders : CallSubmit("evm", o)
  \/ \E t \in Threads : SubmitDone(t) \/ Health(t) \/ HealthRead(t)
  \/ NodePush
  \/ NodeApply
  \/ EvmPush
  \/ \E t \in Threads, a \in Accounts, amount \in Amounts : Deposit(t, a, amount)
  \/ \E a \in Accounts, amount \in 1..MaxAmount :
       EvmWithdraw(a, amount) \/ NodeWithdraw(a, amount)
  \/ EvmDebit
  \/ NodeDebit
  \/ \E p \in Prices \cup {NoMark} : SetIndex(p)
  \/ InstallIndex
  \/ BuildPayload

BridgeNext ==
  \/ \E t \in Threads : MatchStep(t)
  \/ BridgeStep /\ UNCHANGED loaded

\* A thread inside a call keeps running as long as it can get the mutex it
\* waits for. No thread is obliged to make a call.
InCall(t) ==
  \/ MatchStep(t) \/ SubmitDone(t) \/ HealthRead(t)
  \/ t = "node" /\ (NodePush \/ NodeApply \/ NodeDebit \/ InstallIndex)
  \/ t = "evm" /\ (EvmPush \/ EvmDebit)

BridgeSpec == BridgeInit /\ [][BridgeNext]_allVars

FairBridgeSpec ==
  /\ BridgeSpec
  /\ \A t \in Threads : WF_<<pc, fills>>(InCall(t))

-----------------------------------------------------------------------------
(* Properties.                                                             *)

\* The types of the bridge's own state; a part of SubmittedFillsApplied.
BridgeTypeOK ==
  /\ clobLock \in Threads \cup {"free"}
  /\ accountsLock \in {"evm", "free"}
  /\ pc \in [Threads -> {"idle", "matching", "push", "apply", "mark", "debit",
                         "health", "install"}]
  /\ accounts \in [Accounts -> Account]
  /\ known \subseteq Accounts
  /\ {cell, index} \subseteq Prices \cup {NoMark}

\* What a fill adds to the position of account a: the maker is on the fill's
\* side, the taker opposite.
Bought(f, a) ==
  (IF f.maker = a THEN SideSign(f.side) * f.qty ELSE 0)
    - (IF f.taker = a THEN SideSign(f.side) * f.qty ELSE 0)

\* What the fills of fs at the places `moved` add to it.
NetBought(fs, moved, a) ==
  LET bought == [i \in DOMAIN fs |-> IF i \in moved THEN Bought(fs[i], a) ELSE 0]
  IN MapThenSumSet(LAMBDA i : bought[i], DOMAIN fs)

NodeFills(fs) == {i \in DOMAIN fs : fs[i].by = "node"}

\* A fill moves the positions of both its accounts, and once, or of neither,
\* and every fill of a submit_order moves them, also when the EVM trades on
\* the same book: whenever no submit_order is under way, the positions are
\* what a set of fills with all of these bought and sold. Whether fills of
\* place_order are in that set is left open: the documents say that they
\* are, the precompile applies none.
SubmittedFillsApplied ==
  /\ BridgeTypeOK
  /\ pc["node"] \notin {"push", "apply"} =>
       \E moved \in SUBSET DOMAIN executed :
         /\ NodeFills(executed) \subseteq moved
         /\ \A a \in Accounts : accounts[a].size = loaded[a] + NetBought(executed, moved, a)

\* Accounting by average entry price agrees with the cash that changed
\* hands: collateral less the cost of the open position is what the account
\* deposited and was paid, up to the rounding of its entry price.
ValueIsCashFlow ==
  \A a \in Accounts :
    Abs(accounts[a].collateral - accounts[a].avg * accounts[a].size - cash[a])
      <= slack[a]

\* Every fill of the book reaches exactly one payload, or is on its way to
\* one, although two threads append to the buffer and a third call drains
\* it: none is lost, none is delivered twice.
Occurrences(f, fs) == Cardinality({i \in 1..Len(fs) : fs[i] = f})

InFlight == IF pc["node"] = "push" THEN BridgeFills("node") ELSE <<>>

FillsDeliveredOnce ==
  \A f \in ToSet(executed) :
    Occurrences(f, executed) =
      Occurrences(f, attached \o pending \o unsent \o InFlight)

\* A withdrawal through either door leaves the account its margin at the mark
\* the call has read, whatever fills, withdrawals and index changes of the
\* other thread came between reading the mark and debiting.
WithdrawalsLeaveMargin ==
  [][\A t \in Threads :
       LET a == request[t].account
           m == IF t = "node" THEN held[t] ELSE EffectiveMark(t)
       IN /\ pc[t] \in {"mark", "debit"} /\ pc'[t] = "idle"
          /\ accounts'[a].collateral < accounts[a].collateral
          => WithdrawFreeCollateral(accounts'[a], m) >= 0]_allVars

\* A call of the withdraw precompile returns.
WithdrawReturns == pc["evm"] = "mark" ~> pc["evm"] = "idle"

\* Every call of either thread returns, whatever mutexes the other holds,
\* unless the oracle's index is missing at some moment of the call.
CallsReturn ==
  \A t \in Threads : pc[t] # "idle" ~> pc[t] = "idle" \/ index = NoMark

=============================================================================

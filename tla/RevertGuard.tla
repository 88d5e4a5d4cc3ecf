----------------------------- MODULE RevertGuard -----------------------------
(***************************************************************************)
(* OpenHlRevertGuard of crates/evm: the inspector OpenHlEvmFactory gives   *)
(* every EVM.  At each call frame it copies the three globals the          *)
(* precompiles change (accounts, book, pending fills), and puts the copy   *)
(* back when the frame fails.  Reth runs several EVMs at once (payload     *)
(* building, validation, eth_call) over the same globals, and the node's   *)
(* thread changes them too.                                                *)
(*                                                                         *)
(* A global is the set of the writes that stand in it; a write is the      *)
(* number of the deposit, withdrawal or order that made it.                *)
(***************************************************************************)
EXTENDS Integers, Sequences, FiniteSets, SequencesExt, TLC

CONSTANTS
  Evms,          \* EVM instances that run at the same time
  MaxFrames,     \* bound: frames opened in one behaviour
  MaxEarly,      \* bound: frames opened before every global is installed
  MaxWrites      \* bound: writes made in one behaviour

ASSUME GuardAssumption ==
  /\ MaxFrames \in Nat /\ MaxEarly \in Nat /\ MaxWrites \in Nat
  /\ "node" \notin Evms

VARIABLES
  installed,     \* globals LiveRethEvmBridge::new has installed so far
  globals,       \* globals[g]: the writes that stand in g
  frames,        \* frames[e]: REVM's call stack, of frame numbers
  savepoints,    \* savepoints[e]: the guard's stack of snapshots
  todo,          \* todo[t]: what thread t does next, global by global
  opened,        \* opened[f]: kind and EVM of frame f, and its history; a
                 \* call is of a contract once it opens a frame, of a
                 \* precompile once it writes
  failed,        \* frames that reverted or halted
  writes,        \* writes[w]: history of write w
  drained        \* drained[w]: frames open when w's fills were drained

guardVars == <<installed, globals, frames, savepoints, todo, opened, failed,
               writes, drained>>

GlobalSet == {"accounts", "book", "fills"}
NotInstalled == {-1}
Threads == Evms \cup {"node"}
Idle == [op |-> "idle", left |-> <<>>, write |-> 0, frame |-> 0, snap |-> <<>>]

\* Frames that have begun and whose rollback, if there is one, is not over.
Open == ((UNION {ToSet(frames[e]) : e \in Evms}) \cup {todo[e].frame : e \in Evms}) \ {0}
Top(e) == frames[e][Len(frames[e])]
Running(e) == todo[e] = Idle

-----------------------------------------------------------------------------
(* Mutated forms of definitions below.                                     *)

\* The savepoint is taken from the bottom of the stack.
Popped_Bottom(stack) == [snap |-> Head(stack), rest |-> Tail(stack)]

\* Only an explicit revert restores, not a halt.
MustRestore_RevertOnly(result) == result = "revert"

-----------------------------------------------------------------------------
\* call pushes, call_end pops.
Popped(stack) == [snap |-> Last(stack), rest |-> Front(stack)]

\* One field of the snapshot: None when the global is not installed.
Saved(g) == IF g \in installed THEN globals[g] ELSE NotInstalled

\* Everything but Stop, Return and SelfDestruct rolls back.
MustRestore(result) == result # "ok"

\* While submit_order pushes and applies its fills it holds the book's
\* mutex.
BookFree == todo["node"] = Idle
Reachable(g) == g = "book" => BookFree

GuardInit ==
  /\ installed = {}
  /\ globals = [g \in GlobalSet |-> {}]
  /\ frames = [e \in Evms |-> <<>>]
  /\ savepoints = [e \in Evms |-> <<>>]
  /\ todo = [t \in Threads |-> Idle]
  /\ opened = <<>> /\ failed = {}
  /\ writes = <<>> /\ drained = <<>>

\* LiveRethEvmBridge::new: install_clob, then install_fill_sink, then
\* install_accounts. Reth is running, and answering eth_call, by then.
Install(g) ==
  /\ g \notin installed
  /\ g = "fills" => "book" \in installed
  /\ g = "accounts" => "fills" \in installed
  /\ installed' = installed \cup {g}
  /\ UNCHANGED <<globals, frames, savepoints, todo, opened, failed, writes, drained>>

\* REVM opens a frame. The guard has a hook for calls, of contracts and of
\* precompiles, and none for creations. snapshot_bridge_state begins with
\* the accounts.
Enter(e, kind) ==
  /\ Running(e)
  /\ frames[e] # <<>> => opened[Top(e)].kind # "precompile"
  /\ Len(opened) < IF installed = GlobalSet THEN MaxFrames ELSE MaxEarly
  /\ opened' = Append([f \in DOMAIN opened |->
                        IF opened[f].kind = "call" /\ frames[e] # <<>> /\ f = Top(e)
                        THEN [opened[f] EXCEPT !.kind = "contract"] ELSE opened[f]],
                      [kind |-> kind, evm |-> e,
                       beside |-> {h \in Open : opened[h].evm # e},
                       before |-> IF kind = "create" THEN {} ELSE installed])
  /\ frames' = [frames EXCEPT ![e] = Append(@, Len(opened) + 1)]
  /\ todo' = IF kind = "create" THEN todo
             ELSE [todo EXCEPT ![e] = [Idle EXCEPT !.op = "snapshot", !.left = <<"book", "fills">>,
                                         !.snap = [accounts |-> Saved("accounts")]]]
  /\ UNCHANGED <<installed, globals, savepoints, failed, writes, drained>>

\* The next global of snapshot_bridge_state; after the last, the push.
Snapshot(e) ==
  /\ todo[e].op = "snapshot"
  /\ LET g == Head(todo[e].left)
         snap == [x \in DOMAIN todo[e].snap \cup {g} |->
                    IF x = g THEN Saved(g) ELSE todo[e].snap[x]]
     IN /\ Reachable(g)
        /\ IF Len(todo[e].left) > 1
           THEN /\ todo' = [todo EXCEPT ![e].left = Tail(@), ![e].snap = snap]
                /\ UNCHANGED savepoints
           ELSE /\ todo' = [todo EXCEPT ![e] = Idle]
                /\ savepoints' = [savepoints EXCEPT ![e] = Append(@, snap)]
  /\ UNCHANGED <<installed, globals, frames, opened, failed, writes, drained>>

\* restore_bridge_state on one global: a field that is None leaves it alone.
Restored(g, snap) ==
  IF snap[g] = NotInstalled THEN globals ELSE [globals EXCEPT ![g] = snap[g]]

\* A frame ends. call_end pops its savepoint and on a failure restores,
\* beginning with the accounts.
Leave(e, result) ==
  /\ Running(e) /\ frames[e] # <<>>
  /\ frames' = [frames EXCEPT ![e] = Front(@)]
  /\ failed' = IF result = "ok" THEN failed ELSE failed \cup {Top(e)}
  /\ IF opened[Top(e)].kind = "create"
     THEN UNCHANGED <<savepoints, globals, todo>>
     ELSE LET popped == Popped(savepoints[e])
          IN /\ savepoints' = [savepoints EXCEPT ![e] = popped.rest]
             /\ IF MustRestore(result)
                THEN /\ globals' = Restored("accounts", popped.snap)
                     /\ todo' = [todo EXCEPT ![e] =
                                   [Idle EXCEPT !.op = "restore", !.left = <<"book", "fills">>,
                                      !.frame = Top(e), !.snap = popped.snap]]
                ELSE UNCHANGED <<globals, todo>>
  /\ UNCHANGED <<installed, opened, writes, drained>>

\* The next global of restore_bridge_state.
Restore(e) ==
  /\ todo[e].op = "restore"
  /\ Reachable(Head(todo[e].left))
  /\ globals' = Restored(Head(todo[e].left), todo[e].snap)
  /\ todo' = [todo EXCEPT ![e] = IF Len(@.left) > 1 THEN [@ EXCEPT !.left = Tail(todo[e].left)] ELSE Idle]
  /\ UNCHANGED <<installed, frames, savepoints, opened, failed, writes, drained>>

\* Write w in global g, and the globals it goes to next.
Stand(t, w, g, rest, log) ==
  /\ globals' = [globals EXCEPT ![g] = @ \cup {w}]
  /\ writes' = [log EXCEPT ![w].during[g] = Open \cup {0}]
  /\ todo' = [todo EXCEPT ![t] =
                IF rest = <<>> THEN Idle ELSE [Idle EXCEPT !.op = "write", !.left = rest, !.write = w]]

\* A new write of thread t goes through the globals `path`, in this order.
Begin(t, path) ==
  /\ Len(writes) < MaxWrites
  /\ ToSet(path) \subseteq installed
  /\ Stand(t, Len(writes) + 1, Head(path), Tail(path),
           Append(writes, [during |-> [g \in GlobalSet |-> {}],
                           of |-> IF t = "node" THEN {} ELSE ToSet(frames[t])]))

\* A precompile: deposit and withdraw change the accounts, place_order the
\* book, and the fill sink if the order matched and there is a sink. A
\* precompile that reads, rejects its input or whose global is not installed
\* yet is a call that does nothing.
Precompile(e) ==
  /\ Running(e) /\ frames[e] # <<>>
  /\ opened[Top(e)].kind = "call"
  /\ opened' = [opened EXCEPT ![Top(e)].kind = "precompile"]
  /\ \/ Begin(e, <<"accounts">>)
     \/ BookFree /\ Begin(e, <<"book">>)
     \/ BookFree /\ Begin(e, <<"book", "fills">>)
  /\ UNCHANGED <<installed, frames, savepoints, failed, drained>>

\* The node's thread, once the bridge exists: deposit or withdraw, and
\* submit_order, which applies its fills, if it has any, to the accounts.
NodeCall ==
  /\ todo["node"] = Idle /\ installed = GlobalSet
  /\ \/ Begin("node", <<"accounts">>)
     \/ Begin("node", <<"book">>)
     \/ Begin("node", <<"book", "fills", "accounts">>)
  /\ UNCHANGED <<installed, frames, savepoints, opened, failed, drained>>

\* The next global of a write.
Write(t) ==
  /\ todo[t].op = "write"
  /\ Stand(t, todo[t].write, Head(todo[t].left), Tail(todo[t].left), writes)
  /\ UNCHANGED <<installed, frames, savepoints, opened, failed, drained>>

\* build_payload takes the pending fills.
Drain ==
  /\ todo["node"] = Idle
  /\ globals["fills"] # {}
  /\ globals' = [globals EXCEPT !["fills"] = {}]
  /\ drained' = [w \in globals["fills"] \cup DOMAIN drained |->
                   IF w \in globals["fills"] THEN Open ELSE drained[w]]
  /\ UNCHANGED <<installed, frames, savepoints, todo, opened, failed, writes>>

GuardNext ==
  \/ (\E g \in GlobalSet : Install(g)) \/ NodeCall \/ Write("node") \/ Drain
  \/ \E e \in Evms : \/ \E kind \in {"call", "create"} : Enter(e, kind)
                     \/ \E result \in {"ok", "revert", "halt"} : Leave(e, result)
                     \/ Snapshot(e) \/ Restore(e) \/ Precompile(e) \/ Write(e)

EvmSymmetry == Permutations(Evms)

GuardSpec == GuardInit /\ [][GuardNext]_guardVars

-----------------------------------------------------------------------------
(* Properties.                                                             *)

\* The types of the state; an EVM has one savepoint for each of its open
\* calls, at every depth, so that call_end never pops another call's. A part
\* of FailedCallsLeaveNothing.
GuardTypeOK ==
  /\ installed \subseteq GlobalSet
  /\ globals \in [GlobalSet -> SUBSET (1..Len(writes))]
  /\ \A e \in Evms :
       /\ ToSet(frames[e]) \subseteq 1..Len(opened)
       /\ Len(savepoints[e]) = Cardinality({f \in ToSet(frames[e]) : opened[f].kind # "create"})
                                - (IF todo[e].op = "snapshot" THEN 1 ELSE 0)
  /\ failed \subseteq 1..Len(opened)
  /\ DOMAIN drained \subseteq 1..Len(writes)

\* Frames of other EVMs that failed after they began beside frame f.
FailedBeside(f) ==
  {h \in failed : h \in opened[f].beside \/ f \in opened[h].beside}

\* Once a failed call has been rolled back, no write of it or of a frame
\* under it stands in a global that was installed when the call began. Only
\* the failed call of another EVM, which ran at the same time, can bring
\* one back with its own older copy (revert_guard.rs call_end).
FailedCallsLeaveNothing ==
  /\ GuardTypeOK
  /\ \A f \in failed \ Open : opened[f].kind # "create" =>
       \A g \in opened[f].before : \A w \in globals[g] :
         f \in writes[w].of => FailedBeside(f) # {}

\* A write that has been made is lost only to a failed call that was open
\* when it was made: a rollback never reaches back over its own beginning,
\* and a call that succeeds takes nothing away (restore_bridge_state).
OnlyFailedCallsLoseWrites ==
  \A w \in 1..Len(writes) : \A g \in GlobalSet :
    LET gone == g = "fills" /\ w \in DOMAIN drained
    IN writes[w].during[g] # {} /\ w \notin globals[g] /\ ~gone
         => writes[w].during[g] \cap failed # {}

\* Fills that a payload has taken come back to the buffer, to be delivered
\* again, only if a call that was open when they were taken failed.
DrainedFillsStayDrained ==
  \A w \in DOMAIN drained : w \in globals["fills"] => drained[w] \cap failed # {}
=============================================================================

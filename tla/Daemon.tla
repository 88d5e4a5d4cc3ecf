------------------------------- MODULE Daemon -------------------------------
(***************************************************************************)
(* The boot and the end of a reth-devnet process of bin/openhl, with what  *)
(* runs beside it: the openhl_* subscriptions, which Reth serves before    *)
(* the bridge exists, and the task that forwards the engine's messages to  *)
(* the application loop and tells start() of the first one.  What the loop *)
(* does with the messages is module EngineApp's; the state files are       *)
(* module Coordinator's.                                                   *)
(*                                                                         *)
(* Malachite's engine and the clients are external: the engine sends       *)
(* messages or stops at any moment, and clients come and go.               *)
(***************************************************************************)
EXTENDS Integers, Sequences, FiniteSets

CONSTANTS
  Clients,      \* subscribers
  Values,       \* values of the mark or health that is subscribed to
  ChannelCap,   \* capacity of the channel to the application, 128 in the code
  MaxMsgs,      \* bound: messages of the engine in a run
  MaxChanges,   \* bound: changes of the value in a run
  MaxBoots,     \* bound: processes started
  MaxEntries    \* bound: entries of a validator file

ASSUME DaemonAssumption ==
  /\ ChannelCap \in Nat \ {0} /\ MaxMsgs \in Nat /\ MaxChanges \in Nat
  /\ MaxBoots \in Nat /\ MaxEntries \in Nat

VARIABLES
  phase,       \* where run_reth_devnet is; "failed" and "done" end it
  boots,       \* processes started
  keyfile,     \* validator-key.json: Absent, Truncated or a key
  key,         \* the private key in memory
  used,        \* history: keys consensus was started with
  file,        \* entries of the validator file
  dial,        \* positions of the entries in the dial list
  cell,        \* whether the RPC's bridge cell is filled
  value,       \* what the bridge would answer now
  changes,     \* changes of it
  sub,         \* sub[c]: [pc, first, last, now] of a subscription's task
  seen,        \* seen[c]: the last value c was sent, or Nothing
  engine,      \* "off", "up" or "dead"
  sent,        \* messages the engine has sent
  raw,         \* the engine's channel
  fwd,         \* the forwarder: "off", "recv", "send" or "done"
  held,        \* the message it holds, as a sequence
  ready,       \* the ready signal: "pending", "sent" or "closed"
  chan,        \* the channel to the application
  receiver,    \* whether the receiving end of chan exists
  received     \* messages the application has handled

bootVars == <<phase, boots, keyfile, key, used, file, dial>>
rpcVars == <<cell, value, changes, sub, seen>>
fwdVars == <<engine, sent, raw, fwd, held, ready, chan, receiver, received>>
daemonVars == <<bootVars, rpcVars, fwdVars>>

Absent == 0
Truncated == -1
NoValue == "null"
Nothing == "nothing"
Ended == {"failed", "done"}

\* A key of 0 is one that does not parse. An entry may leave out its address.
Entries == [key : 0..MaxBoots, power : 0..2, addr : {"none", "good", "malformed"}]
Files == UNION {[1..n -> Entries] : n \in 0..MaxEntries}

NewTask == [pc |-> "none", first |-> TRUE, last |-> NoValue, now |-> NoValue]

-----------------------------------------------------------------------------
(* Mutated forms of definitions below.                                     *)

\* The key is generated at every boot.
LoadedKey_Fresh(stored) == boots

\* The first message is taken for the signal and not passed on.
Forwarded_SwallowsFirst(m) == IF ready = "pending" THEN <<>> ELSE <<m>>

\* start() returns the error and leaves the engine alone.
Killed_NotOnFailure(p) == IF p = "failed" THEN engine ELSE "dead"

\* The last value sent is read again after the send.
Emitted_ReadAgain(task) == value

-----------------------------------------------------------------------------
DaemonInit ==
  /\ phase = "done" /\ boots = 0
  /\ keyfile = Absent /\ key = Absent /\ used = {}
  /\ file = <<>> /\ dial = {}
  /\ cell = FALSE /\ value = NoValue /\ changes = 0
  /\ sub = [c \in Clients |-> NewTask]
  /\ seen = [c \in Clients |-> Nothing]
  /\ engine = "off" /\ sent = 0 /\ raw = <<>>
  /\ fwd = "off" /\ held = <<>> /\ ready = "pending"
  /\ chan = <<>> /\ receiver = FALSE /\ received = 0

-----------------------------------------------------------------------------
(* run_reth_devnet.                                                        *)

\* A new process: Reth launches with the openhl_* namespace and an empty
\* cell. Whatever the process before it left running is gone.
Launch ==
  /\ phase \in Ended /\ boots < MaxBoots
  /\ phase' = "launched"
  /\ boots' = boots + 1
  /\ key' = Absent /\ file' = <<>> /\ dial' = {}
  /\ cell' = FALSE /\ value' = NoValue /\ changes' = 0
  /\ sub' = [c \in Clients |-> NewTask]
  /\ seen' = [c \in Clients |-> Nothing]
  /\ engine' = "off" /\ sent' = 0 /\ raw' = <<>>
  /\ fwd' = "off" /\ held' = <<>> /\ ready' = "pending"
  /\ chan' = <<>> /\ receiver' = FALSE /\ received' = 0
  /\ UNCHANGED <<keyfile, used>>

\* install_bridge.
InstallBridge ==
  /\ phase = "launched"
  /\ cell' = TRUE
  /\ phase' = "bridged"
  /\ UNCHANGED <<boots, keyfile, key, used, file, dial, value, changes, sub, seen, fwdVars>>

\* The stored key if there is one, else a fresh one.
LoadedKey(stored) == IF stored = Absent THEN boots ELSE stored

\* A key file that does not parse ends the boot. A fresh key is written
\* before it is used; the write truncates first.
LoadKey ==
  /\ phase = "bridged"
  /\ IF keyfile = Truncated
     THEN phase' = "failed" /\ UNCHANGED <<key, keyfile>>
     ELSE /\ key' = LoadedKey(keyfile)
          /\ keyfile' = IF keyfile = Absent THEN Truncated ELSE keyfile
          /\ phase' = IF keyfile = Absent THEN "writing" ELSE "keyed"
  /\ UNCHANGED <<boots, used, file, dial, rpcVars, fwdVars>>

WriteKey ==
  /\ phase = "writing"
  /\ keyfile' = key
  /\ phase' = "keyed"
  /\ UNCHANGED <<boots, key, used, file, dial, rpcVars, fwdVars>>

\* What load_validator_set refuses: an empty file, an entry without power or
\* with a malformed key, and our key missing or listed twice.
Refused(f, k) ==
  \/ f = <<>>
  \/ \E i \in DOMAIN f : f[i].power = 0 \/ f[i].key = 0
  \/ Cardinality({i \in DOMAIN f : f[i].key = k}) # 1

\* The addresses of all entries but our own.
DialList(f, k) ==
  LET self == CHOOSE i \in DOMAIN f : f[i].key = k
  IN {i \in DOMAIN f : i # self /\ f[i].addr # "none"}

\* The validator set: a file, or the set of ourselves alone.
Configure ==
  /\ phase = "keyed"
  /\ \E f \in Files \cup {<<[key |-> key, power |-> 1, addr |-> "none"]>>} :
       IF Refused(f, key)
       THEN phase' = "failed" /\ UNCHANGED <<file, dial>>
       ELSE phase' = "configured" /\ file' = f /\ dial' = DialList(f, key)
  /\ UNCHANGED <<boots, keyfile, key, used, rpcVars, fwdVars>>

\* load_config parses the address to listen on and those to dial.
LoadsConfig(listen) == listen = "good" /\ \A i \in dial : file[i].addr = "good"

\* start() returns the error of load_config; one of start_engine ends it the
\* same way, with nothing to kill yet.
ConfigFails ==
  /\ phase = "configured"
  /\ \E listen \in {"good", "malformed"} : ~ LoadsConfig(listen)
  /\ phase' = "failed"
  /\ UNCHANGED <<boots, keyfile, key, used, file, dial, rpcVars, fwdVars>>

\* start(): the engine, the forwarder and the wait for its signal.
StartEngine ==
  /\ phase = "configured" /\ LoadsConfig("good")
  /\ phase' = "waiting"
  /\ used' = used \cup {key}
  /\ file' = <<>> /\ dial' = {}
  /\ engine' = "up" /\ fwd' = "recv" /\ receiver' = TRUE
  /\ UNCHANGED <<boots, keyfile, key, rpcVars, sent, raw, held, ready, chan, received>>

\* The engine once run_reth_devnet is in phase p: kill_and_wait.
Killed(p) == "dead"

\* start() gives up: the engine is killed and the receiving end dropped.
GiveUp ==
  /\ phase' = "failed"
  /\ engine' = Killed("failed")
  /\ receiver' = FALSE
  /\ UNCHANGED <<boots, keyfile, key, used, file, dial, rpcVars, sent, raw, fwd, held, ready,
                 chan, received>>

\* startup_ready_timeout is set by default.
TimeoutSet == TRUE

\* await_startup_ready: the signal comes, or its sender is dropped, or the
\* timeout passes while there is neither.
StartSucceeds ==
  /\ phase = "waiting" /\ ready = "sent"
  /\ phase' = "running"
  /\ UNCHANGED <<boots, keyfile, key, used, file, dial, rpcVars, fwdVars>>

StartCloses == phase = "waiting" /\ ready = "closed" /\ GiveUp

StartTimesOut == phase = "waiting" /\ ready = "pending" /\ TimeoutSet /\ GiveUp

\* run_engine_app takes the next message.
Receive ==
  /\ phase = "running" /\ chan # <<>>
  /\ received' = Head(chan)
  /\ chan' = Tail(chan)
  /\ UNCHANGED <<bootVars, rpcVars, engine, sent, raw, fwd, held, ready, receiver>>

\* It returns, after the decisions asked for or with an error, and drops the
\* channels; the state files are written.
AppReturns ==
  /\ phase = "running"
  /\ phase' = "stopping"
  /\ receiver' = FALSE
  /\ UNCHANGED <<boots, keyfile, key, used, file, dial, rpcVars, engine, sent, raw, fwd, held,
                 ready, chan, received>>

\* handle.kill.
Shutdown ==
  /\ phase = "stopping"
  /\ phase' = "done"
  /\ engine' = Killed("done")
  /\ UNCHANGED <<boots, keyfile, key, used, file, dial, rpcVars, sent, raw, fwd, held, ready,
                 chan, receiver, received>>

\* The process dies and every task of it with it. When the loop's task
\* panics or runs for 60 s, run_reth_devnet returns the error: nothing is
\* saved or killed, and main ends the process.
Crash ==
  /\ phase \notin Ended
  /\ phase' = "failed"
  /\ engine' = "off" /\ fwd' = "off" /\ held' = <<>> /\ receiver' = FALSE
  /\ UNCHANGED <<boots, keyfile, key, used, file, dial, rpcVars, sent, raw, ready, chan, received>>

-----------------------------------------------------------------------------
(* The engine and the forwarder.                                           *)

EngineSends ==
  /\ engine = "up" /\ sent < MaxMsgs
  /\ sent' = sent + 1
  /\ raw' = Append(raw, sent + 1)
  /\ UNCHANGED <<bootVars, rpcVars, engine, fwd, held, ready, chan, receiver, received>>

EngineDies ==
  /\ engine = "up"
  /\ engine' = "dead"
  /\ UNCHANGED <<bootVars, rpcVars, sent, raw, fwd, held, ready, chan, receiver, received>>

\* What is passed on of message m.
Forwarded(m) == <<m>>

\* The forwarder takes a message; the first one sends the signal.
Take ==
  /\ fwd = "recv" /\ raw # <<>>
  /\ held' = Forwarded(Head(raw))
  /\ raw' = Tail(raw)
  /\ ready' = IF ready = "pending" THEN "sent" ELSE ready
  /\ fwd' = IF held' = <<>> THEN "recv" ELSE "send"
  /\ UNCHANGED <<bootVars, rpcVars, engine, sent, chan, receiver, received>>

HasRoom(c) == Len(c) < ChannelCap

\* It passes it on when there is room, and ends when nobody receives.
Pass ==
  /\ fwd = "send"
  /\ IF receiver
     THEN HasRoom(chan) /\ chan' = chan \o held /\ fwd' = "recv"
     ELSE fwd' = "done" /\ UNCHANGED chan
  /\ held' = <<>>
  /\ UNCHANGED <<bootVars, rpcVars, engine, sent, raw, ready, receiver, received>>

\* It ends with the engine's channel, which outlives the messages in it.
ForwarderEnd ==
  /\ fwd = "recv" /\ raw = <<>> /\ engine = "dead"
  /\ fwd' = "done"
  /\ ready' = IF ready = "pending" THEN "closed" ELSE ready
  /\ UNCHANGED <<bootVars, rpcVars, engine, sent, raw, held, chan, receiver, received>>

-----------------------------------------------------------------------------
(* Subscriptions.                                                          *)

Serving == phase \notin Ended

\* The mark, the index or an account's health changes in the bridge.
ChangeValue ==
  /\ Serving /\ cell /\ changes < MaxChanges
  /\ value' \in (Values \cup {NoValue}) \ {value}
  /\ changes' = changes + 1
  /\ UNCHANGED <<bootVars, cell, sub, seen, fwdVars>>

Subscribe(c) ==
  /\ Serving /\ sub[c].pc = "none"
  /\ sub' = [sub EXCEPT ![c].pc = "poll"]
  /\ UNCHANGED <<bootVars, cell, value, changes, seen, fwdVars>>

Emits(task) == task.first \/ task.last # value

\* One poll, every second: without a bridge, or without a change, nothing is
\* sent.
Poll(c) ==
  /\ Serving /\ sub[c].pc = "poll"
  /\ cell /\ Emits(sub[c])
  /\ sub' = [sub EXCEPT ![c].pc = "send", ![c].now = value]
  /\ UNCHANGED <<bootVars, cell, value, changes, seen, fwdVars>>

\* What the task remembers as sent.
Emitted(task) == task.now

Send(c) ==
  /\ Serving /\ sub[c].pc = "send"
  /\ seen' = [seen EXCEPT ![c] = sub[c].now]
  /\ sub' = [sub EXCEPT ![c].pc = "poll", ![c].first = FALSE, ![c].last = Emitted(sub[c])]
  /\ UNCHANGED <<bootVars, cell, value, changes, fwdVars>>

\* The client has gone: the send fails and the task ends.
SendFails(c) ==
  /\ Serving /\ sub[c].pc = "send"
  /\ sub' = [sub EXCEPT ![c].pc = "gone"]
  /\ UNCHANGED <<bootVars, cell, value, changes, seen, fwdVars>>

-----------------------------------------------------------------------------
BootStep ==
  \/ InstallBridge \/ LoadKey \/ WriteKey \/ Configure \/ ConfigFails \/ StartEngine
  \/ StartSucceeds \/ StartCloses \/ StartTimesOut \/ Shutdown

ForwarderStep == Take \/ Pass \/ ForwarderEnd

DaemonNext ==
  \/ Launch \/ BootStep \/ Crash \/ Receive \/ AppReturns
  \/ EngineSends \/ EngineDies \/ ForwarderStep
  \/ ChangeValue
  \/ \E c \in Clients : Subscribe(c) \/ Poll(c) \/ Send(c) \/ SendFails(c)

\* The boot, the forwarder and the tasks of the runtime are scheduled; a send
\* completes or fails. Nothing obliges the engine to send, the loop to return
\* or a client to come.
DaemonFairness ==
  /\ WF_daemonVars(BootStep)
  /\ WF_daemonVars(ForwarderStep)
  /\ \A c \in Clients : WF_daemonVars(Poll(c)) /\ WF_daemonVars(Send(c) \/ SendFails(c))

DaemonSpec == DaemonInit /\ [][DaemonNext]_daemonVars /\ DaemonFairness

-----------------------------------------------------------------------------
(* Properties.                                                             *)

\* The types of the state; the channel keeps its capacity. A part of
\* MessagesInOrder.
DaemonTypeOK ==
  /\ phase \in {"launched", "bridged", "writing", "keyed", "configured", "waiting", "running",
                "stopping"} \cup Ended
  /\ keyfile \in {Absent, Truncated} \cup 1..MaxBoots
  /\ fwd \in {"off", "recv", "send", "done"} /\ ready \in {"pending", "sent", "closed"}
  /\ Len(held) = (IF fwd = "send" THEN 1 ELSE 0)
  /\ Len(chan) <= ChannelCap
  /\ \A c \in Clients : sub[c].pc \in {"none", "poll", "send", "gone"}

\* Every message of the engine reaches the application, in order and once,
\* the one that signals readiness too: those before the wait has ended are
\* kept for the loop that starts later (spawn_consensus_forwarder).
MessagesInOrder ==
  /\ DaemonTypeOK
  /\ receiver => [i \in 1..received |-> i] \o chan \o held \o raw = [i \in 1..sent |-> i]

\* start() returns, whether the engine sends, stops or is silent
\* (await_startup_ready), and no forwarder outlives a start that failed or a
\* loop that returned: the engine is killed and its receiver is gone (start,
\* kill).
StartEndsCleanly ==
  /\ (phase = "waiting") ~> (phase # "waiting")
  /\ (phase \in Ended /\ fwd # "off") ~> (fwd \in {"off", "done"})

\* A validator keeps its identity through restarts: consensus is never
\* started with two keys (Stage 13h).
OneIdentity == Cardinality(used) <= 1

\* A subscriber that stays ends up with the current value: the last change
\* is not lost, and a subscription made before the bridge was installed
\* comes to life with it, as the loop of spawn_polling_subscription skips a
\* poll without a bridge (rpc.rs:333-335; the comment of the function says
\* that the task exits then, rpc.rs:316-318).
SubscribersCatchUp ==
  \A c \in Clients :
    []<>(\/ ~Serving \/ ~cell \/ sub[c].pc \in {"none", "gone"}
         \/ seen[c] = value)
=============================================================================

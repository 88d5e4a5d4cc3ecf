-------------------------- MODULE RevertGuardProofs --------------------------
(***************************************************************************)
(* Proofs about module RevertGuard, for any number of EVMs, frames and     *)
(* writes: what every copy of a global that a guard holds says of the      *)
(* writes made since, and so what putting it back can lose or bring back.  *)
(***************************************************************************)
EXTENDS RevertGuard, TLAPS, FiniteSetTheorems, SequenceTheorems

-----------------------------------------------------------------------------
(* The inductive invariant.                                                *)

Frame == 1..Len(opened)
Written == 1..Len(writes)

\* The frames of EVM e that are open, those its guard has a copy for, where
\* the copy is, and which globals it has copied.
Mine(e) == ToSet(frames[e]) \cup ({todo[e].frame} \ {0})
Calls(e) == {f \in ToSet(frames[e]) : opened[f].kind # "create"}
Owners(e) == Calls(e) \cup ({todo[e].frame} \ {0})
Pos(e, f) == Cardinality({h \in Calls(e) : h <= f})
Copying(e, f) == todo[e].op = "snapshot" /\ f = Top(e)
CopyOf(e, f) ==
  IF f = todo[e].frame \/ Copying(e, f) THEN todo[e].snap ELSE savepoints[e][Pos(e, f)]
Taken(e, f) == IF Copying(e, f) THEN GlobalSet \ ToSet(todo[e].left) ELSE GlobalSet

\* Two frames of different EVMs that were open at the same time.
Beside(f, h) == f \in opened[h].beside \/ h \in opened[f].beside

\* What a copy c of global g says that frame f will put back if it fails: a
\* write that is not in it was made while f was open, or is lost already; a
\* drained fill in it was drained while f was open, or is back already; and
\* a write in it that a failing frame x must take out was made under x, below
\* f in the same EVM, or x ran beside f, or beside another that failed.
CopyInv(f, g, c) ==
  \/ c = NotInstalled /\ g \notin opened[f].before
  \/ /\ \A w \in c : w \in Written /\ writes[w].during[g] # {}
     /\ \A w \in Written \ c :
          \/ writes[w].during[g] = {}
          \/ g = "fills" /\ w \in DOMAIN drained
          \/ \E x \in writes[w].during[g] : x \in failed \/ x = f
     /\ g = "fills" => \A w \in c \cap DOMAIN drained :
          \E x \in drained[w] : x \in failed \/ x = f
     /\ \A w \in c : \A x \in writes[w].of :
          \/ x \notin failed /\ x \notin Open
          \/ opened[x].kind = "create" \/ g \notin opened[x].before
          \/ FailedBeside(x) # {} \/ Beside(f, x)
          \/ opened[x].evm = opened[f].evm /\ x < f /\ x \in ToSet(frames[opened[f].evm])

CopiesInv ==
  \A e \in Evms : \A f \in Owners(e) : \A g \in Taken(e, f) :
    \A c \in {CopyOf(e, f)[g]} : CopyInv(f, g, c)

\* The frames and what is recorded of them.
OpenedRecord == [kind : {"call", "create", "contract", "precompile"}, evm : Evms,
                 beside : SUBSET Nat, before : SUBSET GlobalSet]

FrameInv ==
  /\ opened \in Seq(OpenedRecord)
  /\ frames \in [Evms -> Seq(Nat)]
  /\ failed \subseteq Frame
  /\ \A e \in Evms : ToSet(frames[e]) \cap failed = {}
  /\ \A e \in Evms : \A f \in Mine(e) : f \in Frame /\ opened[f].evm = e
  /\ \A f \in Frame : \A h \in opened[f].beside : h \in Frame /\ opened[h].evm # opened[f].evm
  /\ \A f, h \in Open : opened[f].evm # opened[h].evm => Beside(f, h)
  /\ \A f \in Frame : opened[f].before \subseteq installed

\* A stack of frames grows upwards and has a savepoint for each call.
StackInv ==
  /\ savepoints \in [Evms -> Seq([GlobalSet -> SUBSET Int])]
  /\ \A e \in Evms :
       /\ \A i, j \in 1..Len(frames[e]) : i < j => frames[e][i] < frames[e][j]
       /\ Len(savepoints[e])
            = Cardinality(Calls(e)) - (IF todo[e].op = "snapshot" THEN 1 ELSE 0)

\* What a thread is doing, and how far it is.
Snapshots(e) ==
  /\ todo[e].op = "snapshot" /\ todo[e].frame = 0
  /\ frames[e] # <<>> /\ opened[Top(e)].kind = "call"
  /\ \A w \in Written : Top(e) \notin writes[w].of
  /\ \/ todo[e].left = <<"book", "fills">> /\ todo[e].snap \in [{"accounts"} -> SUBSET Int]
     \/ todo[e].left = <<"fills">> /\ todo[e].snap \in [{"accounts", "book"} -> SUBSET Int]

Restores(e) ==
  /\ todo[e].op = "restore" /\ todo[e].frame \in failed
  /\ opened[todo[e].frame].kind # "create"
  /\ \A f \in ToSet(frames[e]) : f < todo[e].frame
  /\ todo[e].left \in {<<"book", "fills">>, <<"fills">>}
  /\ todo[e].snap \in [GlobalSet -> SUBSET Int]

Writes(t, paths, of) ==
  /\ todo[t].op = "write" /\ todo[t].frame = 0
  /\ todo[t].left \in paths /\ todo[t].write \in Written
  /\ writes[todo[t].write].of = of
  /\ \A i \in 1..Len(todo[t].left) : writes[todo[t].write].during[todo[t].left[i]] = {}

EvmTodo(e) ==
  \/ todo[e] = Idle \/ Snapshots(e) \/ Restores(e)
  \/ frames[e] # <<>> /\ Writes(e, {<<"fills">>}, ToSet(frames[e]))

NodeTodo ==
  todo["node"] = Idle \/ Writes("node", {<<"fills", "accounts">>, <<"accounts">>}, {})

Ops == {"idle", "snapshot", "restore", "write"}

TodoRecord == [op : Ops, left : Seq(GlobalSet), write : Nat, frame : Nat,
               snap : (UNION {[D -> SUBSET Int] : D \in SUBSET GlobalSet}) \cup {<<>>}]

TodoInv == todo \in [Threads -> TodoRecord] /\ NodeTodo /\ \A e \in Evms : EvmTodo(e)

\* Frame x may still take its writes out of g.
Pending(x, g) ==
  \E e \in Evms : x \in ToSet(frames[e]) \/ (x = todo[e].frame /\ g \in ToSet(todo[e].left))

WriteRecord == [during : [GlobalSet -> SUBSET Nat], of : SUBSET Nat]

\* The globals, and the writes in them or lost from them.
GlobalsInv ==
  /\ installed \in SUBSET GlobalSet
  /\ writes \in Seq(WriteRecord)
  /\ \A w \in Written : writes[w].of \subseteq Frame
  /\ globals \in [GlobalSet -> SUBSET Written]
  /\ \A g \in GlobalSet : \A w \in globals[g] : writes[w].during[g] # {}
  /\ DOMAIN drained \subseteq Written
  /\ \A w \in DOMAIN drained : writes[w].during["fills"] # {}
  /\ OnlyFailedCallsLoseWrites
  /\ DrainedFillsStayDrained

LeftInv ==
  \A g \in GlobalSet : \A w \in globals[g] : \A x \in writes[w].of :
    \/ x \notin failed \/ opened[x].kind = "create" \/ g \notin opened[x].before
    \/ Pending(x, g) \/ FailedBeside(x) # {}

GuardInv == FrameInv /\ StackInv /\ TodoInv /\ GlobalsInv /\ CopiesInv /\ LeftInv

-----------------------------------------------------------------------------
(* Sequences, frames and copies.                                           *)

LEMMA PushSet ==
  ASSUME NEW S, NEW s \in Seq(S), NEW x \in S
  PROVE  /\ Append(s, x) \in Seq(S) /\ Len(Append(s, x)) = Len(s) + 1
         /\ Append(s, x)[Len(s) + 1] = x
         /\ \A i \in 1..Len(s) : Append(s, x)[i] = s[i]
         /\ ToSet(Append(s, x)) = ToSet(s) \cup {x}
  <1>1. /\ Append(s, x) \in Seq(S) /\ Len(Append(s, x)) = Len(s) + 1 /\ Len(s) \in Nat
        /\ Append(s, x)[Len(s) + 1] = x
        /\ \A i \in 1..Len(s) : Append(s, x)[i] = s[i]
    BY AppendProperties
  <1>2. DOMAIN s = 1..Len(s) /\ DOMAIN Append(s, x) = 1..Len(s) + 1
    BY <1>1
  <1>3. 1..Len(s) + 1 = (1..Len(s)) \cup {Len(s) + 1}
    BY <1>1
  <1> QED
    BY <1>1, <1>2, <1>3 DEF ToSet

LEMMA PopSet ==
  ASSUME NEW S, NEW s \in Seq(S), s # <<>>
  PROVE  /\ Front(s) \in Seq(S) /\ Len(Front(s)) = Len(s) - 1 /\ Len(s) \in Nat \ {0}
         /\ \A i \in 1..Len(s) - 1 : Front(s)[i] = s[i]
         /\ ToSet(s) = ToSet(Front(s)) \cup {s[Len(s)]}
         /\ \A x \in ToSet(Front(s)) : \E i \in 1..Len(s) - 1 : x = s[i]
  <1>1. Len(s) \in Nat \ {0}
    OBVIOUS
  <1>2. \A i \in 1..Len(s) - 1 : s[i] \in S
    BY <1>1
  <1>3. /\ Front(s) \in Seq(S) /\ Len(Front(s)) = Len(s) - 1
        /\ \A i \in 1..Len(s) - 1 : Front(s)[i] = s[i]
    <2> DEFINE n == Len(s) - 1
    <2>1. n \in Nat
      BY <1>1
    <2>2. \A i \in 1..n : s[i] \in S
      BY <1>2
    <2> HIDE DEF n
    <2>3. /\ SubSeq(s, 1, n) \in Seq(S)
          /\ Len(SubSeq(s, 1, n)) = IF 1 <= n THEN n - 1 + 1 ELSE 0
          /\ \A i \in 1..n - 1 + 1 : SubSeq(s, 1, n)[i] = s[1 + i - 1]
      BY <2>1, <2>2, SubSeqProperties
    <2>4. \A i \in 1..n : SubSeq(s, 1, n)[i] = s[i]
      <3> SUFFICES ASSUME NEW i \in 1..n PROVE SubSeq(s, 1, n)[i] = s[i]
        OBVIOUS
      <3>1. i \in 1..n - 1 + 1 /\ 1 + i - 1 = i
        BY <2>1
      <3> QED
        BY <2>3, <3>1
    <2>5. Len(SubSeq(s, 1, n)) = n
      BY <2>1, <2>3
    <2> QED
      BY <2>3, <2>4, <2>5 DEF Front, n
  <1>4. DOMAIN s = 1..Len(s) /\ DOMAIN Front(s) = 1..Len(s) - 1
    BY <1>1, <1>3
  <1>5. 1..Len(s) = (1..Len(s) - 1) \cup {Len(s)}
    BY <1>1
  <1>6. \A x \in ToSet(Front(s)) : \E i \in 1..Len(s) - 1 : x = s[i]
    BY <1>3, <1>4 DEF ToSet
  <1>7. ToSet(s) = ToSet(Front(s)) \cup {s[Len(s)]}
    BY <1>3, <1>4, <1>5 DEF ToSet
  <1> QED
    BY <1>1, <1>3, <1>6, <1>7

LEMMA InOpen ==
  /\ \A x : x \in Open <=> x # 0 /\ \E d \in Evms : x \in ToSet(frames[d]) \/ x = todo[d].frame
  /\ \A x : x \in Open' <=> x # 0 /\ \E d \in Evms : x \in ToSet(frames'[d]) \/ x = todo'[d].frame
  BY DEF Open

LEMMA OpenIs ==
  ASSUME FrameInv
  PROVE  Open = UNION {Mine(e) : e \in Evms} /\ Open \subseteq Frame
  <1>1. \A e \in Evms : 0 \notin ToSet(frames[e])
    BY DEF FrameInv, Mine, Frame
  <1>2. ASSUME NEW f
        PROVE  f \in Open <=> \E e \in Evms : f \in Mine(e)
    BY <1>1 DEF Open, Mine
  <1>3. Open = UNION {Mine(e) : e \in Evms}
    BY <1>2
  <1>4. Open \subseteq Frame
    BY <1>2 DEF FrameInv
  <1> QED
    BY <1>3, <1>4

\* A frame keeps its EVM and what was beside and before it; a call stays a
\* call, of whatever.
OpenedKept ==
  /\ Len(opened') \in Nat /\ Len(opened) <= Len(opened')
  /\ \A f \in Frame :
       /\ opened'[f].evm = opened[f].evm /\ opened'[f].beside = opened[f].beside
       /\ opened'[f].before = opened[f].before
       /\ opened'[f].kind = "create" <=> opened[f].kind = "create"

LEMMA FramesStay ==
  ASSUME FrameInv, OpenedKept
  PROVE  Frame \subseteq Frame'
  BY DEF OpenedKept, Frame, FrameInv

LEMMA BesideStays ==
  ASSUME FrameInv, OpenedKept, failed \subseteq failed', NEW x \in Frame, NEW f \in Frame
  PROVE  /\ Beside(f, x)' = Beside(f, x)
         /\ FailedBeside(x) # {} => FailedBeside(x)' # {}
         /\ f \in failed' /\ Beside(f, x) => FailedBeside(x)' # {}
  <1>1. Beside(f, x)' = Beside(f, x)
    BY DEF OpenedKept, Beside
  <1>2. ASSUME NEW h \in failed', h \in Frame, h \in opened[x].beside \/ x \in opened[h].beside
        PROVE  FailedBeside(x)' # {}
    <2>1. h \in opened'[x].beside \/ x \in opened'[h].beside
      BY <1>2 DEF OpenedKept
    <2> QED
      BY <2>1 DEF FailedBeside
  <1>3. FailedBeside(x) # {} => FailedBeside(x)' # {}
    BY <1>2 DEF FailedBeside, FrameInv
  <1>4. f \in failed' /\ Beside(f, x) => FailedBeside(x)' # {}
    BY <1>2 DEF Beside
  <1> QED
    BY <1>1, <1>3, <1>4

\* A copy stays true as long as its frame is among those open when a write
\* is made or fills are drained.
LEMMA CopyKept ==
  ASSUME FrameInv, GlobalsInv, NEW f \in Frame, NEW g \in GlobalSet, NEW c, CopyInv(f, g, c),
         OpenedKept, failed \subseteq failed', Len(writes) \in Nat, Len(writes') \in Nat,
         Len(writes) <= Len(writes'),
         \A w \in Written : writes'[w].of = writes[w].of
                            /\ (writes[w].during[g] # {} => writes'[w].during[g] # {}),
         \A w \in Written' : \/ writes'[w].during[g] = {} \/ f \in writes'[w].during[g]
                             \/ w \in Written /\ writes'[w].during[g] = writes[w].during[g],
         DOMAIN drained \subseteq DOMAIN drained',
         \A w \in DOMAIN drained' : \/ f \in drained'[w]
                                    \/ w \in DOMAIN drained /\ drained'[w] = drained[w],
         \A x \in Frame : x \in failed' \/ x \in Open' => x \in failed \/ x \in Open,
         \A x \in Frame : x < f /\ x \in ToSet(frames[opened[f].evm])
                            => x \in ToSet(frames'[opened[f].evm])
  PROVE  CopyInv(f, g, c)'
  <1>1. CASE c = NotInstalled /\ g \notin opened[f].before
    BY <1>1 DEF CopyInv, OpenedKept, NotInstalled
  <1>2. CASE ~(c = NotInstalled /\ g \notin opened[f].before)
    <2>1. Written \subseteq Written'
      BY DEF Written
    <2>2. \A w \in c : w \in Written /\ writes[w].during[g] # {}
      BY <1>2 DEF CopyInv
    <2>3. \A w \in c : w \in Written' /\ writes'[w].during[g] # {}
      BY <2>1, <2>2
    <2>4. ASSUME NEW w \in Written' \ c
          PROVE  \/ writes'[w].during[g] = {}
                 \/ g = "fills" /\ w \in DOMAIN drained'
                 \/ \E x \in writes'[w].during[g] : x \in failed' \/ x = f
      <3>1. CASE f \in writes'[w].during[g]
        BY <3>1
      <3>2. CASE w \in Written /\ writes'[w].during[g] = writes[w].during[g]
        <4>1. \/ writes[w].during[g] = {}
              \/ g = "fills" /\ w \in DOMAIN drained
              \/ \E x \in writes[w].during[g] : x \in failed \/ x = f
          BY <1>2, <2>4, <3>2 DEF CopyInv
        <4> QED
          BY <3>2, <4>1
      <3> QED
        BY <3>1, <3>2
    <2>5. ASSUME g = "fills", NEW w \in c \cap DOMAIN drained'
          PROVE  \E x \in drained'[w] : x \in failed' \/ x = f
      <3>1. CASE w \in DOMAIN drained /\ drained'[w] = drained[w]
        <4>1. \E x \in drained[w] : x \in failed \/ x = f
          BY <1>2, <2>5, <3>1 DEF CopyInv
        <4> QED
          BY <3>1, <4>1
      <3> QED
        BY <3>1
    <2>6. ASSUME NEW w \in c, NEW x \in writes'[w].of
          PROVE  \/ x \notin failed' /\ x \notin Open'
                 \/ opened'[x].kind = "create" \/ g \notin opened'[x].before
                 \/ FailedBeside(x)' # {} \/ Beside(f, x)'
                 \/ opened'[x].evm = opened'[f].evm /\ x < f
                      /\ x \in ToSet(frames'[opened'[f].evm])
      <3>1. x \in writes[w].of /\ x \in Frame
        BY <2>2 DEF GlobalsInv
      <3>2. \/ x \notin failed /\ x \notin Open
            \/ opened[x].kind = "create" \/ g \notin opened[x].before
            \/ FailedBeside(x) # {} \/ Beside(f, x)
            \/ opened[x].evm = opened[f].evm /\ x < f /\ x \in ToSet(frames[opened[f].evm])
        BY <1>2, <3>1 DEF CopyInv
      <3>3. /\ opened'[x].evm = opened[x].evm /\ opened'[f].evm = opened[f].evm
            /\ opened'[x].before = opened[x].before
            /\ opened'[x].kind = "create" <=> opened[x].kind = "create"
        BY <3>1 DEF OpenedKept
      <3>4. Beside(f, x)' = Beside(f, x) /\ (FailedBeside(x) # {} => FailedBeside(x)' # {})
        BY <3>1, BesideStays
      <3> QED
        BY <3>1, <3>2, <3>3, <3>4
    <2> QED
      BY <2>3, <2>4, <2>5, <2>6 DEF CopyInv
  <1> QED
    BY <1>1, <1>2

\* What every step does to the histories.
Grows ==
  /\ OpenedKept
  /\ failed \subseteq failed'
  /\ \A x \in Frame : x \in failed' \/ x \in Open' => x \in failed \/ x \in Open
  /\ Len(writes) \in Nat /\ Len(writes') \in Nat /\ Len(writes) <= Len(writes')
  /\ \A w \in Written : /\ writes'[w].of = writes[w].of
                        /\ \A g \in GlobalSet :
                             writes[w].during[g] # {} => writes'[w].during[g] # {}
  /\ \A w \in Written' : \A g \in GlobalSet :
       \/ writes'[w].during[g] = {} \/ Open \subseteq writes'[w].during[g]
       \/ w \in Written /\ writes'[w].during[g] = writes[w].during[g]
  /\ DOMAIN drained \subseteq DOMAIN drained'
  /\ \A w \in DOMAIN drained' : \/ Open \subseteq drained'[w]
                                \/ w \in DOMAIN drained /\ drained'[w] = drained[w]

LEMMA OpenCopyKept ==
  ASSUME FrameInv, GlobalsInv, Grows, NEW e \in Evms, NEW f \in Mine(e), NEW g \in GlobalSet,
         NEW c, CopyInv(f, g, c),
         \A x \in ToSet(frames[e]) : x < f => x \in ToSet(frames'[e])
  PROVE  CopyInv(f, g, c)'
  <1>1. f \in Frame /\ opened[f].evm = e /\ f \in Open
    BY OpenIs DEF FrameInv
  <1>2. \A w \in Written : writes'[w].of = writes[w].of
                           /\ (writes[w].during[g] # {} => writes'[w].during[g] # {})
    BY DEF Grows
  <1>3. \A w \in Written' : \/ writes'[w].during[g] = {} \/ f \in writes'[w].during[g]
                            \/ w \in Written /\ writes'[w].during[g] = writes[w].during[g]
    BY <1>1 DEF Grows
  <1>4. \A w \in DOMAIN drained' : \/ f \in drained'[w]
                                   \/ w \in DOMAIN drained /\ drained'[w] = drained[w]
    BY <1>1 DEF Grows
  <1>5. \A x \in Frame : x \in failed' \/ x \in Open' => x \in failed \/ x \in Open
    BY DEF Grows
  <1>6. \A x \in Frame : x < f /\ x \in ToSet(frames[opened[f].evm])
                           => x \in ToSet(frames'[opened[f].evm])
    BY <1>1
  <1>7. /\ OpenedKept /\ failed \subseteq failed' /\ Len(writes) \in Nat /\ Len(writes') \in Nat
        /\ Len(writes) <= Len(writes') /\ DOMAIN drained \subseteq DOMAIN drained'
    BY DEF Grows
  <1> QED
    BY <1>1, <1>2, <1>3, <1>4, <1>5, <1>6, <1>7, CopyKept

\* An EVM that is neither copying nor putting back.
Quiet(e) == todo[e].op # "snapshot" /\ todo[e].frame = 0

SameEvm(e) ==
  /\ frames'[e] = frames[e] /\ savepoints'[e] = savepoints[e]
  /\ todo'[e] = todo[e] \/ (Quiet(e) /\ Quiet(e)')

LEMMA SameFrames ==
  ASSUME FrameInv, OpenedKept, NEW e \in Evms, SameEvm(e)
  PROVE  /\ Mine(e)' = Mine(e) /\ Calls(e)' = Calls(e) /\ Owners(e)' = Owners(e)
         /\ Owners(e) \subseteq Mine(e)
         /\ \A f \in Owners(e) : Taken(e, f)' = Taken(e, f) /\ CopyOf(e, f)' = CopyOf(e, f)
  <1>1. todo'[e].frame = todo[e].frame /\ Mine(e)' = Mine(e)
    BY DEF SameEvm, Quiet, Mine
  <1>2. \A f \in ToSet(frames[e]) : opened'[f].kind = "create" <=> opened[f].kind = "create"
    BY DEF FrameInv, Mine, OpenedKept
  <1>3. Calls(e)' = Calls(e)
    BY <1>2 DEF SameEvm, Calls
  <1>4. Owners(e)' = Owners(e) /\ Owners(e) \subseteq Mine(e)
    BY <1>1, <1>3 DEF Owners, Mine, Calls
  <1>5. ASSUME NEW f \in Owners(e)
        PROVE  Taken(e, f)' = Taken(e, f) /\ CopyOf(e, f)' = CopyOf(e, f)
    <2>1. Top(e)' = Top(e) /\ Pos(e, f)' = Pos(e, f)
      BY <1>3 DEF SameEvm, Top, Pos
    <2>2. f # 0
      BY <1>4 DEF FrameInv, Frame
    <2>3. CASE todo'[e] = todo[e]
      BY <2>1, <2>3 DEF SameEvm, Taken, CopyOf, Copying
    <2>4. CASE Quiet(e) /\ Quiet(e)'
      BY <2>1, <2>2, <2>4 DEF SameEvm, Taken, CopyOf, Copying, Quiet
    <2> QED
      BY <2>3, <2>4 DEF SameEvm
  <1> QED
    BY <1>1, <1>3, <1>4, <1>5

\* The copies of an EVM that the step does not concern.
LEMMA SameCopies ==
  ASSUME GuardInv, Grows, NEW e \in Evms, SameEvm(e)
  PROVE  \A f \in Owners(e)' : \A g \in Taken(e, f)' :
           \A c \in {CopyOf(e, f)'[g]} : CopyInv(f, g, c)'
  <1> SUFFICES ASSUME NEW f \in Owners(e)', NEW g \in Taken(e, f)',
                      NEW c \in {CopyOf(e, f)'[g]}
               PROVE  CopyInv(f, g, c)'
    OBVIOUS
  <1>1. /\ f \in Owners(e) /\ f \in Mine(e) /\ g \in Taken(e, f) /\ c = CopyOf(e, f)[g]
    BY SameFrames DEF GuardInv, Grows
  <1>2. g \in GlobalSet
    BY <1>1 DEF Taken
  <1>3. CopyInv(f, g, c)
    BY <1>1 DEF GuardInv, CopiesInv
  <1> QED
    BY <1>1, <1>2, <1>3, OpenCopyKept DEF GuardInv, SameEvm

\* The stack of such an EVM.
LEMMA SameStack ==
  ASSUME GuardInv, OpenedKept, NEW e \in Evms, SameEvm(e)
  PROVE  /\ \A i, j \in 1..Len(frames'[e]) : i < j => frames'[e][i] < frames'[e][j]
         /\ Len(savepoints'[e])
              = Cardinality(Calls(e)') - (IF todo'[e].op = "snapshot" THEN 1 ELSE 0)
  <1>1. Calls(e)' = Calls(e)
    BY SameFrames DEF GuardInv
  <1>2. todo'[e].op = "snapshot" <=> todo[e].op = "snapshot"
    BY DEF SameEvm, Quiet
  <1> QED
    BY <1>1, <1>2 DEF SameEvm, GuardInv, StackInv

\* A frame that fails or has failed, and its writes, when nothing is put
\* back.
LEMMA LeftKept ==
  ASSUME GuardInv, Grows, NEW g \in GlobalSet, NEW w \in globals[g], NEW x \in writes[w].of,
         x \in failed' => x \in failed,
         Pending(x, g) => Pending(x, g)'
  PROVE  /\ x \in Frame /\ x \in writes'[w].of
         /\ \/ x \notin failed' \/ opened'[x].kind = "create" \/ g \notin opened'[x].before
            \/ Pending(x, g)' \/ FailedBeside(x)' # {}
  <1>1. w \in Written /\ x \in Frame
    BY DEF GuardInv, GlobalsInv
  <1>2. \/ x \notin failed \/ opened[x].kind = "create" \/ g \notin opened[x].before
        \/ Pending(x, g) \/ FailedBeside(x) # {}
    BY DEF GuardInv, LeftInv
  <1>3. FailedBeside(x) # {} => FailedBeside(x)' # {}
    BY <1>1, BesideStays DEF GuardInv, Grows
  <1>4. opened'[x].before = opened[x].before /\ (opened'[x].kind = "create" <=> opened[x].kind = "create")
    BY <1>1 DEF Grows, OpenedKept
  <1>5. x \in writes'[w].of
    BY <1>1 DEF Grows
  <1> QED
    BY <1>1, <1>2, <1>3, <1>4, <1>5

-----------------------------------------------------------------------------
(* Steps that leave every EVM's frames and copies alone.                   *)

LEMMA FramesKept ==
  ASSUME FrameInv, OpenedKept, opened' \in Seq(OpenedRecord), Len(opened') = Len(opened),
         frames' = frames, failed' = failed, installed \subseteq installed',
         \A e \in Evms : todo'[e].frame = todo[e].frame
  PROVE  FrameInv' /\ Open' = Open /\ Frame' = Frame
  <1>1. \A e \in Evms : todo'[e].frame = todo[e].frame /\ Mine(e)' = Mine(e)
    BY DEF Mine
  <1>2. Open' = Open
    BY <1>1 DEF Open
  <1>3. Frame' = Frame
    BY DEF Frame
  <1>4. \A f \in Frame : /\ opened'[f].evm = opened[f].evm /\ opened'[f].beside = opened[f].beside
                         /\ opened'[f].before = opened[f].before
    BY DEF OpenedKept
  <1>5. Open \subseteq Frame
    BY OpenIs
  <1>6. \A f, h \in Open' : opened'[f].evm # opened'[h].evm => Beside(f, h)'
    BY <1>2, <1>4, <1>5 DEF FrameInv, Beside
  <1>7. \A e \in Evms : \A f \in Mine(e)' : f \in Frame' /\ opened'[f].evm = e
    BY <1>1, <1>3, <1>4 DEF FrameInv
  <1>8. \A f \in Frame' : \A h \in opened'[f].beside :
          h \in Frame' /\ opened'[h].evm # opened'[f].evm
    BY <1>3, <1>4 DEF FrameInv
  <1>9. \A f \in Frame' : opened'[f].before \subseteq installed'
    BY <1>3, <1>4 DEF FrameInv
  <1>10. /\ frames' \in [Evms -> Seq(Nat)] /\ failed' \subseteq Frame'
         /\ \A e \in Evms : ToSet(frames'[e]) \cap failed' = {}
    BY <1>3 DEF FrameInv
  <1> QED
    BY <1>2, <1>3, <1>6, <1>7, <1>8, <1>9, <1>10 DEF FrameInv

\* What they leave of the invariant.
LEMMA QuietStep ==
  ASSUME GuardInv, Grows, UNCHANGED savepoints, \A e \in Evms : SameEvm(e)
  PROVE  StackInv' /\ CopiesInv'
  <1>1. StackInv'
    BY SameStack DEF StackInv, Grows, GuardInv
  <1>2. CopiesInv'
    BY SameCopies DEF CopiesInv
  <1> QED
    BY <1>1, <1>2

LEMMA PendingKept ==
  ASSUME frames' = frames, \A e \in Evms : todo'[e] = todo[e] \/ todo[e].frame = 0,
         NEW x \in Frame, NEW g, Pending(x, g)
  PROVE  Pending(x, g)'
  BY DEF Pending, Frame

\* What another thread's step leaves of a thread's progress.
LEMMA EvmTodoKept ==
  ASSUME FrameInv, NEW e \in Evms, EvmTodo(e), todo'[e] = todo[e], frames'[e] = frames[e],
         failed \subseteq failed', \A f \in Mine(e) : opened'[f].kind = opened[f].kind,
         Written \subseteq Written',
         \A w \in Written' : \/ writes'[w].of = writes[w].of /\ w \in Written
                             \/ writes'[w].of \cap ToSet(frames[e]) = {},
         todo[e].op = "write" => writes'[todo[e].write] = writes[todo[e].write]
  PROVE  EvmTodo(e)'
  <1>1. CASE todo[e] = Idle
    BY <1>1 DEF EvmTodo
  <1>2. CASE Snapshots(e)
    <2>1. frames[e] # <<>> /\ frames[e] \in Seq(Nat)
      BY <1>2 DEF Snapshots, FrameInv
    <2>2. Top(e)' = Top(e) /\ Top(e) \in ToSet(frames[e])
      BY <2>1, PopSet DEF Top
    <2>3. opened'[Top(e)].kind = opened[Top(e)].kind
      BY <2>2 DEF Mine
    <2>4. \A w \in Written' : Top(e) \notin writes'[w].of
      BY <1>2, <2>2 DEF Snapshots
    <2>5. Snapshots(e)'
      BY <1>2, <2>2, <2>3, <2>4 DEF Snapshots
    <2> QED
      BY <2>5 DEF EvmTodo
  <1>3. CASE Restores(e)
    <2>1. todo[e].frame \in Mine(e)
      <3>1. todo[e].frame # 0
        BY <1>3 DEF Restores, FrameInv, Frame
      <3> QED
        BY <3>1 DEF Mine
    <2>2. Restores(e)'
      BY <1>3, <2>1 DEF Restores
    <2> QED
      BY <2>2 DEF EvmTodo
  <1>4. CASE frames[e] # <<>> /\ Writes(e, {<<"fills">>}, ToSet(frames[e]))
    BY <1>4 DEF EvmTodo, Writes
  <1> QED
    BY <1>1, <1>2, <1>3, <1>4 DEF EvmTodo

LEMMA NodeTodoKept ==
  ASSUME NodeTodo, todo'["node"] = todo["node"], Written \subseteq Written',
         todo["node"].op = "write" => writes'[todo["node"].write] = writes[todo["node"].write]
  PROVE  NodeTodo'
  BY DEF NodeTodo, Writes

LEMMA TodoKept ==
  ASSUME TodoInv, FrameInv, UNCHANGED <<todo, frames, failed, opened, writes>>
  PROVE  TodoInv'
  <1>1. Written' = Written
    BY DEF Written
  <1>2. \A e \in Evms : EvmTodo(e)'
    BY <1>1, EvmTodoKept DEF TodoInv
  <1>3. NodeTodo'
    BY <1>1, NodeTodoKept DEF TodoInv
  <1> QED
    BY <1>2, <1>3 DEF TodoInv

LEMMA InstallInv ==
  ASSUME GuardInv, NEW g \in GlobalSet, Install(g)
  PROVE  GuardInv'
  <1> USE DEF GuardInv
  <1>1. UNCHANGED <<globals, frames, savepoints, todo, opened, failed, writes, drained>>
        /\ installed' \in SUBSET GlobalSet /\ installed \subseteq installed'
    BY DEF Install, GlobalsInv
  <1>2. OpenedKept
    BY <1>1 DEF OpenedKept, FrameInv
  <1>3. \A e \in Evms : SameEvm(e)
    BY <1>1 DEF SameEvm
  <1>4. FrameInv' /\ Open' = Open
    BY <1>1, <1>2, <1>3, FramesKept DEF FrameInv
  <1>5. Grows
    BY <1>1, <1>2, <1>4 DEF Grows, GlobalsInv, Written
  <1>6. StackInv' /\ CopiesInv'
    BY <1>1, <1>3, <1>5, QuietStep
  <1>7. TodoInv'
    BY <1>1, TodoKept
  <1>8. GlobalsInv'
    BY <1>1 DEF GlobalsInv, Written, Frame, OnlyFailedCallsLoseWrites, DrainedFillsStayDrained
  <1>9. LeftInv'
    BY <1>1 DEF LeftInv, Pending, FailedBeside
  <1> QED
    BY <1>4, <1>6, <1>7, <1>8, <1>9

\* build_payload takes the fills: whoever has a copy of them is open.
LEMMA DrainInv ==
  ASSUME GuardInv, Drain
  PROVE  GuardInv'
  <1> USE DEF GuardInv
  <1>1. UNCHANGED <<installed, frames, savepoints, todo, opened, failed, writes>>
        /\ globals' = [globals EXCEPT !["fills"] = {}]
    BY DEF Drain
  <1>2. /\ DOMAIN drained' = globals["fills"] \cup DOMAIN drained
        /\ \A w \in DOMAIN drained' :
             drained'[w] = IF w \in globals["fills"] THEN Open ELSE drained[w]
    BY DEF Drain
  <1>3. OpenedKept
    BY <1>1 DEF OpenedKept, FrameInv
  <1>4. \A e \in Evms : SameEvm(e)
    BY <1>1 DEF SameEvm
  <1>5. FrameInv' /\ Open' = Open
    BY <1>1, <1>3, <1>4, FramesKept DEF FrameInv
  <1>6. Grows
    BY <1>1, <1>2, <1>3, <1>5 DEF Grows, GlobalsInv, Written
  <1>7. StackInv' /\ CopiesInv'
    BY <1>1, <1>4, <1>6, QuietStep
  <1>8. TodoInv'
    BY <1>1, TodoKept
  <1>9. "fills" \in GlobalSet /\ globals["fills"] \subseteq Written
        /\ \A g \in GlobalSet : globals'[g] = IF g = "fills" THEN {} ELSE globals[g]
    BY <1>1 DEF GlobalsInv, GlobalSet
  <1>10. Written' = Written /\ Frame' = Frame
    BY <1>1 DEF Written, Frame
  <1>11. GlobalsInv'
    <2>1. globals' \in [GlobalSet -> SUBSET Written]
      BY <1>1, <1>9 DEF GlobalsInv
    <2>2. \A g \in GlobalSet : \A w \in globals'[g] : writes'[w].during[g] # {}
      BY <1>1, <1>9 DEF GlobalsInv
    <2>3. /\ DOMAIN drained' \subseteq Written
          /\ \A w \in DOMAIN drained' : writes'[w].during["fills"] # {}
      BY <1>1, <1>2, <1>9 DEF GlobalsInv
    <2>4. OnlyFailedCallsLoseWrites'
      <3> SUFFICES ASSUME NEW w \in Written, NEW g \in GlobalSet, writes[w].during[g] # {},
                          w \notin globals'[g], ~(g = "fills" /\ w \in DOMAIN drained')
                   PROVE  writes[w].during[g] \cap failed # {}
        BY <1>1 DEF OnlyFailedCallsLoseWrites, Written
      <3>1. w \notin globals[g] /\ ~(g = "fills" /\ w \in DOMAIN drained)
        BY <1>2, <1>9
      <3> QED
        BY <3>1 DEF GlobalsInv, OnlyFailedCallsLoseWrites, Written
    <2>5. DrainedFillsStayDrained'
      BY <1>9 DEF DrainedFillsStayDrained
    <2> QED
      BY <1>1, <1>10, <2>1, <2>2, <2>3, <2>4, <2>5 DEF GlobalsInv
  <1>12. LeftInv'
    BY <1>1, <1>9 DEF LeftInv, Pending, FailedBeside
  <1> QED
    BY <1>5, <1>7, <1>8, <1>11, <1>12

-----------------------------------------------------------------------------
(* Writes.                                                                 *)

\* What is left to do of write w.
Later(rest, w) ==
  IF rest = <<>> THEN Idle ELSE [Idle EXCEPT !.op = "write", !.left = rest, !.write = w]

\* Write w, under the frames `of`, now stands in g.
WriteAdded(w, g, of) ==
  /\ g \in GlobalSet /\ of \subseteq Nat
  /\ globals' = [globals EXCEPT ![g] = @ \cup {w}]
  /\ writes' \in Seq(WriteRecord)
  /\ Len(writes) \in Nat /\ Len(writes') \in Nat /\ Len(writes) <= Len(writes')
  /\ Written' = Written \cup {w}
  /\ \A v \in Written : v # w => writes'[v] = writes[v]
  /\ writes'[w].of = of
  /\ writes'[w].during[g] = Open \cup {0}
  /\ \A x \in GlobalSet \ {g} :
       writes'[w].during[x] = IF w \in Written THEN writes[w].during[x] ELSE {}
  /\ w \in Written => writes[w].of = of /\ writes[w].during[g] = {}

\* A new write in the first global of its path.
LEMMA BeginAdds ==
  ASSUME GuardInv, NEW t \in Threads,
         NEW path \in {<<"accounts">>, <<"book">>, <<"book", "fills">>,
                       <<"book", "fills", "accounts">>},
         Begin(t, path)
  PROVE  /\ WriteAdded(Len(writes) + 1, Head(path), IF t = "node" THEN {} ELSE ToSet(frames[t]))
         /\ Len(writes) + 1 \notin Written
         /\ todo' = [todo EXCEPT ![t] = Later(Tail(path), Len(writes) + 1)]
  <1> DEFINE w == Len(writes) + 1
             g == Head(path)
             of == IF t = "node" THEN {} ELSE ToSet(frames[t])
             new == [during |-> [x \in GlobalSet |-> {}], of |-> of]
             log == Append(writes, new)
  <1>1. /\ globals' = [globals EXCEPT ![g] = @ \cup {w}]
        /\ writes' = [log EXCEPT ![w].during[g] = Open \cup {0}]
        /\ todo' = [todo EXCEPT ![t] = Later(Tail(path), w)]
    BY DEF Begin, Stand, Later
  <1>2. g \in GlobalSet
    BY DEF GlobalSet
  <1>3. of \subseteq Nat
    <2>1. CASE t = "node"
      BY <2>1
    <2>2. CASE t # "node"
      <3>1. t \in Evms
        BY <2>2 DEF Threads
      <3>2. ToSet(frames[t]) \subseteq Frame
        BY <3>1 DEF GuardInv, FrameInv, Mine
      <3> QED
        BY <2>2, <3>2 DEF Frame
    <2> QED
      BY <2>1, <2>2
  <1>4. writes \in Seq(WriteRecord) /\ Len(writes) \in Nat
    BY DEF GuardInv, GlobalsInv
  <1> HIDE DEF of, g
  <1>5. new \in WriteRecord
    BY <1>3 DEF WriteRecord
  <1>6. new.of = of /\ new.during = [x \in GlobalSet |-> {}]
    OBVIOUS
  <1> HIDE DEF new
  <1>7. /\ log \in Seq(WriteRecord) /\ Len(log) = w /\ log[w] = new
        /\ \A i \in Written : log[i] = writes[i]
    BY <1>4, <1>5, PushSet DEF Written
  <1> HIDE DEF log
  <1>8. w \in Nat \ {0} /\ w \in 1..w /\ w \notin Written /\ 1..w = Written \cup {w}
    BY <1>4 DEF Written
  <1>9. Open \cup {0} \in SUBSET Nat
    BY OpenIs DEF GuardInv, Frame
  <1>10. [new EXCEPT !.during[g] = Open \cup {0}] \in WriteRecord
    BY <1>2, <1>5, <1>9 DEF WriteRecord
  <1>11. DOMAIN log = 1..w
    BY <1>7
  <1>12. /\ writes' \in Seq(WriteRecord) /\ Len(writes') = w
         /\ writes'[w] = [new EXCEPT !.during[g] = Open \cup {0}]
         /\ \A i \in Written : writes'[i] = writes[i]
    <2>1. writes' = [log EXCEPT ![w] = [new EXCEPT !.during[g] = Open \cup {0}]]
      BY <1>1, <1>7
    <2> HIDE DEF w
    <2>2. \A i \in 1..w : writes'[i] = IF i = w THEN [new EXCEPT !.during[g] = Open \cup {0}]
                                       ELSE log[i]
      BY <1>7, <1>11, <2>1
    <2> QED
      BY <1>7, <1>8, <1>10, <2>1, <2>2
  <1>13. /\ writes'[w].of = of /\ writes'[w].during[g] = Open \cup {0}
         /\ \A x \in GlobalSet \ {g} : writes'[w].during[x] = {}
    <2>1. writes'[w].of = new.of /\ writes'[w].during = [new.during EXCEPT ![g] = Open \cup {0}]
      BY <1>5, <1>12 DEF WriteRecord
    <2> QED
      BY <1>2, <1>6, <2>1
  <1>14. Written' = Written \cup {w}
    BY <1>8, <1>12 DEF Written
  <1>15. WriteAdded(w, g, of)
    <2>1. w \in Nat /\ Len(writes) <= w
      BY <1>4
    <2> HIDE DEF w
    <2> QED
      BY <1>1, <1>2, <1>3, <1>4, <1>8, <1>12, <1>13, <1>14, <2>1 DEF WriteAdded
  <1> QED
    BY <1>1, <1>8, <1>15 DEF of, g

\* The next global of a write that is under way.
LEMMA WriteAdds ==
  ASSUME GuardInv, NEW t \in Threads, Write(t),
         NEW paths \in SUBSET {<<"fills">>, <<"accounts">>, <<"fills", "accounts">>}, NEW of,
         Writes(t, paths, of)
  PROVE  /\ WriteAdded(todo[t].write, Head(todo[t].left), of)
         /\ todo[t].write \in Written
         /\ todo' = [todo EXCEPT ![t] = Later(Tail(todo[t].left), todo[t].write)]
         /\ UNCHANGED <<installed, frames, savepoints, opened, failed, drained>>
  <1> DEFINE w == todo[t].write
             g == Head(todo[t].left)
  <1>1. /\ globals' = [globals EXCEPT ![g] = @ \cup {w}]
        /\ writes' = [writes EXCEPT ![w].during[g] = Open \cup {0}]
        /\ todo' = [todo EXCEPT ![t] = Later(Tail(todo[t].left), w)]
        /\ UNCHANGED <<installed, frames, savepoints, opened, failed, drained>>
    BY DEF Write, Stand, Later
  <1>2. /\ todo[t].left \in {<<"fills">>, <<"accounts">>, <<"fills", "accounts">>}
        /\ w \in Written /\ writes[w].of = of
        /\ \A i \in 1..Len(todo[t].left) : writes[w].during[todo[t].left[i]] = {}
    BY DEF Writes
  <1>3. g \in GlobalSet /\ 1 \in 1..Len(todo[t].left) /\ g = todo[t].left[1]
    BY <1>2 DEF GlobalSet
  <1>4. writes[w].during[g] = {}
    BY <1>2, <1>3
  <1>5. writes \in Seq(WriteRecord) /\ Len(writes) \in Nat /\ writes[w] \in WriteRecord
        /\ DOMAIN writes = Written
    BY <1>2 DEF GuardInv, GlobalsInv, Written
  <1>6. Open \cup {0} \in SUBSET Nat
    BY OpenIs DEF GuardInv, Frame
  <1> HIDE DEF w, g
  <1>7. [writes[w] EXCEPT !.during[g] = Open \cup {0}] \in WriteRecord
    BY <1>3, <1>5, <1>6 DEF WriteRecord
  <1>8. /\ writes' \in Seq(WriteRecord) /\ Len(writes') = Len(writes)
        /\ writes'[w] = [writes[w] EXCEPT !.during[g] = Open \cup {0}]
        /\ \A i \in Written : i # w => writes'[i] = writes[i]
    <2>1. writes' = [writes EXCEPT ![w] = [writes[w] EXCEPT !.during[g] = Open \cup {0}]]
      BY <1>1
    <2>2. w \in 1..Len(writes)
      BY <1>2 DEF Written
    <2> DEFINE new == [writes[w] EXCEPT !.during[g] = Open \cup {0}]
    <2>3. new \in WriteRecord
      BY <1>7
    <2> HIDE DEF new
    <2>4. /\ [writes EXCEPT ![w] = new] \in Seq(WriteRecord)
          /\ Len([writes EXCEPT ![w] = new]) = Len(writes)
          /\ \A i \in 1..Len(writes) :
               [writes EXCEPT ![w] = new][i] = IF i = w THEN new ELSE writes[i]
      BY <1>5, <2>2, <2>3, ExceptSeq
    <2>5. writes' = [writes EXCEPT ![w] = new]
      BY <2>1 DEF new
    <2>6. writes'[w] = new /\ \A i \in Written : i # w => writes'[i] = writes[i]
      BY <2>2, <2>4, <2>5 DEF Written
    <2> QED
      BY <2>4, <2>5, <2>6 DEF new
  <1>9. /\ writes'[w].of = of /\ writes'[w].during[g] = Open \cup {0}
        /\ \A x \in GlobalSet \ {g} : writes'[w].during[x] = writes[w].during[x]
    <2>1. /\ writes'[w].of = writes[w].of
          /\ writes'[w].during = [writes[w].during EXCEPT ![g] = Open \cup {0}]
      BY <1>5, <1>8 DEF WriteRecord
    <2>2. writes[w].during \in [GlobalSet -> SUBSET Nat]
      BY <1>5 DEF WriteRecord
    <2> QED
      BY <1>2, <1>3, <2>1, <2>2
  <1>10. of \subseteq Nat
    BY <1>2, <1>5 DEF WriteRecord
  <1>11. Written' = Written /\ Written = Written \cup {w}
    BY <1>2, <1>8 DEF Written
  <1>12. WriteAdded(w, g, of)
    BY <1>1, <1>2, <1>3, <1>4, <1>5, <1>8, <1>9, <1>10, <1>11 DEF WriteAdded
  <1> QED
    BY <1>1, <1>2, <1>12 DEF w, g

\* A write is made under the frames that are open: every copy, being an open
\* frame's, stays true.
LEMMA AddedInv ==
  ASSUME GuardInv, NEW w, NEW g, NEW of, WriteAdded(w, g, of),
         OpenedKept, opened' \in Seq(OpenedRecord), Len(opened') = Len(opened),
         UNCHANGED <<installed, frames, savepoints, failed, drained>>,
         \A e \in Evms : SameEvm(e),
         \A e \in Evms : todo'[e] = todo[e] \/ todo[e].frame = 0,
         \A x \in of : \E e \in Evms : x \in ToSet(frames[e])
  PROVE  FrameInv' /\ StackInv' /\ GlobalsInv' /\ CopiesInv' /\ LeftInv'
  <1> USE DEF GuardInv
  <1>1. FrameInv' /\ Open' = Open /\ Frame' = Frame
    <2>1. \A e \in Evms : todo'[e].frame = todo[e].frame
      BY DEF SameEvm, Quiet
    <2> QED
      BY <2>1, FramesKept
  <1>2. /\ Written' = Written \cup {w} /\ g \in GlobalSet
        /\ \A v \in Written' : v # w => v \in Written /\ writes'[v] = writes[v]
        /\ writes'[w].of = of /\ writes'[w].during[g] = Open \cup {0}
        /\ \A x \in GlobalSet : x # g =>
             writes'[w].during[x] = IF w \in Written THEN writes[w].during[x] ELSE {}
        /\ w \in Written => writes[w].of = of /\ writes[w].during[g] = {}
    BY DEF WriteAdded
  <1>3. Grows
    <2>1. \A v \in Written : /\ writes'[v].of = writes[v].of
                             /\ \A x \in GlobalSet :
                                  writes[v].during[x] # {} => writes'[v].during[x] # {}
      <3> SUFFICES ASSUME NEW v \in Written
                   PROVE  /\ writes'[v].of = writes[v].of
                          /\ \A x \in GlobalSet :
                               writes[v].during[x] # {} => writes'[v].during[x] # {}
        OBVIOUS
      <3>1. CASE v # w
        BY <1>2, <3>1
      <3>2. CASE v = w
        <4>1. ASSUME NEW x \in GlobalSet, writes[v].during[x] # {}
              PROVE  writes'[v].during[x] # {}
          BY <1>2, <3>2, <4>1
        <4> QED
          BY <1>2, <3>2, <4>1
      <3> QED
        BY <3>1, <3>2
    <2>2. ASSUME NEW v \in Written', NEW x \in GlobalSet
          PROVE  \/ writes'[v].during[x] = {} \/ Open \subseteq writes'[v].during[x]
                 \/ v \in Written /\ writes'[v].during[x] = writes[v].during[x]
      BY <1>2
    <2>3. Len(writes) \in Nat /\ Len(writes') \in Nat /\ Len(writes) <= Len(writes')
      BY DEF WriteAdded
    <2> QED
      BY <1>1, <2>1, <2>2, <2>3 DEF Grows
  <1>4. StackInv' /\ CopiesInv'
    BY <1>3, QuietStep
  <1>5. /\ globals \in [GlobalSet -> SUBSET Written]
        /\ \A x \in GlobalSet : globals'[x] = IF x = g THEN globals[g] \cup {w} ELSE globals[x]
        /\ globals' \in [GlobalSet -> SUBSET Written']
    <2>1. globals' = [globals EXCEPT ![g] = @ \cup {w}]
      BY DEF WriteAdded
    <2>2. globals \in [GlobalSet -> SUBSET Written]
      BY DEF GlobalsInv
    <2> QED
      BY <1>2, <2>1, <2>2
  <1>6. GlobalsInv'
    <2>1. \A v \in Written' : writes'[v].of \subseteq Frame'
      <3>1. of \subseteq Frame
        BY DEF FrameInv, Mine
      <3> QED
        BY <1>1, <1>2, <3>1 DEF GlobalsInv
    <2>2. \A x \in GlobalSet : \A v \in globals'[x] : writes'[v].during[x] # {}
      <3> SUFFICES ASSUME NEW x \in GlobalSet, NEW v \in globals'[x]
                   PROVE  writes'[v].during[x] # {}
        OBVIOUS
      <3>1. CASE v \in globals[x]
        <4>1. v \in Written /\ writes[v].during[x] # {}
          BY <1>5, <3>1 DEF GlobalsInv
        <4> QED
          BY <1>3, <4>1 DEF Grows
      <3>2. CASE v \notin globals[x]
        BY <1>2, <1>5, <3>2
      <3> QED
        BY <3>1, <3>2
    <2>3. DOMAIN drained' \subseteq Written' /\ \A v \in DOMAIN drained' : writes'[v].during["fills"] # {}
      <3>1. "fills" \in GlobalSet
        BY DEF GlobalSet
      <3>2. \A v \in DOMAIN drained : v \in Written /\ writes[v].during["fills"] # {}
        BY DEF GlobalsInv
      <3> QED
        BY <1>2, <1>3, <3>1, <3>2 DEF Grows
    <2>4. OnlyFailedCallsLoseWrites'
      <3> SUFFICES ASSUME NEW v \in Written', NEW x \in GlobalSet, writes'[v].during[x] # {},
                          v \notin globals'[x], ~(x = "fills" /\ v \in DOMAIN drained)
                   PROVE  writes'[v].during[x] \cap failed # {}
        BY DEF OnlyFailedCallsLoseWrites, Written
      <3>1. v \notin globals[x] /\ ~(v = w /\ x = g)
        BY <1>5
      <3>2. v \in Written /\ writes'[v].during[x] = writes[v].during[x]
        BY <1>2, <3>1
      <3> QED
        BY <3>1, <3>2 DEF GlobalsInv, OnlyFailedCallsLoseWrites, Written
    <2>5. DrainedFillsStayDrained'
      <3> SUFFICES ASSUME NEW v \in DOMAIN drained, v \in globals'["fills"]
                   PROVE  drained[v] \cap failed # {}
        BY DEF DrainedFillsStayDrained
      <3>1. "fills" \in GlobalSet
        BY DEF GlobalSet
      <3>2. v \in Written /\ writes[v].during["fills"] # {}
        BY DEF GlobalsInv
      <3>3. v \in globals["fills"]
        BY <1>2, <1>5, <3>1, <3>2
      <3> QED
        BY <3>3 DEF GlobalsInv, DrainedFillsStayDrained
    <2>6. installed' \in SUBSET GlobalSet /\ writes' \in Seq(WriteRecord)
      BY DEF GlobalsInv, WriteAdded
    <2> QED
      BY <1>5, <2>1, <2>2, <2>3, <2>4, <2>5, <2>6 DEF GlobalsInv
  <1>7. LeftInv'
    <2> SUFFICES ASSUME NEW x \in GlobalSet, NEW v \in globals'[x], NEW f \in writes'[v].of
                 PROVE  \/ f \notin failed' \/ opened'[f].kind = "create"
                        \/ x \notin opened'[f].before
                        \/ Pending(f, x)' \/ FailedBeside(f)' # {}
      BY DEF LeftInv
    <2>1. CASE v \in globals[x]
      <3>1. v \in Written
        BY <1>5, <2>1
      <3>2. f \in writes[v].of
        BY <1>3, <3>1 DEF Grows
      <3>3. f \in Frame
        BY <3>1, <3>2 DEF GlobalsInv
      <3>4. Pending(f, x) => Pending(f, x)'
        BY <3>3, PendingKept
      <3> QED
        BY <1>3, <2>1, <3>2, <3>4, LeftKept
    <2>2. CASE v \notin globals[x]
      <3>1. f \in of
        BY <1>2, <1>5, <2>2
      <3>2. Pending(f, x)'
        BY <3>1 DEF Pending
      <3> QED
        BY <3>2
    <2> QED
      BY <2>1, <2>2
  <1> QED
    BY <1>1, <1>4, <1>6, <1>7

\* Thread t has made a write, and goes on with the globals `rest`.
GoesOn(t, w, of, rest) ==
  /\ t \in Threads /\ rest \in {<<>>, <<"fills">>, <<"accounts">>, <<"fills", "accounts">>}
  /\ todo' = [todo EXCEPT ![t] = Later(rest, w)]
  /\ frames' = frames /\ failed' = failed
  /\ \A e \in Evms : e # t => /\ \A f \in Mine(e) : opened'[f].kind = opened[f].kind
                              /\ of \cap ToSet(frames[e]) = {}
                              /\ todo[e].op = "write" => todo[e].write # w
  /\ t # "node" /\ todo["node"].op = "write" => todo["node"].write # w
  /\ t \in Evms => /\ rest \in {<<>>, <<"fills">>} /\ of = ToSet(frames[t])
                   /\ frames[t] # <<>>
  /\ t = "node" => rest \in {<<>>, <<"accounts">>, <<"fills", "accounts">>} /\ of = {}
  /\ \A i \in 1..Len(rest) : rest[i] \in GlobalSet /\ writes'[w].during[rest[i]] = {}

\* The progress of the threads then.
LEMMA AddedTodo ==
  ASSUME GuardInv, NEW w, NEW g, NEW of, WriteAdded(w, g, of), NEW t, NEW rest,
         GoesOn(t, w, of, rest)
  PROVE  TodoInv'
  <1> USE DEF GuardInv, GoesOn
  <1>1. Written \subseteq Written' /\ w \in Written' /\ w \in Nat
    BY DEF WriteAdded, Written
  <1>2. todo \in [Threads -> TodoRecord]
    BY DEF TodoInv
  <1> DEFINE now == Later(rest, w)
  <1>3. /\ now.frame = 0 /\ now.snap = <<>>
        /\ rest # <<>> => now.op = "write" /\ now.left = rest /\ now.write = w
        /\ rest = <<>> => now = Idle
    BY DEF Idle, Later
  <1>4. now \in TodoRecord
    <2>1. rest \in Seq(GlobalSet)
      <3>1. "fills" \in GlobalSet /\ "accounts" \in GlobalSet
        BY DEF GlobalSet
      <3>2. /\ <<>> \in Seq(GlobalSet) /\ <<"fills">> \in Seq(GlobalSet)
            /\ <<"accounts">> \in Seq(GlobalSet) /\ <<"fills", "accounts">> \in Seq(GlobalSet)
        BY <3>1
      <3> QED
        BY <3>2
    <2>2. <<>> \in (UNION {[D -> SUBSET Int] : D \in SUBSET GlobalSet}) \cup {<<>>}
      OBVIOUS
    <2>3. now = [op |-> now.op, left |-> rest, write |-> now.write, frame |-> 0, snap |-> <<>>]
      BY DEF Idle, Later
    <2>4. now.op \in Ops /\ now.write \in Nat
      <3>1. CASE rest = <<>>
        BY <3>1 DEF Idle, Ops, Later
      <3>2. CASE rest # <<>>
        BY <1>1, <1>3, <3>2 DEF Ops
      <3> QED
        BY <3>1, <3>2
    <2> HIDE DEF now
    <2> QED
      BY <2>1, <2>2, <2>3, <2>4 DEF TodoRecord
  <1> HIDE DEF now
  <1>5. todo' \in [Threads -> TodoRecord] /\ todo'[t] = now
        /\ \A u \in Threads : u # t => todo'[u] = todo[u]
    BY <1>2, <1>4 DEF now
  <1>6. "node" \notin Evms /\ Evms \subseteq Threads /\ "node" \in Threads
    BY GuardAssumption DEF Threads
  <1>7. \A e \in Evms : EvmTodo(e)'
    <2> SUFFICES ASSUME NEW e \in Evms PROVE EvmTodo(e)'
      OBVIOUS
    <2>1. CASE e # t
      <3>1. todo'[e] = todo[e] /\ frames'[e] = frames[e] /\ EvmTodo(e)
        BY <1>5, <1>6, <2>1 DEF TodoInv
      <3>2. \A v \in Written' : \/ writes'[v].of = writes[v].of /\ v \in Written
                                \/ writes'[v].of \cap ToSet(frames[e]) = {}
        BY <2>1 DEF WriteAdded
      <3>3. todo[e].op = "write" => writes'[todo[e].write] = writes[todo[e].write]
        <4>1. todo[e].op = "write" => todo[e].write \in Written
          BY <3>1 DEF EvmTodo, Idle, Snapshots, Restores, Writes
        <4> QED
          BY <2>1, <4>1 DEF WriteAdded
      <3> QED
        BY <1>1, <2>1, <3>1, <3>2, <3>3, EvmTodoKept
    <2>2. CASE e = t
      <3>1. CASE rest = <<>>
        BY <1>3, <1>5, <2>2, <3>1 DEF EvmTodo
      <3>2. CASE rest # <<>>
        <4>1. writes'[w].of = ToSet(frames'[e])
          BY <2>2 DEF WriteAdded
        <4>2. Writes(e, {<<"fills">>}, ToSet(frames[e]))'
          BY <1>1, <1>3, <1>5, <2>2, <3>2, <4>1 DEF Writes
        <4>3. frames'[e] # <<>>
          BY <2>2
        <4> QED
          BY <4>2, <4>3 DEF EvmTodo
      <3> QED
        BY <3>1, <3>2
    <2> QED
      BY <2>1, <2>2
  <1>8. NodeTodo'
    <2>1. CASE t # "node"
      <3>1. todo'["node"] = todo["node"] /\ NodeTodo
        BY <1>5, <1>6, <2>1 DEF TodoInv
      <3>2. todo["node"].op = "write" => todo["node"].write \in Written
        BY <3>1 DEF NodeTodo, Idle, Writes
      <3>3. todo["node"].op = "write"
              => writes'[todo["node"].write] = writes[todo["node"].write]
        BY <2>1, <3>2 DEF WriteAdded
      <3> QED
        BY <1>1, <3>1, <3>3, NodeTodoKept
    <2>2. CASE t = "node"
      <3>1. CASE rest = <<>>
        BY <1>3, <1>5, <2>2, <3>1 DEF NodeTodo
      <3>2. CASE rest # <<>>
        <4>1. writes'[w].of = {}
          BY <2>2 DEF WriteAdded
        <4>2. Writes("node", {<<"fills", "accounts">>, <<"accounts">>}, {})'
          BY <1>1, <1>3, <1>5, <2>2, <3>2, <4>1 DEF Writes
        <4> QED
          BY <4>2 DEF NodeTodo
      <3> QED
        BY <3>1, <3>2
    <2> QED
      BY <2>1, <2>2
  <1> QED
    BY <1>5, <1>7, <1>8 DEF TodoInv

\* The frames a write is made under tell the threads apart.
LEMMA EvmsApart ==
  ASSUME GuardInv, NEW e \in Evms
  PROVE  /\ "node" # e /\ e \in Threads /\ "node" \in Threads
         /\ \A d \in Evms : d # e => ToSet(frames[d]) \cap ToSet(frames[e]) = {}
         /\ frames[e] # <<>> => Top(e) \in ToSet(frames[e])
         /\ todo[e].op = "write" => /\ Writes(e, {<<"fills">>}, ToSet(frames[e]))
                                    /\ frames[e] # <<>>
         /\ todo["node"].op = "write"
              => Writes("node", {<<"fills", "accounts">>, <<"accounts">>}, {})
  <1> USE DEF GuardInv
  <1>1. "node" # e /\ e \in Threads /\ "node" \in Threads
    BY GuardAssumption DEF Threads
  <1>2. \A d \in Evms : d # e => ToSet(frames[d]) \cap ToSet(frames[e]) = {}
    BY SMTT(60) DEF FrameInv, Mine
  <1>3. frames[e] # <<>> => Top(e) \in ToSet(frames[e])
    <2>1. frames[e] \in Seq(Nat)
      BY DEF FrameInv
    <2> QED
      BY <2>1, PopSet DEF Top
  <1>4. todo[e].op = "write" => /\ Writes(e, {<<"fills">>}, ToSet(frames[e]))
                                /\ frames[e] # <<>>
    BY DEF TodoInv, EvmTodo, Idle, Snapshots, Restores
  <1>5. todo["node"].op = "write"
          => Writes("node", {<<"fills", "accounts">>, <<"accounts">>}, {})
    BY DEF TodoInv, NodeTodo, Idle
  <1> QED
    BY <1>1, <1>2, <1>3, <1>4, <1>5

LEMMA WritersApart ==
  ASSUME GuardInv, NEW t \in Threads, NEW u \in Threads, t # u,
         todo[t].op = "write", todo[u].op = "write"
  PROVE  todo[t].write # todo[u].write
  <1>1. ASSUME NEW e \in Evms, todo[e].op = "write"
        PROVE  writes[todo[e].write].of = ToSet(frames[e]) /\ ToSet(frames[e]) # {}
    BY <1>1, EvmsApart DEF Writes
  <1>2. t \in Evms /\ u \in Evms => ToSet(frames[t]) \cap ToSet(frames[u]) = {}
    BY EvmsApart
  <1>3. todo["node"].op = "write" => writes[todo["node"].write].of = {}
    BY DEF GuardInv, TodoInv, NodeTodo, Idle, Writes
  <1> QED
    BY <1>1, <1>2, <1>3 DEF Threads

\* No thread has begun a write that is not recorded.
LEMMA WritersWritten ==
  ASSUME GuardInv, NEW t \in Threads, todo[t].op = "write"
  PROVE  todo[t].write \in Written
  <1>1. CASE t \in Evms
    BY <1>1, EvmsApart DEF Writes
  <1>2. CASE t = "node"
    BY <1>2 DEF GuardInv, TodoInv, NodeTodo, Idle, Writes
  <1> QED
    BY <1>1, <1>2 DEF Threads

\* Only the frames of EVM e, or none, are the callers of a write of thread t.
LEMMA SameOthers ==
  ASSUME GuardInv, NEW t \in Threads, UNCHANGED <<frames, savepoints>>,
         \A u \in Threads : u # t => todo'[u] = todo[u],
         t \in Evms => Quiet(t) /\ Quiet(t)'
  PROVE  /\ \A e \in Evms : SameEvm(e)
         /\ \A e \in Evms : todo'[e] = todo[e] \/ todo[e].frame = 0
  BY DEF SameEvm, Quiet, Threads

LEMMA NodeCallInv ==
  ASSUME GuardInv, NodeCall
  PROVE  GuardInv'
  <1> USE DEF GuardInv
  <1>1. /\ todo["node"] = Idle
        /\ UNCHANGED <<installed, frames, savepoints, opened, failed, drained>>
    BY DEF NodeCall
  <1>2. PICK path \in {<<"accounts">>, <<"book">>, <<"book", "fills", "accounts">>} :
          Begin("node", path)
    BY DEF NodeCall
  <1> DEFINE w == Len(writes) + 1
             rest == Tail(path)
  <1>3. "node" \in Threads /\ "node" \notin Evms
    BY GuardAssumption DEF Threads
  <1>4. /\ WriteAdded(w, Head(path), {}) /\ w \notin Written
        /\ todo' = [todo EXCEPT !["node"] = Later(rest, w)]
    BY <1>2, <1>3, BeginAdds
  <1>5. /\ rest \in {<<>>, <<"fills", "accounts">>}
        /\ \A i \in 1..Len(rest) : rest[i] \in GlobalSet /\ rest[i] # Head(path)
    <2>1. CASE path = <<"accounts">> \/ path = <<"book">>
      <3>1. Tail(<<"accounts">>) = <<>> /\ Tail(<<"book">>) = <<>>
        OBVIOUS
      <3>2. rest = <<>>
        BY <2>1, <3>1
      <3> HIDE DEF rest
      <3> QED
        BY <3>2
    <2>2. CASE path = <<"book", "fills", "accounts">>
      <3>1. rest = <<"fills", "accounts">> /\ Head(path) = "book"
        BY <2>2
      <3> HIDE DEF rest
      <3> QED
        BY <3>1 DEF GlobalSet
    <2> QED
      BY <1>2, <2>1, <2>2
  <1> HIDE DEF w, rest
  <1>6. \A i \in 1..Len(rest) : rest[i] \in GlobalSet /\ writes'[w].during[rest[i]] = {}
    BY <1>4, <1>5 DEF WriteAdded
  <1>7. OpenedKept /\ opened' \in Seq(OpenedRecord) /\ Len(opened') = Len(opened)
    BY <1>1 DEF OpenedKept, FrameInv
  <1>8. \A u \in Threads : u # "node" => todo'[u] = todo[u]
    BY <1>4 DEF TodoInv
  <1>9. /\ \A e \in Evms : SameEvm(e)
        /\ \A e \in Evms : todo'[e] = todo[e] \/ todo[e].frame = 0
    BY <1>1, <1>3, <1>8, SameOthers
  <1>10. FrameInv' /\ StackInv' /\ GlobalsInv' /\ CopiesInv' /\ LeftInv'
    BY <1>1, <1>4, <1>7, <1>9, AddedInv
  <1>11. \A e \in Evms : /\ \A f \in Mine(e) : opened'[f].kind = opened[f].kind
                         /\ {} \cap ToSet(frames[e]) = {}
                         /\ todo[e].op = "write" => todo[e].write # w
    BY <1>1, <1>4, WritersWritten DEF Threads
  <1>12. GoesOn("node", w, {}, rest)
    BY <1>1, <1>3, <1>4, <1>5, <1>6, <1>11 DEF GoesOn
  <1>13. TodoInv'
    BY <1>4, <1>12, AddedTodo
  <1> QED
    BY <1>10, <1>13

LEMMA NodeWriteInv ==
  ASSUME GuardInv, Write("node")
  PROVE  GuardInv'
  <1> USE DEF GuardInv
  <1> DEFINE w == todo["node"].write
             rest == Tail(todo["node"].left)
             paths == {<<"fills", "accounts">>, <<"accounts">>}
  <1>1. todo["node"].op = "write"
    BY DEF Write
  <1>2. "node" \in Threads /\ "node" \notin Evms
    BY GuardAssumption DEF Threads
  <1>3. Writes("node", paths, {})
    BY <1>1 DEF TodoInv, NodeTodo, Idle
  <1>4. /\ WriteAdded(w, Head(todo["node"].left), {}) /\ w \in Written
        /\ todo' = [todo EXCEPT !["node"] = Later(rest, w)]
        /\ UNCHANGED <<installed, frames, savepoints, opened, failed, drained>>
    <2>1. paths \in SUBSET {<<"fills">>, <<"accounts">>, <<"fills", "accounts">>}
      OBVIOUS
    <2> HIDE DEF paths
    <2> QED
      BY <1>2, <1>3, <2>1, WriteAdds
  <1>5. /\ rest \in {<<>>, <<"accounts">>}
        /\ \A i \in 1..Len(rest) :
             /\ rest[i] \in GlobalSet /\ rest[i] # Head(todo["node"].left)
             /\ writes[w].during[rest[i]] = {}
    <2>1. CASE todo["node"].left = <<"accounts">>
      BY <2>1
    <2>2. CASE todo["node"].left = <<"fills", "accounts">>
      <3>1. rest = <<"accounts">> /\ Head(todo["node"].left) = "fills"
        BY <2>2
      <3>2. writes[w].during["accounts"] = {}
        BY <1>3, <2>2 DEF Writes
      <3> HIDE DEF rest, w
      <3> QED
        BY <3>1, <3>2 DEF GlobalSet
    <2> QED
      BY <1>3, <2>1, <2>2 DEF Writes
  <1> HIDE DEF w, rest
  <1>6. \A i \in 1..Len(rest) : rest[i] \in GlobalSet /\ writes'[w].during[rest[i]] = {}
    BY <1>4, <1>5 DEF WriteAdded
  <1>7. OpenedKept /\ opened' \in Seq(OpenedRecord) /\ Len(opened') = Len(opened)
    BY <1>4 DEF OpenedKept, FrameInv
  <1>8. \A u \in Threads : u # "node" => todo'[u] = todo[u]
    BY <1>4 DEF TodoInv
  <1>9. /\ \A e \in Evms : SameEvm(e)
        /\ \A e \in Evms : todo'[e] = todo[e] \/ todo[e].frame = 0
    BY <1>2, <1>4, <1>8, SameOthers
  <1>10. FrameInv' /\ StackInv' /\ GlobalsInv' /\ CopiesInv' /\ LeftInv'
    BY <1>4, <1>7, <1>9, AddedInv
  <1>11. \A e \in Evms : /\ \A f \in Mine(e) : opened'[f].kind = opened[f].kind
                         /\ {} \cap ToSet(frames[e]) = {}
                         /\ todo[e].op = "write" => todo[e].write # w
    BY <1>1, <1>2, <1>4, WritersApart DEF Threads, w
  <1>12. GoesOn("node", w, {}, rest)
    BY <1>2, <1>4, <1>5, <1>6, <1>11 DEF GoesOn
  <1>13. TodoInv'
    BY <1>4, <1>12, AddedTodo
  <1> QED
    BY <1>10, <1>13

\* A precompile changes what its call is known as, and nothing else of it.
LEMMA CallNamed ==
  ASSUME GuardInv, NEW e \in Evms, frames[e] # <<>>, opened[Top(e)].kind = "call",
         NEW kind \in {"contract", "precompile"},
         opened' = [opened EXCEPT ![Top(e)].kind = kind]
  PROVE  /\ OpenedKept /\ opened' \in Seq(OpenedRecord) /\ Len(opened') = Len(opened)
         /\ Top(e) \in Frame
         /\ \A f \in Frame : f # Top(e) => opened'[f] = opened[f]
  <1> DEFINE f == Top(e)
             new == [opened[f] EXCEPT !.kind = kind]
  <1>1. f \in Frame /\ opened \in Seq(OpenedRecord) /\ Len(opened) \in Nat
    BY EvmsApart DEF GuardInv, FrameInv, Mine
  <1>2. opened[f] \in OpenedRecord
    BY <1>1 DEF Frame
  <1>3. opened' = [opened EXCEPT ![f] = new]
    OBVIOUS
  <1>4. new \in OpenedRecord
    BY <1>2 DEF OpenedRecord
  <1>5. /\ new.evm = opened[f].evm /\ new.beside = opened[f].beside
        /\ new.before = opened[f].before /\ new.kind = kind
    BY <1>2 DEF OpenedRecord
  <1> HIDE DEF f, new
  <1>6. f \in 1..Len(opened)
    BY <1>1 DEF Frame
  <1>7. /\ opened' \in Seq(OpenedRecord) /\ Len(opened') = Len(opened)
        /\ \A i \in 1..Len(opened) : opened'[i] = IF i = f THEN new ELSE opened[i]
    <2>1. /\ [opened EXCEPT ![f] = new] \in Seq(OpenedRecord)
          /\ Len([opened EXCEPT ![f] = new]) = Len(opened)
          /\ \A i \in 1..Len(opened) :
               [opened EXCEPT ![f] = new][i] = IF i = f THEN new ELSE opened[i]
      BY <1>1, <1>4, <1>6, ExceptSeq
    <2> QED
      BY <1>3, <2>1
  <1>8. \A i \in Frame : i # f => opened'[i] = opened[i]
    BY <1>7 DEF Frame
  <1>9. opened'[f] = new
    BY <1>6, <1>7
  <1>10. ASSUME NEW i \in Frame
         PROVE  /\ opened'[i].evm = opened[i].evm /\ opened'[i].beside = opened[i].beside
                /\ opened'[i].before = opened[i].before
                /\ opened'[i].kind = "create" <=> opened[i].kind = "create"
    <2>1. CASE i = f
      BY <1>5, <1>9, <2>1 DEF f
    <2>2. CASE i # f
      BY <1>8, <2>2
    <2> QED
      BY <2>1, <2>2
  <1>11. OpenedKept
    BY <1>1, <1>7, <1>10 DEF OpenedKept
  <1> QED
    BY <1>1, <1>7, <1>8, <1>11 DEF f

LEMMA PrecompileInv ==
  ASSUME GuardInv, NEW e \in Evms, Precompile(e)
  PROVE  GuardInv'
  <1> USE DEF GuardInv
  <1>1. /\ todo[e] = Idle /\ frames[e] # <<>> /\ opened[Top(e)].kind = "call"
        /\ opened' = [opened EXCEPT ![Top(e)].kind = "precompile"]
        /\ UNCHANGED <<installed, frames, savepoints, failed, drained>>
    BY DEF Precompile, Running
  <1>2. PICK path \in {<<"accounts">>, <<"book">>, <<"book", "fills">>} : Begin(e, path)
    BY DEF Precompile
  <1> DEFINE w == Len(writes) + 1
             rest == Tail(path)
             of == ToSet(frames[e])
  <1>3. "node" # e /\ e \in Threads
    BY EvmsApart
  <1>4. /\ WriteAdded(w, Head(path), of) /\ w \notin Written
        /\ todo' = [todo EXCEPT ![e] = Later(rest, w)]
    BY <1>2, <1>3, BeginAdds
  <1>5. /\ rest \in {<<>>, <<"fills">>}
        /\ \A i \in 1..Len(rest) : rest[i] \in GlobalSet /\ rest[i] # Head(path)
    <2>1. CASE path = <<"accounts">> \/ path = <<"book">>
      <3>1. Tail(<<"accounts">>) = <<>> /\ Tail(<<"book">>) = <<>>
        OBVIOUS
      <3>2. rest = <<>>
        BY <2>1, <3>1
      <3> HIDE DEF rest
      <3> QED
        BY <3>2
    <2>2. CASE path = <<"book", "fills">>
      <3>1. rest = <<"fills">> /\ Head(path) = "book"
        BY <2>2
      <3> HIDE DEF rest
      <3> QED
        BY <3>1 DEF GlobalSet
    <2> QED
      BY <1>2, <2>1, <2>2
  <1> HIDE DEF w, rest
  <1>6. \A i \in 1..Len(rest) : rest[i] \in GlobalSet /\ writes'[w].during[rest[i]] = {}
    BY <1>4, <1>5 DEF WriteAdded
  <1>7. /\ OpenedKept /\ opened' \in Seq(OpenedRecord) /\ Len(opened') = Len(opened)
        /\ \A f \in Frame : f # Top(e) => opened'[f] = opened[f]
    BY <1>1, CallNamed
  <1>8. /\ \A u \in Threads : u # e => todo'[u] = todo[u]
        /\ todo'[e] = Later(rest, w)
    BY <1>3, <1>4 DEF TodoInv
  <1>9. Quiet(e) /\ Quiet(e)'
    BY <1>1, <1>8 DEF Quiet, Later, Idle
  <1>10. /\ \A d \in Evms : SameEvm(d)
         /\ \A d \in Evms : todo'[d] = todo[d] \/ todo[d].frame = 0
    BY <1>1, <1>3, <1>8, <1>9, SameOthers
  <1>11. FrameInv' /\ StackInv' /\ GlobalsInv' /\ CopiesInv' /\ LeftInv'
    <2>1. \A x \in of : \E d \in Evms : x \in ToSet(frames[d])
      OBVIOUS
    <2> QED
      BY <1>1, <1>4, <1>7, <1>10, <2>1, AddedInv
  <1>12. ASSUME NEW d \in Evms, d # e
         PROVE  /\ \A f \in Mine(d) : opened'[f].kind = opened[f].kind
                /\ of \cap ToSet(frames[d]) = {}
                /\ todo[d].op = "write" => todo[d].write # w
    <2>1. opened[Top(e)].evm = e
      BY <1>1, EvmsApart DEF FrameInv, Mine
    <2>2. \A f \in Mine(d) : f \in Frame /\ f # Top(e)
      BY <1>12, <2>1 DEF FrameInv
    <2>3. of \cap ToSet(frames[d]) = {}
      BY <1>12, EvmsApart
    <2>4. todo[d].op = "write" => todo[d].write # w
      BY <1>4, WritersWritten DEF Threads
    <2> QED
      BY <1>7, <2>2, <2>3, <2>4
  <1>13. todo["node"].op = "write" => todo["node"].write # w
    BY <1>4, WritersWritten DEF Threads
  <1>14. GoesOn(e, w, of, rest)
    BY <1>1, <1>3, <1>4, <1>5, <1>6, <1>12, <1>13 DEF GoesOn
  <1>15. TodoInv'
    BY <1>4, <1>14, AddedTodo
  <1> QED
    BY <1>11, <1>15

LEMMA EvmWriteInv ==
  ASSUME GuardInv, NEW e \in Evms, Write(e)
  PROVE  GuardInv'
  <1> USE DEF GuardInv
  <1> DEFINE w == todo[e].write
             of == ToSet(frames[e])
             paths == {<<"fills">>}
  <1>1. todo[e].op = "write"
    BY DEF Write
  <1>2. "node" # e /\ e \in Threads /\ Writes(e, paths, of) /\ frames[e] # <<>>
    BY <1>1, EvmsApart
  <1>3. todo[e].left = <<"fills">> /\ Tail(todo[e].left) = <<>> /\ todo[e].frame = 0
    <2>1. todo[e].left = <<"fills">> /\ todo[e].frame = 0
      BY <1>2 DEF Writes
    <2>2. Tail(<<"fills">>) = <<>>
      OBVIOUS
    <2> QED
      BY <2>1, <2>2
  <1>4. /\ WriteAdded(w, Head(todo[e].left), of) /\ w \in Written
        /\ todo' = [todo EXCEPT ![e] = Later(<<>>, w)]
        /\ UNCHANGED <<installed, frames, savepoints, opened, failed, drained>>
    <2>1. paths \in SUBSET {<<"fills">>, <<"accounts">>, <<"fills", "accounts">>}
      OBVIOUS
    <2> HIDE DEF paths
    <2> QED
      BY <1>2, <1>3, <2>1, WriteAdds
  <1> HIDE DEF w
  <1>5. OpenedKept /\ opened' \in Seq(OpenedRecord) /\ Len(opened') = Len(opened)
    BY <1>4 DEF OpenedKept, FrameInv
  <1>6. /\ \A u \in Threads : u # e => todo'[u] = todo[u]
        /\ todo'[e] = Idle
    BY <1>2, <1>4 DEF TodoInv, Later
  <1>7. Quiet(e) /\ Quiet(e)'
    BY <1>1, <1>3, <1>6 DEF Quiet, Idle
  <1>8. /\ \A d \in Evms : SameEvm(d)
        /\ \A d \in Evms : todo'[d] = todo[d] \/ todo[d].frame = 0
    BY <1>2, <1>4, <1>6, <1>7, SameOthers
  <1>9. FrameInv' /\ StackInv' /\ GlobalsInv' /\ CopiesInv' /\ LeftInv'
    <2>1. \A x \in of : \E d \in Evms : x \in ToSet(frames[d])
      OBVIOUS
    <2> QED
      BY <1>4, <1>5, <1>8, <2>1, AddedInv
  <1>10. ASSUME NEW d \in Evms, d # e
         PROVE  /\ \A f \in Mine(d) : opened'[f].kind = opened[f].kind
                /\ of \cap ToSet(frames[d]) = {}
                /\ todo[d].op = "write" => todo[d].write # w
    <2>1. of \cap ToSet(frames[d]) = {}
      BY <1>10, EvmsApart
    <2>2. todo[d].op = "write" => todo[d].write # w
      BY <1>1, <1>2, <1>10, WritersApart DEF Threads, w
    <2> QED
      BY <1>4, <2>1, <2>2
  <1>11. todo["node"].op = "write" => todo["node"].write # w
    BY <1>1, <1>2, WritersApart DEF Threads, w
  <1>12. GoesOn(e, w, of, <<>>)
    BY <1>2, <1>4, <1>10, <1>11 DEF GoesOn
  <1>13. TodoInv'
    BY <1>4, <1>12, AddedTodo
  <1> QED
    BY <1>9, <1>13

-----------------------------------------------------------------------------
(* Frames: their stack and their copies.                                   *)

LEMMA Positions ==
  ASSUME GuardInv, NEW e \in Evms
  PROVE  /\ IsFiniteSet(ToSet(frames[e])) /\ IsFiniteSet(Calls(e)) /\ Cardinality(Calls(e)) \in Nat
         /\ frames[e] # <<>> =>
              /\ Top(e) \in ToSet(frames[e])
              /\ \A f \in ToSet(frames[e]) : f \in Nat /\ f <= Top(e)
              /\ ToSet(Front(frames[e])) = ToSet(frames[e]) \ {Top(e)}
              /\ Front(frames[e]) \in Seq(Nat)
              /\ \A i, j \in 1..Len(Front(frames[e])) :
                   i < j => Front(frames[e])[i] < Front(frames[e])[j]
  <1> USE DEF GuardInv
  <1> DEFINE s == frames[e]
  <1>1. s \in Seq(Nat) /\ Len(s) \in Nat /\ \A i, j \in 1..Len(s) : i < j => s[i] < s[j]
    BY DEF FrameInv, StackInv
  <1>2. IsFiniteSet(ToSet(s))
    <2>1. IsFiniteSet(1..Len(s))
      BY <1>1, FS_Interval
    <2>2. ToSet(s) = {s[i] : i \in 1..Len(s)}
      BY <1>1 DEF ToSet
    <2> DEFINE S == 1..Len(s)
               image == {s[i] : i \in S}
    <2>3. s \in [S -> image]
      BY <1>1
    <2> HIDE DEF S, s
    <2>4. s \in Surjection(S, image)
      BY <2>3 DEF Surjection
    <2>5. IsFiniteSet(S)
      BY <2>1 DEF S
    <2> HIDE DEF image
    <2>6. IsFiniteSet(image)
      BY <2>4, <2>5, FS_Surjection
    <2> QED
      BY <2>2, <2>6 DEF image, S
  <1>3. IsFiniteSet(Calls(e)) /\ Cardinality(Calls(e)) \in Nat
    <2>1. Calls(e) \subseteq ToSet(s)
      BY DEF Calls
    <2> QED
      BY <1>2, <2>1, FS_Subset, FS_CardinalityType
  <1>4. ASSUME s # <<>>
        PROVE  /\ Top(e) \in ToSet(s)
               /\ \A f \in ToSet(s) : f \in Nat /\ f <= Top(e)
               /\ ToSet(Front(s)) = ToSet(s) \ {Top(e)}
               /\ Front(s) \in Seq(Nat)
               /\ \A i, j \in 1..Len(Front(s)) : i < j => Front(s)[i] < Front(s)[j]
    <2> HIDE DEF s
    <2>1. /\ Front(s) \in Seq(Nat) /\ Len(Front(s)) = Len(s) - 1 /\ Len(s) \in Nat \ {0}
          /\ \A i \in 1..Len(s) - 1 : Front(s)[i] = s[i]
          /\ ToSet(s) = ToSet(Front(s)) \cup {s[Len(s)]}
          /\ \A x \in ToSet(Front(s)) : \E i \in 1..Len(s) - 1 : x = s[i]
      BY <1>1, <1>4, PopSet
    <2>2. \A i \in 1..Len(s) : s[i] \in Nat
      BY <1>1
    <2>3. Len(s) \in 1..Len(s) /\ \A i \in 1..Len(s) - 1 : i \in 1..Len(s) /\ i < Len(s)
      BY <2>1
    <2>4. \A x \in ToSet(Front(s)) : x \in Nat /\ x < s[Len(s)]
      <3>1. \A i \in 1..Len(s) - 1 : s[i] \in Nat /\ s[i] < s[Len(s)]
        BY <1>1, <2>2, <2>3
      <3> QED
        BY <2>1, <3>1
    <2>5. s[Len(s)] \in Nat
      BY <2>2, <2>3
    <2>6. s[Len(s)] \notin ToSet(Front(s))
      BY <2>4, <2>5
    <2>7. \A i, j \in 1..Len(Front(s)) : i < j => Front(s)[i] < Front(s)[j]
      BY <1>1, <2>1, <2>3
    <2>8. Top(e) = s[Len(s)]
      BY DEF Top, s
    <2> QED
      BY <2>1, <2>4, <2>5, <2>6, <2>7, <2>8
  <1> QED
    BY <1>2, <1>3, <1>4

\* The place of a call's savepoint: the innermost call's is the last.
LEMMA Places ==
  ASSUME GuardInv, NEW e \in Evms, frames[e] # <<>>
  PROVE  /\ Top(e) \in Calls(e) => /\ Pos(e, Top(e)) = Cardinality(Calls(e))
                                   /\ Cardinality(Calls(e)) >= 1
                                   /\ Cardinality(Calls(e) \ {Top(e)}) = Cardinality(Calls(e)) - 1
         /\ \A f \in Calls(e) \ {Top(e)} :
              Pos(e, f) \in Nat /\ 1 <= Pos(e, f)
              /\ Pos(e, f) <= Cardinality(Calls(e) \ {Top(e)})
  <1>1. /\ IsFiniteSet(Calls(e)) /\ Cardinality(Calls(e)) \in Nat
        /\ \A f \in Calls(e) : f \in Nat /\ f <= Top(e)
        /\ Top(e) \in Nat
    BY Positions DEF Calls
  <1>2. ASSUME Top(e) \in Calls(e)
        PROVE  /\ Pos(e, Top(e)) = Cardinality(Calls(e)) /\ Cardinality(Calls(e)) >= 1
               /\ Cardinality(Calls(e) \ {Top(e)}) = Cardinality(Calls(e)) - 1
    <2>1. {h \in Calls(e) : h <= Top(e)} = Calls(e)
      BY <1>1
    <2>2. Cardinality(Calls(e)) # 0
      BY <1>1, <1>2, FS_EmptySet
    <2>3. Cardinality(Calls(e) \ {Top(e)}) = Cardinality(Calls(e)) - 1
      BY <1>1, <1>2, FS_RemoveElement
    <2>4. Pos(e, Top(e)) = Cardinality(Calls(e))
      BY <2>1 DEF Pos
    <2>5. Cardinality(Calls(e)) >= 1
      BY <1>1, <2>2
    <2> QED
      BY <2>3, <2>4, <2>5
  <1>3. ASSUME NEW f \in Calls(e) \ {Top(e)}
        PROVE  Pos(e, f) \in Nat /\ 1 <= Pos(e, f)
               /\ Pos(e, f) <= Cardinality(Calls(e) \ {Top(e)})
    <2> DEFINE S == {h \in Calls(e) : h <= f}
               R == Calls(e) \ {Top(e)}
    <2>1. f \in S
      BY <1>1
    <2>2. S \subseteq R
      <3>1. f < Top(e)
        BY <1>1
      <3> QED
        BY <1>1, <3>1
    <2>3. IsFiniteSet(R)
      BY <1>1, FS_Subset
    <2>4. IsFiniteSet(S) /\ Cardinality(S) <= Cardinality(R)
      BY <2>2, <2>3, FS_Subset
    <2>5. Cardinality(S) # 0 /\ Cardinality(S) \in Nat
      BY <2>1, <2>4, FS_EmptySet, FS_CardinalityType
    <2>6. Pos(e, f) = Cardinality(S)
      BY DEF Pos
    <2> HIDE DEF S, R
    <2>7. Pos(e, f) \in Nat /\ 1 <= Pos(e, f) /\ Pos(e, f) <= Cardinality(R)
      BY <2>4, <2>5, <2>6
    <2> QED
      BY <2>7 DEF R
  <1> QED
    BY <1>2, <1>3

\* A copy taken now, by the innermost call, before anything is written under
\* it.
LEMMA FreshCopy ==
  ASSUME FrameInv', GlobalsInv', LeftInv', NEW e \in Evms, NEW f \in ToSet(frames'[e]),
         \A h \in ToSet(frames'[e]) : h \in Nat /\ h <= f,
         todo'[e].frame = 0, \A w \in Written' : f \notin writes'[w].of,
         NEW g \in GlobalSet, NEW c \in {Saved(g)'}
  PROVE  CopyInv(f, g, c)'
  <1>1. f \in Mine(e)' /\ f \in Frame' /\ opened'[f].evm = e
    BY DEF FrameInv, Mine
  <1>2. f \in Open'
    BY <1>1 DEF Open, Frame
  <1>3. CASE g \notin installed'
    <2>1. g \notin opened'[f].before
      BY <1>1, <1>3 DEF FrameInv
    <2> QED
      BY <1>3, <2>1 DEF CopyInv, Saved, NotInstalled
  <1>4. CASE g \in installed'
    <2>1. c = globals'[g]
      BY <1>4 DEF Saved
    <2>2. \A w \in c : w \in Written' /\ writes'[w].during[g] # {}
      BY <2>1 DEF GlobalsInv
    <2>3. ASSUME NEW w \in Written' \ c, writes'[w].during[g] # {},
                 ~(g = "fills" /\ w \in DOMAIN drained')
          PROVE  \E x \in writes'[w].during[g] : x \in failed'
      <3>1. OnlyFailedCallsLoseWrites'
        BY DEF GlobalsInv
      <3> QED
        BY <2>1, <2>3, <3>1 DEF OnlyFailedCallsLoseWrites, Written
    <2>4. ASSUME g = "fills", NEW w \in c \cap DOMAIN drained'
          PROVE  \E x \in drained'[w] : x \in failed'
      <3>1. DrainedFillsStayDrained'
        BY DEF GlobalsInv
      <3> QED
        BY <2>1, <2>4, <3>1 DEF DrainedFillsStayDrained
    <2>5. ASSUME NEW w \in c, NEW x \in writes'[w].of
          PROVE  \/ x \notin failed' /\ x \notin Open'
                 \/ opened'[x].kind = "create" \/ g \notin opened'[x].before
                 \/ FailedBeside(x)' # {} \/ Beside(f, x)'
                 \/ opened'[x].evm = opened'[f].evm /\ x < f
                      /\ x \in ToSet(frames'[opened'[f].evm])
      <3>1. x # f /\ x \in Frame'
        BY <2>2 DEF GlobalsInv
      <3>2. \/ x \notin failed' \/ opened'[x].kind = "create" \/ g \notin opened'[x].before
            \/ Pending(x, g)' \/ FailedBeside(x)' # {}
        BY <2>1 DEF LeftInv
      <3>3. Pending(x, g)' => x \in Open'
        BY <3>1 DEF Pending, Open, Frame
      <3>4. ASSUME x \in Open'
            PROVE  \/ Beside(f, x)'
                   \/ opened'[x].evm = e /\ x < f /\ x \in ToSet(frames'[e])
        <4>1. CASE opened'[x].evm # e
          BY <1>1, <1>2, <3>4, <4>1 DEF FrameInv
        <4>2. CASE opened'[x].evm = e
          <5>1. PICK d \in Evms : x \in Mine(d)'
            BY <3>4 DEF Open, Mine
          <5>2. d = e
            BY <4>2, <5>1 DEF FrameInv
          <5>3. x \in ToSet(frames'[e])
            BY <5>1, <5>2 DEF Mine
          <5>4. x < f
            BY <3>1, <5>3
          <5> QED
            BY <4>2, <5>3, <5>4
        <4> QED
          BY <4>1, <4>2
      <3> QED
        BY <1>1, <3>2, <3>3, <3>4
    <2> QED
      BY <2>2, <2>3, <2>4, <2>5 DEF CopyInv
  <1> QED
    BY <1>3, <1>4

\* Steps that change no global.
LEMMA GlobalsKept ==
  ASSUME GuardInv, OpenedKept, Frame \subseteq Frame',
         UNCHANGED <<installed, globals, failed, writes, drained>>,
         \A x \in Frame : \A g : Pending(x, g) => Pending(x, g)'
  PROVE  GlobalsInv' /\ LeftInv'
  <1> USE DEF GuardInv
  <1>1. Written' = Written
    BY DEF Written
  <1>2. OnlyFailedCallsLoseWrites' /\ DrainedFillsStayDrained'
    BY DEF GlobalsInv, OnlyFailedCallsLoseWrites, DrainedFillsStayDrained
  <1>3. \A w \in Written' : writes'[w].of \subseteq Frame'
    BY <1>1 DEF GlobalsInv
  <1>4. GlobalsInv'
    BY <1>1, <1>2, <1>3 DEF GlobalsInv
  <1>5. ASSUME NEW g \in GlobalSet, NEW w \in globals[g], NEW x \in writes[w].of
        PROVE  \/ x \notin failed \/ opened'[x].kind = "create" \/ g \notin opened'[x].before
               \/ Pending(x, g)' \/ FailedBeside(x)' # {}
    <2>1. x \in Frame
      BY DEF GlobalsInv
    <2>2. \/ x \notin failed \/ opened[x].kind = "create" \/ g \notin opened[x].before
          \/ Pending(x, g) \/ FailedBeside(x) # {}
      BY DEF LeftInv
    <2>3. FailedBeside(x) # {} => FailedBeside(x)' # {}
      BY <2>1, BesideStays
    <2>4. /\ opened'[x].before = opened[x].before
          /\ opened'[x].kind = "create" <=> opened[x].kind = "create"
      BY <2>1 DEF OpenedKept
    <2> QED
      BY <2>1, <2>2, <2>3, <2>4
  <1>6. LeftInv'
    BY <1>5 DEF LeftInv
  <1> QED
    BY <1>4, <1>6

\* A new frame: what is known of it and of the frame that opens it.
LEMMA FrameOpened ==
  ASSUME GuardInv, NEW e \in Evms, NEW kind \in {"call", "create"}, Enter(e, kind)
  PROVE  LET n == Len(opened) + 1
         IN /\ opened' \in Seq(OpenedRecord) /\ Len(opened') = n /\ Len(opened) \in Nat
            /\ Frame' = Frame \cup {n} /\ n \notin Frame /\ n \in Nat /\ n # 0
            /\ \A f \in Frame : f < n
            /\ opened'[n].kind = kind /\ opened'[n].evm = e /\ opened'[n].before \subseteq installed
            /\ opened'[n].beside = {h \in Open : opened[h].evm # e}
            /\ OpenedKept
            /\ \A f \in Frame : frames[e] = <<>> \/ f # Top(e) => opened'[f] = opened[f]
  <1> DEFINE n == Len(opened) + 1
             named(f) == opened[f].kind = "call" /\ frames[e] # <<>> /\ f = Top(e)
             mid == [f \in DOMAIN opened |->
                       IF opened[f].kind = "call" /\ frames[e] # <<>> /\ f = Top(e)
                       THEN [opened[f] EXCEPT !.kind = "contract"] ELSE opened[f]]
             new == [kind |-> kind, evm |-> e,
                     beside |-> {h \in Open : opened[h].evm # e},
                     before |-> IF kind = "create" THEN {} ELSE installed]
  <1>1. opened' = Append(mid, new)
    BY DEF Enter
  <1>2. opened \in Seq(OpenedRecord) /\ Len(opened) \in Nat /\ DOMAIN opened = Frame
    BY DEF GuardInv, FrameInv, Frame
  <1>3. \A f \in Frame : opened[f] \in OpenedRecord
    BY <1>2 DEF Frame
  <1>4. \A f \in Frame : mid[f] = IF named(f) THEN [opened[f] EXCEPT !.kind = "contract"]
                                  ELSE opened[f]
    BY <1>2
  <1>5. ASSUME NEW f \in Frame
        PROVE  /\ mid[f] \in OpenedRecord
               /\ mid[f].evm = opened[f].evm /\ mid[f].beside = opened[f].beside
               /\ mid[f].before = opened[f].before
               /\ mid[f].kind = "create" <=> opened[f].kind = "create"
               /\ frames[e] = <<>> \/ f # Top(e) => mid[f] = opened[f]
    <2> DEFINE r == [opened[f] EXCEPT !.kind = "contract"]
    <2>1. opened[f] \in OpenedRecord
      BY <1>3
    <2>2. /\ r \in OpenedRecord /\ r.evm = opened[f].evm /\ r.beside = opened[f].beside
          /\ r.before = opened[f].before /\ r.kind = "contract"
      BY <2>1 DEF OpenedRecord
    <2>3. mid[f] = IF named(f) THEN r ELSE opened[f]
      BY <1>4
    <2>4. named(f) => opened[f].kind = "call" /\ ~(frames[e] = <<>> \/ f # Top(e))
      OBVIOUS
    <2> HIDE DEF r, mid, named
    <2> QED
      BY <2>1, <2>2, <2>3, <2>4
  <1>6. mid \in Seq(OpenedRecord) /\ Len(mid) = Len(opened)
    <2>1. mid \in [1..Len(opened) -> OpenedRecord]
      <3>1. DOMAIN mid = Frame
        BY <1>2
      <3> QED
        BY <1>2, <1>5 DEF Frame
    <2> HIDE DEF mid
    <2> QED
      BY <1>2, <2>1
  <1>7. new \in OpenedRecord
    <2>1. {h \in Open : opened[h].evm # e} \in SUBSET Nat
      BY OpenIs DEF GuardInv, Frame
    <2>2. installed \in SUBSET GlobalSet
      BY DEF GuardInv, GlobalsInv
    <2> QED
      BY <2>1, <2>2 DEF OpenedRecord
  <1>8. /\ new.kind = kind /\ new.evm = e /\ new.before \subseteq installed
        /\ new.beside = {h \in Open : opened[h].evm # e}
    OBVIOUS
  <1> HIDE DEF mid, new
  <1>9. /\ opened' \in Seq(OpenedRecord) /\ Len(opened') = n /\ opened'[n] = new
        /\ \A f \in 1..Len(opened) : opened'[f] = mid[f]
    BY <1>1, <1>6, <1>7, PushSet
  <1>10. /\ Frame' = Frame \cup {n} /\ n \notin Frame /\ n \in Nat /\ n # 0
         /\ \A f \in Frame : f < n
    BY <1>2, <1>9 DEF Frame
  <1>11. \A f \in Frame : opened'[f] = mid[f]
    BY <1>9 DEF Frame
  <1>12. OpenedKept
    <2>1. Len(opened') \in Nat /\ Len(opened) <= Len(opened')
      BY <1>2, <1>9
    <2> QED
      BY <1>5, <1>11, <2>1 DEF OpenedKept
  <1> HIDE DEF n
  <1> QED
    BY <1>2, <1>5, <1>8, <1>9, <1>10, <1>11, <1>12 DEF n

\* The threads that the step of EVM e does not concern.
LEMMA OthersTodo ==
  ASSUME GuardInv, NEW e \in Evms, NEW now \in TodoRecord,
         todo' = [todo EXCEPT ![e] = now],
         UNCHANGED writes, \A d \in Evms : d # e => frames'[d] = frames[d],
         failed \subseteq failed',
         \A d \in Evms : d # e => \A f \in Mine(d) : opened'[f].kind = opened[f].kind,
         EvmTodo(e)'
  PROVE  TodoInv' /\ todo'[e] = now /\ \A d \in Evms : d # e => todo'[d] = todo[d]
  <1> USE DEF GuardInv
  <1>1. e \in Threads /\ "node" \in Threads /\ "node" # e /\ \A d \in Evms : d \in Threads
    BY EvmsApart DEF Threads
  <1>2. /\ todo' \in [Threads -> TodoRecord] /\ todo'[e] = now
        /\ \A u \in Threads : u # e => todo'[u] = todo[u]
    BY <1>1 DEF TodoInv
  <1>3. Written' = Written
    BY DEF Written
  <1>4. NodeTodo'
    BY <1>1, <1>2, <1>3, NodeTodoKept DEF TodoInv
  <1>5. ASSUME NEW d \in Evms, d # e PROVE EvmTodo(d)'
    <2>1. todo'[d] = todo[d] /\ frames'[d] = frames[d] /\ EvmTodo(d)
      BY <1>1, <1>2, <1>5 DEF TodoInv
    <2>2. \A f \in Mine(d) : opened'[f].kind = opened[f].kind
      BY <1>5
    <2> QED
      BY <1>3, <2>1, <2>2, EvmTodoKept
  <1>6. \A d \in Evms : EvmTodo(d)'
    BY <1>5
  <1> QED
    BY <1>1, <1>2, <1>4, <1>6 DEF TodoInv

\* The stack and the copies when only those of EVM e change.
LEMMA OthersCopies ==
  ASSUME GuardInv, Grows, NEW e \in Evms, \A d \in Evms : d # e => SameEvm(d),
         \A i, j \in 1..Len(frames'[e]) : i < j => frames'[e][i] < frames'[e][j],
         savepoints' \in [Evms -> Seq([GlobalSet -> SUBSET Int])],
         Len(savepoints'[e])
           = Cardinality(Calls(e)') - (IF todo'[e].op = "snapshot" THEN 1 ELSE 0),
         \A f \in Owners(e)' : \A g \in Taken(e, f)' :
           \A c \in {CopyOf(e, f)'[g]} : CopyInv(f, g, c)'
  PROVE  StackInv' /\ CopiesInv'
  <1>1. StackInv'
    BY SameStack DEF StackInv, Grows
  <1>2. CopiesInv'
    BY SameCopies DEF CopiesInv
  <1> QED
    BY <1>1, <1>2

LEMMA SavedType ==
  ASSUME GuardInv, NEW g \in GlobalSet
  PROVE  Saved(g) \in SUBSET Int
  BY DEF GuardInv, GlobalsInv, Saved, NotInstalled, Written

LEMMA IdleRecord == Idle \in TodoRecord
  <1>1. <<>> \in Seq(GlobalSet)
    OBVIOUS
  <1>2. <<>> \in (UNION {[D -> SUBSET Int] : D \in SUBSET GlobalSet}) \cup {<<>>}
    OBVIOUS
  <1> QED
    BY <1>1, <1>2 DEF Idle, TodoRecord, Ops

\* A record of a thread that copies or puts back.
LEMMA CopyRecord ==
  ASSUME NEW op \in {"snapshot", "restore"}, NEW left \in {<<"book", "fills">>, <<"fills">>},
         NEW frame \in Nat, NEW D \in SUBSET GlobalSet, NEW snap \in [D -> SUBSET Int]
  PROVE  [op |-> op, left |-> left, write |-> 0, frame |-> frame, snap |-> snap] \in TodoRecord
  <1>1. "fills" \in GlobalSet /\ "book" \in GlobalSet
    BY DEF GlobalSet
  <1>2. <<"book", "fills">> \in Seq(GlobalSet) /\ <<"fills">> \in Seq(GlobalSet)
    BY <1>1
  <1>3. left \in Seq(GlobalSet)
    BY <1>2
  <1>4. snap \in (UNION {[E -> SUBSET Int] : E \in SUBSET GlobalSet}) \cup {<<>>}
    OBVIOUS
  <1> QED
    BY <1>3, <1>4 DEF TodoRecord, Ops

\* Idle, changed to copy or to put back.
LEMMA IdleChanged ==
  ASSUME NEW op, NEW left, NEW frame, NEW snap
  PROVE  /\ [Idle EXCEPT !.op = op, !.left = left, !.snap = snap]
              = [op |-> op, left |-> left, write |-> 0, frame |-> 0, snap |-> snap]
         /\ [Idle EXCEPT !.op = op, !.left = left, !.frame = frame, !.snap = snap]
              = [op |-> op, left |-> left, write |-> 0, frame |-> frame, snap |-> snap]
  <1> DEFINE copying == [Idle EXCEPT !.op = op, !.left = left, !.snap = snap]
             putting == [Idle EXCEPT !.op = op, !.left = left, !.frame = frame, !.snap = snap]
  <1>1. /\ copying \in [op : {op}, left : {left}, write : {0}, frame : {0}, snap : {snap}]
        /\ putting \in [op : {op}, left : {left}, write : {0}, frame : {frame}, snap : {snap}]
    BY DEF Idle
  <1> HIDE DEF copying, putting
  <1>2. /\ copying = [op |-> op, left |-> left, write |-> 0, frame |-> 0, snap |-> snap]
        /\ putting = [op |-> op, left |-> left, write |-> 0, frame |-> frame, snap |-> snap]
    BY <1>1
  <1> QED
    BY <1>2 DEF copying, putting

LEMMA EnterInv ==
  ASSUME GuardInv, NEW e \in Evms, NEW kind \in {"call", "create"}, Enter(e, kind)
  PROVE  GuardInv'
  <1> USE DEF GuardInv
  <1> DEFINE n == Len(opened) + 1
             first == [accounts |-> Saved("accounts")]
             now == IF kind = "create" THEN todo[e]
                    ELSE [op |-> "snapshot", left |-> <<"book", "fills">>, write |-> 0,
                          frame |-> 0, snap |-> first]
  <1>1. /\ todo[e] = Idle
        /\ frames' = [frames EXCEPT ![e] = Append(@, n)]
        /\ UNCHANGED <<installed, globals, savepoints, failed, writes, drained>>
    BY DEF Enter, Running
  <1>2. e \in Threads /\ todo \in [Threads -> TodoRecord] /\ frames \in [Evms -> Seq(Nat)]
        /\ frames[e] \in Seq(Nat)
    BY EvmsApart DEF TodoInv, FrameInv
  <1>3. todo' = [todo EXCEPT ![e] = now]
    <2>1. CASE kind = "create"
      <3>1. todo' = todo /\ now = todo[e]
        BY <2>1 DEF Enter
      <3> HIDE DEF now
      <3> QED
        BY <1>2, <3>1
    <2>2. CASE kind = "call"
      <3> DEFINE call == [op |-> "snapshot", left |-> <<"book", "fills">>, write |-> 0,
                          frame |-> 0, snap |-> first]
      <3>1. [Idle EXCEPT !.op = "snapshot", !.left = <<"book", "fills">>, !.snap = first] = now
        <4>1. now = call
          BY <2>2
        <4> HIDE DEF first, now
        <4>2. [Idle EXCEPT !.op = "snapshot", !.left = <<"book", "fills">>, !.snap = first] = call
          BY IdleChanged
        <4> QED
          BY <4>1, <4>2
      <3>2. todo' = [todo EXCEPT ![e] = [Idle EXCEPT !.op = "snapshot",
                                             !.left = <<"book", "fills">>, !.snap = first]]
        BY <2>2 DEF Enter
      <3> HIDE DEF now
      <3> QED
        BY <3>1, <3>2
    <2> QED
      BY <2>1, <2>2
  <1>4. first \in [{"accounts"} -> SUBSET Int] /\ first["accounts"] = Saved("accounts")
        /\ "accounts" \in GlobalSet
    BY SavedType DEF GlobalSet
  <1>5. now \in TodoRecord
    <2>1. {"accounts"} \in SUBSET GlobalSet
      BY <1>4
    <2> HIDE DEF first
    <2> QED
      BY <1>1, <1>4, <2>1, CopyRecord, IdleRecord
  <1>6. /\ now.frame = 0
        /\ kind = "create" => now = Idle /\ now.op = "idle"
        /\ kind = "call" => /\ now.op = "snapshot" /\ now.left = <<"book", "fills">>
                            /\ now.snap = first
    BY <1>1 DEF Idle
  <1> HIDE DEF now, first
  <1>7. /\ opened' \in Seq(OpenedRecord) /\ Len(opened') = n /\ Len(opened) \in Nat
        /\ Frame' = Frame \cup {n} /\ n \notin Frame /\ n \in Nat /\ n # 0
        /\ \A f \in Frame : f < n
        /\ opened'[n].kind = kind /\ opened'[n].evm = e /\ opened'[n].before \subseteq installed
        /\ opened'[n].beside = {h \in Open : opened[h].evm # e}
        /\ OpenedKept
        /\ \A f \in Frame : frames[e] = <<>> \/ f # Top(e) => opened'[f] = opened[f]
    BY FrameOpened
  <1> HIDE DEF n
  <1>8. /\ frames'[e] = Append(frames[e], n) /\ frames' \in [Evms -> Seq(Nat)]
        /\ \A d \in Evms : d # e => frames'[d] = frames[d]
        /\ ToSet(frames'[e]) = ToSet(frames[e]) \cup {n}
        /\ Len(frames'[e]) = Len(frames[e]) + 1 /\ frames'[e][Len(frames[e]) + 1] = n
        /\ \A i \in 1..Len(frames[e]) : frames'[e][i] = frames[e][i]
    <2>1. frames'[e] = Append(frames[e], n) /\ \A d \in Evms : d # e => frames'[d] = frames[d]
      BY <1>1, <1>2
    <2>2. /\ Append(frames[e], n) \in Seq(Nat) /\ ToSet(Append(frames[e], n)) = ToSet(frames[e]) \cup {n}
          /\ Len(Append(frames[e], n)) = Len(frames[e]) + 1
          /\ Append(frames[e], n)[Len(frames[e]) + 1] = n
          /\ \A i \in 1..Len(frames[e]) : Append(frames[e], n)[i] = frames[e][i]
      BY <1>2, <1>7, PushSet
    <2> DEFINE stack == Append(frames[e], n)
    <2>3. frames' = [frames EXCEPT ![e] = stack] /\ stack \in Seq(Nat)
      BY <1>1, <2>2
    <2> HIDE DEF stack
    <2>4. frames' \in [Evms -> Seq(Nat)]
      BY <1>2, <2>3
    <2> QED
      BY <2>1, <2>2, <2>4
  <1>9. Top(e)' = n /\ frames'[e] # <<>>
    <2>1. Len(frames[e]) \in Nat
      BY <1>2
    <2> QED
      BY <1>8, <2>1 DEF Top
  <1>10. \A d \in Evms : d # e => \A f \in Mine(d) : opened'[f].kind = opened[f].kind
    <2> SUFFICES ASSUME NEW d \in Evms, d # e, NEW f \in Mine(d)
                 PROVE  opened'[f] = opened[f]
      OBVIOUS
    <2>1. f \in Frame /\ opened[f].evm = d
      BY DEF FrameInv
    <2>2. frames[e] # <<>> => opened[Top(e)].evm = e
      BY EvmsApart DEF FrameInv, Mine
    <2> QED
      BY <1>7, <2>1, <2>2
  <1>11. kind = "call" => Snapshots(e)'
    <2> SUFFICES ASSUME kind = "call" PROVE todo'[e] = now => Snapshots(e)'
      BY <1>2, <1>3
    <2>1. \A w \in Written' : n \notin writes'[w].of
      BY <1>1, <1>7 DEF GlobalsInv, Written
    <2> QED
      BY <1>4, <1>6, <1>7, <1>9, <2>1 DEF Snapshots
  <1>12. EvmTodo(e)'
    BY <1>2, <1>3, <1>6, <1>11 DEF EvmTodo
  <1>13. TodoInv' /\ todo'[e] = now /\ \A d \in Evms : d # e => todo'[d] = todo[d]
    <2>1. UNCHANGED writes /\ failed \subseteq failed'
      BY <1>1
    <2> QED
      BY <1>3, <1>5, <1>8, <1>10, <1>12, <2>1, OthersTodo
  <1>14. \A d \in Evms : d # e => SameEvm(d)
    BY <1>1, <1>8, <1>13 DEF SameEvm
  <1>15. /\ Mine(e)' = Mine(e) \cup {n} /\ \A d \in Evms : d # e => Mine(d)' = Mine(d)
         /\ Mine(e) = ToSet(frames[e])
    BY <1>1, <1>6, <1>8, <1>13 DEF Mine, Idle
  <1>16. Open' = Open \cup {n}
    <2>1. \A d \in Evms : todo'[d].frame = todo[d].frame
      BY <1>1, <1>6, <1>13 DEF Idle
    <2>2. \A d \in Evms : ToSet(frames'[d]) = ToSet(frames[d]) \cup (IF d = e THEN {n} ELSE {})
      BY <1>8
    <2>3. ASSUME NEW x
          PROVE  (x # 0 /\ \E d \in Evms : x \in ToSet(frames'[d]) \/ x = todo'[d].frame)
                   <=> (x = n \/ (x # 0 /\ \E d \in Evms : x \in ToSet(frames[d]) \/ x = todo[d].frame))
      <3>1. ASSUME NEW d \in Evms
            PROVE  (x \in ToSet(frames'[d]) \/ x = todo'[d].frame)
                     <=> (x \in ToSet(frames[d]) \/ x = todo[d].frame \/ (x = n /\ d = e))
        BY <2>1, <2>2
      <3> QED
        BY <1>7, <3>1
    <2>4. \A x : x \in Open' <=> x \in Open \cup {n}
      BY <2>3, InOpen
    <2> QED
      BY <2>4
  <1>17. FrameInv'
    <2>1. \A d \in Evms : \A f \in Mine(d)' : f \in Frame' /\ opened'[f].evm = d
      <3> SUFFICES ASSUME NEW d \in Evms, NEW f \in Mine(d)'
                   PROVE  f \in Frame' /\ opened'[f].evm = d
        OBVIOUS
      <3>1. CASE f \in Mine(d)
        BY <1>7, <3>1 DEF FrameInv, OpenedKept
      <3>2. CASE f \notin Mine(d)
        BY <1>7, <1>15, <3>2
      <3> QED
        BY <3>1, <3>2
    <2>2. Open \subseteq Frame
      BY OpenIs
    <2>3. ASSUME NEW f \in Frame', NEW h \in opened'[f].beside
          PROVE  h \in Frame' /\ opened'[h].evm # opened'[f].evm
      <3>1. CASE f = n
        BY <1>7, <2>2, <2>3, <3>1 DEF OpenedKept
      <3>2. CASE f # n
        BY <1>7, <2>3, <3>2 DEF OpenedKept, FrameInv
      <3> QED
        BY <3>1, <3>2
    <2>4. ASSUME NEW f \in Open', NEW h \in Open', opened'[f].evm # opened'[h].evm
          PROVE  Beside(f, h)'
      <3>1. CASE f \in Open /\ h \in Open
        BY <1>7, <2>2, <2>4, <3>1 DEF FrameInv, Beside, OpenedKept
      <3>2. CASE f = n \/ h = n
        <4>1. \A x \in Open : opened[x].evm # e => x \in opened'[n].beside
          BY <1>7
        <4>2. \A x \in Open : opened'[x].evm = opened[x].evm
          BY <1>7, <2>2 DEF OpenedKept
        <4> QED
          BY <1>7, <1>16, <2>4, <3>2, <4>1, <4>2 DEF Beside
      <3> QED
        BY <1>16, <3>1, <3>2
    <2>5. \A f \in Frame' : opened'[f].before \subseteq installed'
      BY <1>1, <1>7 DEF FrameInv, OpenedKept
    <2>6. failed' \subseteq Frame'
      BY <1>1, <1>7 DEF FrameInv
    <2>7. ASSUME NEW d \in Evms PROVE ToSet(frames'[d]) \cap failed' = {}
      <3>1. ToSet(frames[d]) \cap failed = {} /\ n \notin failed
        BY <1>7 DEF FrameInv
      <3>2. ToSet(frames'[d]) \subseteq ToSet(frames[d]) \cup {n}
        BY <1>8
      <3> QED
        BY <1>1, <3>1, <3>2
    <2> QED
      BY <1>7, <1>8, <2>1, <2>3, <2>4, <2>5, <2>6, <2>7 DEF FrameInv
  <1>18. Grows
    BY <1>1, <1>7, <1>16 DEF Grows, GlobalsInv, Written
  <1>19. GlobalsInv' /\ LeftInv'
    <2>1. ASSUME NEW x \in Frame, NEW g, Pending(x, g)
          PROVE  Pending(x, g)'
      <3>1. PICK d \in Evms : x \in ToSet(frames[d]) \/ (x = todo[d].frame /\ g \in ToSet(todo[d].left))
        BY <2>1 DEF Pending
      <3>2. x # 0
        BY DEF Frame
      <3>3. CASE d = e
        BY <1>1, <1>8, <3>1, <3>2, <3>3 DEF Pending, Idle
      <3>4. CASE d # e
        BY <1>8, <1>13, <3>1, <3>4 DEF Pending
      <3> QED
        BY <3>3, <3>4
    <2>2. Frame \subseteq Frame'
      BY <1>7
    <2> QED
      BY <1>1, <1>7, <2>1, <2>2, GlobalsKept
  <1>20. \A i, j \in 1..Len(frames'[e]) : i < j => frames'[e][i] < frames'[e][j]
    <2>1. Len(frames[e]) \in Nat
      BY <1>2
    <2>2. \A i \in 1..Len(frames[e]) : frames[e][i] \in ToSet(frames[e])
      BY <1>2 DEF ToSet
    <2>3. \A i \in 1..Len(frames[e]) : frames[e][i] < n
      BY <1>7, <1>15, <2>2 DEF FrameInv
    <2>4. \A i, j \in 1..Len(frames[e]) : i < j => frames[e][i] < frames[e][j]
      BY DEF StackInv
    <2>5. /\ Len(frames'[e]) = Len(frames[e]) + 1
          /\ frames'[e][Len(frames[e]) + 1] = n
          /\ \A i \in 1..Len(frames[e]) : frames'[e][i] = frames[e][i]
      BY <1>2, <1>8, <2>1
    <2> SUFFICES ASSUME NEW i \in 1..(Len(frames[e]) + 1), NEW j \in 1..(Len(frames[e]) + 1), i < j
                 PROVE  frames'[e][i] < frames'[e][j]
      BY <2>5
    <2>6. i \in 1..Len(frames[e])
      BY <2>1
    <2>7. CASE j = Len(frames[e]) + 1
      BY <2>3, <2>5, <2>6, <2>7
    <2>8. CASE j # Len(frames[e]) + 1
      <3>1. j \in 1..Len(frames[e])
        BY <2>1, <2>8
      <3> QED
        BY <2>4, <2>5, <2>6, <3>1
    <2> QED
      BY <2>7, <2>8
  <1>21. /\ Calls(e)' = Calls(e) \cup (IF kind = "call" THEN {n} ELSE {})
         /\ n \notin Calls(e) /\ \A f \in Calls(e) : f \in Frame /\ f \in Mine(e)
    <2>1. ToSet(frames[e]) \subseteq Frame
      BY DEF FrameInv, Mine
    <2>2. \A f \in ToSet(frames[e]) : opened'[f].kind = "create" <=> opened[f].kind = "create"
      BY <1>7, <2>1 DEF OpenedKept
    <2> QED
      BY <1>7, <1>8, <1>15, <2>1, <2>2 DEF Calls
  <1>22. /\ savepoints' \in [Evms -> Seq([GlobalSet -> SUBSET Int])]
         /\ Len(savepoints'[e])
              = Cardinality(Calls(e)') - (IF todo'[e].op = "snapshot" THEN 1 ELSE 0)
    <2>1. IsFiniteSet(Calls(e)) /\ Cardinality(Calls(e)) \in Nat
      BY Positions
    <2>2. savepoints \in [Evms -> Seq([GlobalSet -> SUBSET Int])]
          /\ Len(savepoints[e]) = Cardinality(Calls(e))
      BY <1>1, <2>1 DEF StackInv, Idle
    <2>3. CASE kind = "create"
      BY <1>1, <1>6, <1>13, <1>21, <2>1, <2>2, <2>3
    <2>4. CASE kind = "call"
      <3>1. Cardinality(Calls(e)') = Cardinality(Calls(e)) + 1
        BY <1>21, <2>1, <2>4, FS_AddElement
      <3> QED
        BY <1>1, <1>6, <1>13, <2>1, <2>2, <2>4, <3>1
    <2> QED
      BY <2>3, <2>4
  <1>23. ASSUME NEW f \in Owners(e)', NEW g \in Taken(e, f)', NEW c \in {CopyOf(e, f)'[g]}
         PROVE  CopyInv(f, g, c)'
    <2>1. f \in Calls(e)' /\ g \in GlobalSet
      BY <1>6, <1>13 DEF Owners, Taken
    <2>2. CASE f = n
      <3>1. kind = "call"
        BY <1>21, <2>1, <2>2
      <3>2. Copying(e, f)' /\ f # 0
        BY <1>6, <1>7, <1>9, <1>13, <2>2, <3>1 DEF Copying
      <3>3. g \notin {"book", "fills"} /\ CopyOf(e, f)' = first
        BY <1>6, <1>13, <3>1, <3>2 DEF Taken, CopyOf, ToSet
      <3>4. g = "accounts"
        BY <2>1, <3>3 DEF GlobalSet
      <3>5. c \in {Saved(g)'}
        BY <1>1, <1>4, <3>3, <3>4 DEF Saved
      <3>6. \A h \in ToSet(frames'[e]) : h \in Nat /\ h <= f
        <4>1. \A h \in ToSet(frames[e]) : h \in Frame
          BY <1>15 DEF FrameInv
        <4> QED
          BY <1>7, <1>8, <2>2, <4>1 DEF Frame
      <3>7. f \in ToSet(frames'[e]) /\ todo'[e].frame = 0
        BY <1>6, <1>8, <1>13, <2>2
      <3>8. \A w \in Written' : f \notin writes'[w].of
        BY <1>1, <1>7, <2>2 DEF GlobalsInv, Written
      <3> QED
        BY <1>17, <1>19, <2>1, <3>5, <3>6, <3>7, <3>8, FreshCopy
    <2>3. CASE f # n
      <3>1. f \in Calls(e) /\ f \in Frame /\ f \in Mine(e) /\ f < n
        BY <1>7, <1>21, <2>1, <2>3
      <3>2. f # 0 /\ f \in Nat /\ n \in Nat
        BY <1>7, <3>1 DEF Frame
      <3>3. Pos(e, f)' = Pos(e, f)
        <4>1. {h \in Calls(e)' : h <= f} = {h \in Calls(e) : h <= f}
          BY <1>21, <3>1, <3>2
        <4> QED
          BY <4>1 DEF Pos
      <3>4. CopyOf(e, f)' = savepoints[e][Pos(e, f)]
        BY <1>1, <1>6, <1>9, <1>13, <2>3, <3>2, <3>3 DEF CopyOf, Copying
      <3>5. CopyOf(e, f) = savepoints[e][Pos(e, f)] /\ Taken(e, f) = GlobalSet
        BY <1>1, <3>2 DEF CopyOf, Copying, Taken, Idle
      <3>6. CopyInv(f, g, c)
        BY <2>1, <3>1, <3>4, <3>5 DEF CopiesInv, Owners
      <3>7. \A x \in ToSet(frames[e]) : x < f => x \in ToSet(frames'[e])
        BY <1>8
      <3> QED
        BY <1>18, <2>1, <3>1, <3>6, <3>7, OpenCopyKept
    <2> QED
      BY <2>2, <2>3
  <1>24. StackInv' /\ CopiesInv'
    BY <1>14, <1>18, <1>20, <1>22, <1>23, OthersCopies
  <1> QED
    BY <1>13, <1>17, <1>19, <1>24

\* One global more of the copy that the innermost call of e takes.
LEMMA CopyGrows ==
  ASSUME GuardInv, NEW e \in Evms, todo[e].op = "snapshot"
  PROVE  LET g == Head(todo[e].left)
             snap == [x \in DOMAIN todo[e].snap \cup {g} |->
                        IF x = g THEN Saved(g) ELSE todo[e].snap[x]]
         IN /\ Snapshots(e) /\ g \in GlobalSet /\ snap[g] = Saved(g)
            /\ \A x \in GlobalSet \ ToSet(todo[e].left) : x # g /\ snap[x] = todo[e].snap[x]
            /\ \/ /\ Len(todo[e].left) = 2 /\ Tail(todo[e].left) = <<"fills">>
                  /\ snap \in [{"accounts", "book"} -> SUBSET Int]
                  /\ GlobalSet \ ToSet(<<"fills">>) = (GlobalSet \ ToSet(todo[e].left)) \cup {g}
               \/ /\ Len(todo[e].left) = 1
                  /\ snap \in [GlobalSet -> SUBSET Int]
                  /\ GlobalSet = (GlobalSet \ ToSet(todo[e].left)) \cup {g}
  <1> DEFINE old == todo[e].snap
             g == Head(todo[e].left)
             snap == [x \in DOMAIN old \cup {g} |-> IF x = g THEN Saved(g) ELSE old[x]]
  <1>1. Snapshots(e)
    BY DEF GuardInv, TodoInv, EvmTodo, Idle, Restores, Writes
  <1>2. ToSet(<<"book", "fills">>) = {"book", "fills"} /\ ToSet(<<"fills">>) = {"fills"}
    BY DEF ToSet
  <1>3. CASE todo[e].left = <<"book", "fills">> /\ old \in [{"accounts"} -> SUBSET Int]
    <2>1. g = "book" /\ Len(todo[e].left) = 2 /\ Tail(todo[e].left) = <<"fills">>
      BY <1>3
    <2>2. g \in GlobalSet /\ GlobalSet \ ToSet(todo[e].left) = {"accounts"}
          /\ GlobalSet \ ToSet(<<"fills">>) = {"accounts", "book"}
      BY <1>2, <1>3, <2>1 DEF GlobalSet
    <2>3. Saved(g) \in SUBSET Int
      BY <2>2, SavedType
    <2> HIDE DEF g, old
    <2>4. snap \in [{"accounts", "book"} -> SUBSET Int]
      <3>1. DOMAIN old \cup {g} = {"accounts", "book"}
        BY <1>3, <2>1
      <3> QED
        BY <1>3, <2>1, <2>3, <3>1
    <2>5. snap[g] = Saved(g) /\ snap["accounts"] = old["accounts"]
      BY <1>3, <2>1
    <2> HIDE DEF snap
    <2>6. /\ Snapshots(e) /\ g \in GlobalSet /\ snap[g] = Saved(g)
          /\ \A x \in GlobalSet \ ToSet(todo[e].left) : x # g /\ snap[x] = old[x]
          /\ Len(todo[e].left) = 2 /\ Tail(todo[e].left) = <<"fills">>
          /\ snap \in [{"accounts", "book"} -> SUBSET Int]
          /\ GlobalSet \ ToSet(<<"fills">>) = (GlobalSet \ ToSet(todo[e].left)) \cup {g}
      BY <1>1, <2>1, <2>2, <2>4, <2>5
    <2> QED
      BY <2>6 DEF snap, g, old
  <1>4. CASE todo[e].left = <<"fills">> /\ old \in [{"accounts", "book"} -> SUBSET Int]
    <2>1. g = "fills" /\ Len(todo[e].left) = 1
      BY <1>4
    <2>2. g \in GlobalSet /\ GlobalSet \ ToSet(todo[e].left) = {"accounts", "book"}
          /\ GlobalSet = {"accounts", "book", "fills"}
      BY <1>2, <1>4, <2>1 DEF GlobalSet
    <2>3. Saved(g) \in SUBSET Int
      BY <2>2, SavedType
    <2> HIDE DEF g, old
    <2>4. snap \in [GlobalSet -> SUBSET Int]
      <3>1. DOMAIN old \cup {g} = GlobalSet
        BY <1>4, <2>1, <2>2
      <3> QED
        BY <1>4, <2>1, <2>3, <3>1
    <2>5. snap[g] = Saved(g) /\ snap["accounts"] = old["accounts"] /\ snap["book"] = old["book"]
      BY <1>4, <2>1
    <2> HIDE DEF snap
    <2>6. /\ Snapshots(e) /\ g \in GlobalSet /\ snap[g] = Saved(g)
          /\ \A x \in GlobalSet \ ToSet(todo[e].left) : x # g /\ snap[x] = old[x]
          /\ Len(todo[e].left) = 1 /\ snap \in [GlobalSet -> SUBSET Int]
          /\ GlobalSet = (GlobalSet \ ToSet(todo[e].left)) \cup {g}
      BY <1>1, <2>1, <2>2, <2>4, <2>5
    <2> QED
      BY <2>6 DEF snap, g, old
  <1> QED
    BY <1>1, <1>3, <1>4 DEF Snapshots

LEMMA SnapshotInv ==
  ASSUME GuardInv, NEW e \in Evms, Snapshot(e)
  PROVE  GuardInv'
  <1> USE DEF GuardInv
  <1> DEFINE left == todo[e].left
             g0 == Head(left)
             snap == [x \in DOMAIN todo[e].snap \cup {g0} |->
                        IF x = g0 THEN Saved(g0) ELSE todo[e].snap[x]]
             top == Top(e)
             more == Len(left) > 1
             now == IF more THEN [todo[e] EXCEPT !.left = Tail(left), !.snap = snap] ELSE Idle
  <1>1. /\ todo[e].op = "snapshot"
        /\ UNCHANGED <<installed, globals, frames, opened, failed, writes, drained>>
        /\ IF more THEN todo' = [todo EXCEPT ![e].left = Tail(@), ![e].snap = snap]
                        /\ UNCHANGED savepoints
           ELSE /\ todo' = [todo EXCEPT ![e] = Idle]
                /\ savepoints' = [savepoints EXCEPT ![e] = Append(@, snap)]
    BY DEF Snapshot
  <1>2. /\ Snapshots(e) /\ g0 \in GlobalSet /\ snap[g0] = Saved(g0)
        /\ \A x \in GlobalSet \ ToSet(left) : x # g0 /\ snap[x] = todo[e].snap[x]
        /\ \/ /\ Len(left) = 2 /\ Tail(left) = <<"fills">>
              /\ snap \in [{"accounts", "book"} -> SUBSET Int]
              /\ GlobalSet \ ToSet(<<"fills">>) = (GlobalSet \ ToSet(left)) \cup {g0}
           \/ /\ Len(left) = 1
              /\ snap \in [GlobalSet -> SUBSET Int]
              /\ GlobalSet = (GlobalSet \ ToSet(left)) \cup {g0}
    BY <1>1, CopyGrows
  <1>3. e \in Threads /\ todo[e] \in TodoRecord /\ todo \in [Threads -> TodoRecord]
    BY EvmsApart DEF TodoInv
  <1>4. todo' = [todo EXCEPT ![e] = now]
    <2> HIDE DEF snap
    <2>1. CASE more
      BY <1>1, <1>3, <2>1
    <2>2. CASE ~more
      BY <1>1, <2>2
    <2> QED
      BY <2>1, <2>2
  <1>5. /\ frames[e] # <<>> /\ opened[top].kind = "call" /\ todo[e].frame = 0
        /\ \A w \in Written : top \notin writes[w].of
    BY <1>2 DEF Snapshots
  <1> HIDE DEF snap, g0
  <1> HIDE DEF left
  <1>6. more => /\ Len(left) = 2 /\ Tail(left) = <<"fills">>
                /\ snap \in [{"accounts", "book"} -> SUBSET Int]
                /\ GlobalSet \ ToSet(<<"fills">>) = (GlobalSet \ ToSet(left)) \cup {g0}
    <2>1. more => Len(left) # 1
      <3>1. ~(1 > 1)
        OBVIOUS
      <3> QED
        BY ONLY <3>1
    <2> HIDE DEF more
    <2> QED
      BY <1>2, <2>1
  <1>7. ~more => /\ snap \in [GlobalSet -> SUBSET Int]
                 /\ GlobalSet = (GlobalSet \ ToSet(left)) \cup {g0}
    BY <1>2
  <1>8. /\ more => /\ now.op = "snapshot" /\ now.frame = 0 /\ now.left = <<"fills">>
                   /\ now.snap = snap
        /\ ~more => now = Idle /\ now.op = "idle" /\ now.frame = 0
        /\ now \in TodoRecord
    <2>1. CASE more
      <3>1. <<"fills">> \in Seq(GlobalSet)
        <4>1. "fills" \in GlobalSet
          BY DEF GlobalSet
        <4> QED
          BY <4>1
      <3>2. snap \in (UNION {[D -> SUBSET Int] : D \in SUBSET GlobalSet}) \cup {<<>>}
        <4>1. {"accounts", "book"} \in SUBSET GlobalSet
          BY DEF GlobalSet
        <4> QED
          BY <1>6, <2>1, <4>1
      <3>3. now = [todo[e] EXCEPT !.left = <<"fills">>, !.snap = snap]
        BY <1>6, <2>1
      <3> HIDE DEF now
      <3>4. now \in TodoRecord
        BY <1>3, <3>1, <3>2, <3>3 DEF TodoRecord
      <3>5. now.op = "snapshot" /\ now.frame = 0 /\ now.left = <<"fills">> /\ now.snap = snap
        BY <1>1, <1>3, <1>5, <3>3 DEF TodoRecord
      <3> QED
        BY <2>1, <3>4, <3>5
    <2>2. CASE ~more
      BY <2>2, IdleRecord DEF Idle
    <2> QED
      BY <2>1, <2>2
  <1>9. todo'[e] = now /\ \A d \in Evms : d # e => todo'[d] = todo[d]
    BY <1>3, <1>4 DEF TodoInv, Threads
  <1> HIDE DEF now, more
  <1>10. Written' = Written /\ top = Top(e)' /\ Frame' = Frame
    BY <1>1 DEF Written, Top, Frame
  <1>11. EvmTodo(e)'
    <2>1. CASE more
      <3>1. Snapshots(e)'
        BY <1>1, <1>5, <1>6, <1>8, <1>9, <1>10, <2>1 DEF Snapshots
      <3> QED
        BY <3>1 DEF EvmTodo
    <2>2. CASE ~more
      BY <1>8, <1>9, <2>2 DEF EvmTodo
    <2> QED
      BY <2>1, <2>2
  <1>12. TodoInv'
    BY <1>1, <1>4, <1>8, <1>11, OthersTodo
  <1>13. \A d \in Evms : d # e => SameEvm(d)
    <2>1. \A d \in Evms : d # e => savepoints'[d] = savepoints[d]
      BY <1>1 DEF StackInv
    <2> QED
      BY <1>1, <1>9, <2>1 DEF SameEvm
  <1>14. OpenedKept
    BY <1>1 DEF OpenedKept, FrameInv
  <1>15. \A d \in Evms : todo'[d].frame = todo[d].frame
    BY <1>5, <1>8, <1>9
  <1>16. FrameInv' /\ Open' = Open
    BY <1>1, <1>14, <1>15, FramesKept DEF FrameInv
  <1>17. Grows
    BY <1>1, <1>14, <1>16 DEF Grows, GlobalsInv, Written
  <1>18. GlobalsInv' /\ LeftInv'
    <2>1. \A d \in Evms : todo'[d] = todo[d] \/ todo[d].frame = 0
      BY <1>5, <1>9
    <2>2. \A x \in Frame : \A g : Pending(x, g) => Pending(x, g)'
      BY <1>1, <2>1, PendingKept
    <2> QED
      BY <1>1, <1>10, <1>14, <2>2, GlobalsKept
  <1>19. /\ top \in Calls(e) /\ Calls(e)' = Calls(e) /\ \A f : Pos(e, f)' = Pos(e, f)
         /\ \A f \in Calls(e) : f \in Mine(e) /\ f # 0
    <2>1. top \in ToSet(frames[e])
      BY <1>5, EvmsApart
    <2>2. Calls(e)' = Calls(e)
      BY <1>1 DEF Calls
    <2>3. \A f : Pos(e, f)' = Pos(e, f)
      BY <2>2 DEF Pos
    <2>4. \A f \in ToSet(frames[e]) : f \in Mine(e) /\ f # 0
      BY DEF Mine, FrameInv, Frame
    <2> QED
      BY <1>5, <2>1, <2>2, <2>3, <2>4 DEF Calls
  <1>20. /\ Pos(e, top) = Cardinality(Calls(e)) /\ Cardinality(Calls(e)) \in Nat
         /\ Cardinality(Calls(e)) >= 1
         /\ \A f \in Calls(e) \ {top} : /\ Pos(e, f) \in Nat /\ 1 <= Pos(e, f)
                                        /\ Pos(e, f) <= Cardinality(Calls(e)) - 1
    BY <1>5, <1>19, Places, Positions
  <1>21. /\ savepoints[e] \in Seq([GlobalSet -> SUBSET Int])
         /\ Len(savepoints[e]) = Cardinality(Calls(e)) - 1 /\ Len(savepoints[e]) \in Nat
    BY <1>1, <1>20 DEF StackInv
  <1>22. /\ more => savepoints'[e] = savepoints[e]
         /\ ~more => savepoints'[e] = Append(savepoints[e], snap)
    BY <1>1 DEF more, StackInv
  <1>23. /\ savepoints' \in [Evms -> Seq([GlobalSet -> SUBSET Int])]
         /\ Len(savepoints'[e])
              = Cardinality(Calls(e)') - (IF todo'[e].op = "snapshot" THEN 1 ELSE 0)
         /\ \A f \in Calls(e) \ {top} : savepoints'[e][Pos(e, f)] = savepoints[e][Pos(e, f)]
         /\ ~more => savepoints'[e][Pos(e, top)] = snap
    <2>1. CASE more
      <3>1. savepoints' = savepoints
        BY <1>1, <2>1 DEF more
      <3> QED
        BY <1>8, <1>9, <1>19, <1>21, <2>1, <3>1 DEF StackInv
    <2>2. CASE ~more
      <3>1. /\ savepoints'[e] \in Seq([GlobalSet -> SUBSET Int])
            /\ Len(savepoints'[e]) = Len(savepoints[e]) + 1
            /\ savepoints'[e][Len(savepoints[e]) + 1] = snap
            /\ \A i \in 1..Len(savepoints[e]) : savepoints'[e][i] = savepoints[e][i]
        <4> DEFINE Copy == [GlobalSet -> SUBSET Int]
                   stack == savepoints[e]
        <4>1. stack \in Seq(Copy) /\ snap \in Copy /\ savepoints'[e] = Append(stack, snap)
          BY <1>7, <1>21, <1>22, <2>2
        <4> HIDE DEF Copy, stack
        <4>2. /\ Append(stack, snap) \in Seq(Copy) /\ Len(Append(stack, snap)) = Len(stack) + 1
              /\ Append(stack, snap)[Len(stack) + 1] = snap
              /\ \A i \in 1..Len(stack) : Append(stack, snap)[i] = stack[i]
          BY <4>1, PushSet
        <4> QED
          BY <4>1, <4>2 DEF Copy, stack
      <3>2. savepoints' \in [Evms -> Seq([GlobalSet -> SUBSET Int])]
        <4> DEFINE stack == savepoints'[e]
        <4>1. savepoints' = [savepoints EXCEPT ![e] = stack]
          BY <1>1, <1>22, <2>2 DEF more
        <4>2. stack \in Seq([GlobalSet -> SUBSET Int])
          BY <3>1
        <4> HIDE DEF stack
        <4> QED
          BY <4>1, <4>2 DEF StackInv
      <3>3. Len(savepoints'[e]) = Cardinality(Calls(e))
        BY <1>20, <1>21, <3>1
      <3>4. savepoints'[e][Pos(e, top)] = snap
        <4>1. Len(savepoints[e]) + 1 = Pos(e, top)
          BY <1>20, <1>21
        <4> QED
          BY <3>1, <4>1
      <3>5. \A f \in Calls(e) \ {top} : Pos(e, f) \in 1..Len(savepoints[e])
        BY <1>20, <1>21
      <3>6. todo'[e].op # "snapshot" /\ Cardinality(Calls(e)) - 0 = Cardinality(Calls(e))
        BY <1>8, <1>9, <1>20, <2>2
      <3> QED
        BY <1>19, <3>1, <3>2, <3>3, <3>4, <3>5, <3>6
    <2> QED
      BY <2>1, <2>2
  <1>24. ASSUME NEW f \in Owners(e)', NEW g \in Taken(e, f)', NEW c \in {CopyOf(e, f)'[g]}
         PROVE  CopyInv(f, g, c)'
    <2>1. f \in Calls(e) /\ f \in Mine(e) /\ f # 0 /\ g \in GlobalSet /\ f \in Owners(e)
      BY <1>5, <1>8, <1>9, <1>19 DEF Owners, Taken
    <2>2. \A x \in ToSet(frames[e]) : x < f => x \in ToSet(frames'[e])
      BY <1>1
    <2>3. CASE f # top
      <3>1. ~Copying(e, f) /\ ~Copying(e, f)'
        BY <1>10, <2>3 DEF Copying
      <3>2. /\ CopyOf(e, f)' = savepoints'[e][Pos(e, f)] /\ CopyOf(e, f) = savepoints[e][Pos(e, f)]
            /\ Taken(e, f) = GlobalSet
        BY <1>5, <1>8, <1>9, <1>19, <2>1, <3>1 DEF CopyOf, Taken
      <3>3. c = CopyOf(e, f)[g]
        BY <1>23, <2>1, <2>3, <3>2
      <3>4. CopyInv(f, g, c)
        BY <2>1, <3>2, <3>3 DEF CopiesInv
      <3> QED
        BY <1>17, <2>1, <2>2, <3>4, OpenCopyKept
    <2>4. CASE f = top
      <3>1. Copying(e, f) /\ CopyOf(e, f) = todo[e].snap /\ Taken(e, f) = GlobalSet \ ToSet(left)
        BY <1>1, <2>4 DEF Copying, CopyOf, Taken, left
      <3>2. CopyOf(e, f)' = snap
        <4>1. CASE more
          BY <1>8, <1>9, <1>10, <2>4, <4>1 DEF CopyOf, Copying
        <4>2. CASE ~more
          <5>1. ~Copying(e, f)' /\ todo'[e].frame = 0
            BY <1>8, <1>9, <4>2 DEF Copying
          <5> QED
            BY <1>19, <1>23, <2>1, <2>4, <4>2, <5>1 DEF CopyOf
        <4> QED
          BY <4>1, <4>2
      <3>3. g \in Taken(e, f) \cup {g0}
        <4>1. CASE more
          BY <1>6, <1>8, <1>9, <1>10, <2>4, <3>1, <4>1 DEF Copying, Taken
        <4>2. CASE ~more
          BY <1>7, <2>1, <3>1, <4>2
        <4> QED
          BY <4>1, <4>2
      <3>4. CASE g = g0
        <4>1. c \in {Saved(g)'}
          BY <1>1, <1>2, <3>2, <3>4 DEF Saved
        <4>2. \A h \in ToSet(frames'[e]) : h \in Nat /\ h <= f
          BY <1>1, <1>5, <2>4, Positions
        <4>3. f \in ToSet(frames'[e]) /\ todo'[e].frame = 0
          BY <1>1, <1>5, <1>15, <2>1 DEF Calls
        <4>4. \A w \in Written' : f \notin writes'[w].of
          BY <1>1, <1>5, <1>10, <2>4
        <4> QED
          BY <1>16, <1>18, <2>1, <4>1, <4>2, <4>3, <4>4, FreshCopy
      <3>5. CASE g # g0
        <4>1. g \in Taken(e, f) /\ c = CopyOf(e, f)[g]
          BY <1>2, <3>1, <3>2, <3>3, <3>5 DEF left
        <4>2. CopyInv(f, g, c)
          BY <2>1, <4>1 DEF CopiesInv
        <4> QED
          BY <1>17, <2>1, <2>2, <4>2, OpenCopyKept
      <3> QED
        BY <3>4, <3>5
    <2> QED
      BY <2>3, <2>4
  <1>25. \A i, j \in 1..Len(frames'[e]) : i < j => frames'[e][i] < frames'[e][j]
    BY <1>1 DEF StackInv
  <1>26. StackInv' /\ CopiesInv'
    BY <1>13, <1>17, <1>23, <1>24, <1>25, OthersCopies
  <1> QED
    BY <1>12, <1>16, <1>18, <1>26

\* The innermost frame ends: its savepoint, if it has one, is the last.
LEMMA Popping ==
  ASSUME GuardInv, NEW e \in Evms, todo[e] = Idle, frames[e] # <<>>,
         frames'[e] = Front(frames[e]), opened' = opened,
         IF opened[Top(e)].kind = "create" THEN savepoints' = savepoints
         ELSE savepoints' = [savepoints EXCEPT ![e] = Front(savepoints[e])]
  PROVE  /\ Calls(e)' = Calls(e) \ {Top(e)}
         /\ savepoints' \in [Evms -> Seq([GlobalSet -> SUBSET Int])]
         /\ Len(savepoints'[e]) = Cardinality(Calls(e)')
         /\ \A d \in Evms : d # e => savepoints'[d] = savepoints[d]
         /\ \A f \in Calls(e) \ {Top(e)} :
              savepoints'[e][Pos(e, f)'] = savepoints[e][Pos(e, f)]
         /\ opened[Top(e)].kind # "create" =>
              /\ CopyOf(e, Top(e)) = Last(savepoints[e]) /\ Taken(e, Top(e)) = GlobalSet
              /\ Last(savepoints[e]) \in [GlobalSet -> SUBSET Int]
              /\ Top(e) \in Owners(e)
  <1> USE DEF GuardInv
  <1> DEFINE top == Top(e)
             Copy == [GlobalSet -> SUBSET Int]
             stack == savepoints[e]
  <1>1. /\ top \in ToSet(frames[e]) /\ ToSet(frames'[e]) = ToSet(frames[e]) \ {top}
        /\ IsFiniteSet(Calls(e)) /\ Cardinality(Calls(e)) \in Nat
        /\ \A f \in ToSet(frames[e]) : f \in Nat /\ f <= top
    BY Positions
  <1>2. Calls(e)' = Calls(e) \ {top}
    BY <1>1 DEF Calls
  <1>3. /\ savepoints \in [Evms -> Seq(Copy)] /\ stack \in Seq(Copy)
        /\ Len(stack) = Cardinality(Calls(e)) /\ Len(stack) \in Nat
    BY <1>1 DEF StackInv, Idle
  <1>4. top # 0 /\ ~Copying(e, top) /\ todo[e].frame = 0
    BY <1>1 DEF FrameInv, Mine, Frame, Copying, Idle
  <1>5. \A f \in Calls(e) \ {top} : Pos(e, f)' = Pos(e, f)
    <2> SUFFICES ASSUME NEW f \in Calls(e) \ {top} PROVE Pos(e, f)' = Pos(e, f)
      OBVIOUS
    <2>1. f \in Nat /\ top \in Nat /\ f <= top /\ f # top
      BY <1>1 DEF Calls
    <2>2. ~(top <= f)
      BY <2>1
    <2>3. {h \in Calls(e)' : h <= f} = {h \in Calls(e) : h <= f}
      BY <1>2, <2>2
    <2> QED
      BY <2>3 DEF Pos
  <1>6. /\ top \in Calls(e) => /\ Pos(e, top) = Cardinality(Calls(e))
                               /\ Cardinality(Calls(e)) >= 1
                               /\ Cardinality(Calls(e) \ {top}) = Cardinality(Calls(e)) - 1
        /\ \A f \in Calls(e) \ {top} :
             Pos(e, f) \in Nat /\ 1 <= Pos(e, f) /\ Pos(e, f) <= Cardinality(Calls(e) \ {top})
    BY Places
  <1>7. top \in Calls(e) <=> opened[top].kind # "create"
    BY <1>1 DEF Calls
  <1>8. CASE opened[top].kind = "create"
    <2>1. savepoints' = savepoints /\ Calls(e) \ {top} = Calls(e)
      BY <1>7, <1>8
    <2> QED
      BY <1>2, <1>3, <1>5, <1>8, <2>1
  <1>9. CASE opened[top].kind # "create"
    <2>1. savepoints' = [savepoints EXCEPT ![e] = Front(stack)]
      BY <1>9
    <2> HIDE DEF stack, Copy
    <2>2. stack # <<>>
      BY <1>3, <1>6, <1>7, <1>9
    <2>3. /\ Front(stack) \in Seq(Copy) /\ Len(Front(stack)) = Len(stack) - 1
          /\ \A i \in 1..Len(stack) - 1 : Front(stack)[i] = stack[i]
      BY <1>3, <2>2, PopSet
    <2>4. Last(stack) = stack[Len(stack)] /\ Last(stack) \in Copy
      BY <1>3, <2>2 DEF Last
    <2>5. /\ savepoints'[e] = Front(stack) /\ savepoints' \in [Evms -> Seq(Copy)]
          /\ \A d \in Evms : d # e => savepoints'[d] = savepoints[d]
      BY <1>3, <2>1, <2>3
    <2>6. Len(savepoints'[e]) = Cardinality(Calls(e)')
      BY <1>2, <1>3, <1>6, <1>7, <1>9, <2>3, <2>5
    <2>7. ASSUME NEW f \in Calls(e) \ {top}
          PROVE  savepoints'[e][Pos(e, f)'] = stack[Pos(e, f)]
      <3>1. Pos(e, f) \in 1..Len(stack) - 1
        <4>1. /\ Pos(e, f) \in Nat /\ 1 <= Pos(e, f)
              /\ Pos(e, f) <= Cardinality(Calls(e) \ {top})
          BY <1>6
        <4>2. Cardinality(Calls(e) \ {top}) = Len(stack) - 1
          BY <1>3, <1>6, <1>7, <1>9
        <4> QED
          BY <1>3, <4>1, <4>2
      <3> QED
        BY <1>5, <2>3, <2>5, <3>1
    <2>8. CopyOf(e, top) = Last(stack) /\ Taken(e, top) = GlobalSet
      <3>1. CopyOf(e, top) = stack[Pos(e, top)]
        BY <1>4 DEF CopyOf, stack
      <3>2. Pos(e, top) = Len(stack)
        BY <1>3, <1>6, <1>7, <1>9
      <3> QED
        BY <1>4, <2>4, <3>1, <3>2 DEF Taken
    <2>9. top \in Owners(e)
      BY <1>7, <1>9 DEF Owners
    <2> HIDE DEF top
    <2> QED
      BY <1>2, <2>4, <2>5, <2>6, <2>7, <2>8, <2>9 DEF stack, Copy, top
  <1> QED
    BY <1>8, <1>9

\* Frame f, which fails, puts its copy c of g0 back: nothing that the copy
\* lacks is lost but to f, and nothing in it is left over but of frames that
\* are still open, or that ran beside one that failed.
LEMMA PutBack ==
  ASSUME GuardInv, NEW e \in Evms, NEW f \in Mine(e), NEW g0 \in GlobalSet, NEW c,
         CopyInv(f, g0, c), f \in failed', failed \subseteq failed', failed' \subseteq failed \cup {f},
         UNCHANGED <<installed, opened, writes, drained>>,
         globals' = IF c = NotInstalled THEN globals ELSE [globals EXCEPT ![g0] = c],
         \A x \in ToSet(frames[e]) : x < f => x \in ToSet(frames'[e]),
         \A x \in Frame \ {f} : \A g \in GlobalSet : Pending(x, g) => Pending(x, g)',
         \A g \in GlobalSet \ {g0} : Pending(f, g)' \/ (f \in failed /\ ~Pending(f, g))
  PROVE  GlobalsInv' /\ LeftInv'
  <1> USE DEF GuardInv
  <1>1. Written' = Written /\ Frame' = Frame /\ OpenedKept
    BY DEF Written, Frame, OpenedKept, FrameInv
  <1>2. f \in Frame /\ f \in Open /\ opened[f].evm = e
    BY OpenIs DEF FrameInv
  <1>3. Len(writes) \in Nat /\ -1 \notin Written
    BY DEF GlobalsInv, Written
  <1>4. c = NotInstalled => g0 \notin opened[f].before
    BY <1>3 DEF CopyInv, NotInstalled
  <1>5. ASSUME c # NotInstalled
        PROVE  /\ \A w \in c : w \in Written /\ writes[w].during[g0] # {}
               /\ \A w \in Written \ c :
                    \/ writes[w].during[g0] = {}
                    \/ g0 = "fills" /\ w \in DOMAIN drained
                    \/ \E x \in writes[w].during[g0] : x \in failed'
               /\ g0 = "fills" => \A w \in c \cap DOMAIN drained :
                    \E x \in drained[w] : x \in failed'
    BY <1>5 DEF CopyInv
  <1>6. globals \in [GlobalSet -> SUBSET Written]
        /\ \A g \in GlobalSet : g # g0 \/ c = NotInstalled => globals'[g] = globals[g]
    BY DEF GlobalsInv
  <1>7. c # NotInstalled => globals'[g0] = c
    BY <1>6
  <1>8. globals' \in [GlobalSet -> SUBSET Written]
    BY <1>5, <1>6
  <1>9. \A g \in GlobalSet : \A w \in globals'[g] : writes'[w].during[g] # {}
    <2> SUFFICES ASSUME NEW g \in GlobalSet, NEW w \in globals'[g]
                 PROVE  writes[w].during[g] # {}
      OBVIOUS
    <2>1. CASE g # g0 \/ c = NotInstalled
      BY <1>6, <2>1 DEF GlobalsInv
    <2>2. CASE g = g0 /\ c # NotInstalled
      BY <1>5, <1>7, <2>2
    <2> QED
      BY <2>1, <2>2
  <1>10. OnlyFailedCallsLoseWrites'
    <2> SUFFICES ASSUME NEW w \in Written, NEW g \in GlobalSet, writes[w].during[g] # {},
                        w \notin globals'[g], ~(g = "fills" /\ w \in DOMAIN drained)
                 PROVE  writes[w].during[g] \cap failed' # {}
      BY DEF OnlyFailedCallsLoseWrites, Written
    <2>1. CASE g # g0 \/ c = NotInstalled
      <3>1. writes[w].during[g] \cap failed # {}
        BY <1>6, <2>1 DEF GlobalsInv, OnlyFailedCallsLoseWrites, Written
      <3> QED
        BY <3>1
    <2>2. CASE g = g0 /\ c # NotInstalled
      BY <1>5, <1>7, <2>2
    <2> QED
      BY <2>1, <2>2
  <1>11. DrainedFillsStayDrained'
    <2> SUFFICES ASSUME NEW w \in DOMAIN drained, w \in globals'["fills"]
                 PROVE  drained[w] \cap failed' # {}
      BY DEF DrainedFillsStayDrained
    <2>1. CASE "fills" # g0 \/ c = NotInstalled
      <3>1. "fills" \in GlobalSet
        BY DEF GlobalSet
      <3>2. drained[w] \cap failed # {}
        BY <1>6, <2>1, <3>1 DEF GlobalsInv, DrainedFillsStayDrained
      <3> QED
        BY <3>2
    <2>2. CASE "fills" = g0 /\ c # NotInstalled
      BY <1>5, <1>7, <2>2
    <2> QED
      BY <2>1, <2>2
  <1>12. GlobalsInv'
    BY <1>1, <1>8, <1>9, <1>10, <1>11 DEF GlobalsInv
  <1>13. LeftInv'
    <2> SUFFICES ASSUME NEW g \in GlobalSet, NEW w \in globals'[g], NEW x \in writes[w].of,
                        x \in failed', opened[x].kind # "create", g \in opened[x].before,
                        ~Pending(x, g)'
                 PROVE  FailedBeside(x)' # {}
      BY DEF LeftInv
    <2>1. w \in Written /\ x \in Frame
      BY <1>8 DEF GlobalsInv
    <2>2. /\ FailedBeside(x) # {} => FailedBeside(x)' # {}
          /\ Beside(f, x) => FailedBeside(x)' # {}
      BY <1>1, <1>2, <2>1, BesideStays
    <2>3. CASE g = g0 /\ c # NotInstalled
      <3>1. \/ x \notin failed /\ x \notin Open
            \/ FailedBeside(x) # {} \/ Beside(f, x)
            \/ x < f /\ x \in ToSet(frames[e])
        <4>1. w \in c
          BY <1>7, <2>3
        <4> QED
          BY <1>2, <2>3, <4>1 DEF CopyInv
      <3>2. ~(x \notin failed /\ x \notin Open)
        BY <1>2
      <3>3. ~(x < f /\ x \in ToSet(frames[e]))
        BY DEF Pending
      <3> QED
        BY <2>2, <3>1, <3>2, <3>3
    <2>4. CASE g # g0 \/ c = NotInstalled
      <3>1. w \in globals[g]
        BY <1>6, <2>4
      <3>2. x \notin failed \/ Pending(x, g) \/ FailedBeside(x) # {}
        BY <3>1 DEF LeftInv
      <3>3. CASE x # f
        BY <2>1, <2>2, <3>2, <3>3
      <3>4. CASE x = f
        <4>1. g # g0
          BY <1>4, <2>4, <3>4
        <4> QED
          BY <2>2, <3>2, <3>4, <4>1
      <3> QED
        BY <3>3, <3>4
    <2> QED
      BY <2>3, <2>4
  <1> QED
    BY <1>12, <1>13

\* What every way for the innermost frame of e to end has in common.
LEMMA Leaving ==
  ASSUME GuardInv, NEW e \in Evms, todo[e] = Idle, frames[e] # <<>>,
         frames' = [frames EXCEPT ![e] = Front(@)],
         failed' = failed \/ failed' = failed \cup {Top(e)},
         UNCHANGED <<installed, opened, writes, drained>>,
         IF opened[Top(e)].kind = "create" THEN savepoints' = savepoints
         ELSE savepoints' = [savepoints EXCEPT ![e] = Front(savepoints[e])],
         NEW now \in TodoRecord, todo' = [todo EXCEPT ![e] = now],
         \/ now = Idle
         \/ /\ now.op = "restore" /\ now.frame = Top(e) /\ opened[Top(e)].kind # "create"
            /\ now.left = <<"book", "fills">> /\ now.snap = Last(savepoints[e])
            /\ Top(e) \in failed'
  PROVE  /\ FrameInv' /\ StackInv' /\ TodoInv' /\ CopiesInv' /\ OpenedKept
         /\ \A x \in ToSet(frames[e]) : x < Top(e) => x \in ToSet(frames'[e])
         /\ \A x \in Frame \ {Top(e)} : \A g \in GlobalSet : Pending(x, g) => Pending(x, g)'
         /\ todo'[e] = now
  <1> USE DEF GuardInv
  <1> DEFINE top == Top(e)
  <1>1. /\ top \in ToSet(frames[e]) /\ Front(frames[e]) \in Seq(Nat)
        /\ ToSet(Front(frames[e])) = ToSet(frames[e]) \ {top}
        /\ \A f \in ToSet(frames[e]) : f \in Nat /\ f <= top
        /\ \A i, j \in 1..Len(Front(frames[e])) :
             i < j => Front(frames[e])[i] < Front(frames[e])[j]
    BY Positions
  <1>2. frames \in [Evms -> Seq(Nat)] /\ e \in Threads /\ todo \in [Threads -> TodoRecord]
    BY EvmsApart DEF FrameInv, TodoInv
  <1>3. /\ frames'[e] = Front(frames[e]) /\ frames' \in [Evms -> Seq(Nat)]
        /\ \A d \in Evms : d # e => frames'[d] = frames[d]
    BY <1>1, <1>2
  <1>4. /\ Calls(e)' = Calls(e) \ {top}
        /\ savepoints' \in [Evms -> Seq([GlobalSet -> SUBSET Int])]
        /\ Len(savepoints'[e]) = Cardinality(Calls(e)')
        /\ \A d \in Evms : d # e => savepoints'[d] = savepoints[d]
        /\ \A f \in Calls(e) \ {top} : savepoints'[e][Pos(e, f)'] = savepoints[e][Pos(e, f)]
        /\ opened[top].kind # "create" =>
             /\ CopyOf(e, top) = Last(savepoints[e]) /\ Taken(e, top) = GlobalSet
             /\ Last(savepoints[e]) \in [GlobalSet -> SUBSET Int] /\ top \in Owners(e)
    BY <1>3, Popping
  <1>5. todo[e].frame = 0 /\ todo[e].op = "idle" /\ Idle.frame = 0 /\ Idle.op = "idle"
    BY DEF Idle
  <1>6. /\ todo'[e] = now /\ now.op # "snapshot"
        /\ \A d \in Evms : d # e => todo'[d] = todo[d]
    BY <1>2, <1>5 DEF Threads
  <1>7. OpenedKept /\ Frame' = Frame /\ Written' = Written
    BY DEF OpenedKept, FrameInv, Frame, Written
  <1>8. top \in Frame /\ opened[top].evm = e /\ top \in Mine(e) /\ top \in Nat /\ top # 0
    BY <1>1 DEF FrameInv, Mine, Frame
  <1>9. /\ Mine(e)' \subseteq Mine(e) /\ \A d \in Evms : d # e => Mine(d)' = Mine(d)
    BY <1>1, <1>3, <1>5, <1>6 DEF Mine
  <1>10. Open' \subseteq Open /\ top \in Open
    <2>1. \A x : x \in Open' => x \in Open
      <3> SUFFICES ASSUME NEW x \in Open' PROVE x \in Open
        OBVIOUS
      <3>1. PICK d \in Evms : x # 0 /\ (x \in ToSet(frames'[d]) \/ x = todo'[d].frame)
        BY InOpen
      <3>2. x \in Mine(d)'
        BY <3>1 DEF Mine
      <3>3. x \in Mine(d)
        BY <1>9, <3>2
      <3> QED
        BY <3>3, OpenIs
    <2> QED
      BY <1>8, <2>1, OpenIs
  <1>11. FrameInv'
    <2>1. ASSUME NEW d \in Evms, NEW f \in Mine(d)'
          PROVE  f \in Frame' /\ opened'[f].evm = d
      BY <1>7, <1>9 DEF FrameInv
    <2>2. failed' \subseteq Frame'
      BY <1>7, <1>8 DEF FrameInv
    <2>3. ASSUME NEW d \in Evms
          PROVE  ToSet(frames'[d]) \cap failed' = {}
      <3>1. ToSet(frames[d]) \cap failed = {}
        BY DEF FrameInv
      <3>2. top \notin ToSet(frames'[d])
        BY <1>1, <1>3, <1>8 DEF FrameInv, Mine
      <3>3. ToSet(frames'[d]) \subseteq ToSet(frames[d])
        BY <1>1, <1>3
      <3> QED
        BY <3>1, <3>2, <3>3
    <2>4. \A f, h \in Open' : opened'[f].evm # opened'[h].evm => Beside(f, h)'
      BY <1>10 DEF FrameInv, Beside
    <2>5. \A f \in Frame' : \A h \in opened'[f].beside :
            h \in Frame' /\ opened'[h].evm # opened'[f].evm
      BY <1>7 DEF FrameInv
    <2>6. /\ opened' \in Seq(OpenedRecord)
          /\ \A f \in Frame' : opened'[f].before \subseteq installed'
      BY <1>7 DEF FrameInv
    <2> QED
      BY <1>3, <2>1, <2>2, <2>3, <2>4, <2>5, <2>6 DEF FrameInv
  <1>12. Grows
    <2>1. \A x \in Frame : x \in failed' \/ x \in Open' => x \in failed \/ x \in Open
      BY <1>10
    <2> QED
      BY <1>7, <2>1 DEF Grows, GlobalsInv, Written
  <1>13. \A d \in Evms : d # e => SameEvm(d)
    BY <1>3, <1>4, <1>6 DEF SameEvm
  <1>14. EvmTodo(e)'
    <2>1. CASE now = Idle
      BY <1>6, <2>1 DEF EvmTodo
    <2>2. CASE now # Idle
      <3>1. \A f \in ToSet(frames'[e]) : f < top
        BY <1>1, <1>3, <1>8
      <3>2. Restores(e)'
        BY <1>4, <1>6, <2>2, <3>1 DEF Restores
      <3> QED
        BY <3>2 DEF EvmTodo
    <2> QED
      BY <2>1, <2>2
  <1>15. TodoInv'
    BY <1>3, <1>14, OthersTodo
  <1>16. \A x \in ToSet(frames[e]) : x < top => x \in ToSet(frames'[e])
    BY <1>1, <1>3
  <1>17. ASSUME NEW f \in Owners(e)', NEW g \in Taken(e, f)', NEW c \in {CopyOf(e, f)'[g]}
         PROVE  CopyInv(f, g, c)'
    <2>1. g \in GlobalSet /\ ~Copying(e, f)'
      BY <1>6 DEF Taken, Copying
    <2>2. CASE f \in Calls(e)'
      <3>1. f \in Calls(e) /\ f # top /\ f \in Owners(e) /\ f \in Mine(e) /\ f # 0
        BY <1>4, <2>2 DEF Calls, Owners, Mine, FrameInv, Frame
      <3>2. CopyOf(e, f)' = savepoints'[e][Pos(e, f)']
        BY <1>5, <1>6, <2>1, <3>1 DEF CopyOf
      <3>3. CopyOf(e, f) = savepoints[e][Pos(e, f)] /\ Taken(e, f) = GlobalSet
        BY <1>5, <3>1 DEF CopyOf, Copying, Taken
      <3>4. CopyInv(f, g, c)
        <4>1. g \in Taken(e, f) /\ c \in {CopyOf(e, f)[g]}
          BY <1>4, <2>1, <3>1, <3>2, <3>3
        <4> QED
          BY <3>1, <4>1 DEF CopiesInv
      <3>5. \A x \in ToSet(frames[e]) : x < f => x \in ToSet(frames'[e])
        <4>1. f \in Nat /\ f <= top
          BY <1>1, <3>1 DEF Calls
        <4>2. \A x \in ToSet(frames[e]) : x \in Nat /\ (x < f => x < top)
          BY <1>1, <1>8, <4>1
        <4> QED
          BY <1>16, <4>2
      <3> QED
        BY <1>12, <2>1, <3>1, <3>4, <3>5, OpenCopyKept
    <2>3. CASE f \notin Calls(e)'
      <3>1. f = now.frame /\ f # 0
        BY <1>6, <2>3 DEF Owners
      <3>2. f = top /\ opened[top].kind # "create" /\ now.snap = Last(savepoints[e])
        BY <1>5, <3>1
      <3>3. CopyOf(e, f)' = Last(savepoints[e])
        BY <1>6, <3>1, <3>2 DEF CopyOf
      <3>4. CopyInv(f, g, c)
        <4>1. f \in Owners(e) /\ g \in Taken(e, f) /\ c \in {CopyOf(e, f)[g]}
          BY <1>4, <2>1, <3>2, <3>3
        <4> QED
          BY <4>1 DEF CopiesInv
      <3> QED
        BY <1>8, <1>12, <1>16, <2>1, <3>2, <3>4, OpenCopyKept
    <2> QED
      BY <2>2, <2>3
  <1>18. StackInv' /\ CopiesInv'
    <2>1. \A i, j \in 1..Len(frames'[e]) : i < j => frames'[e][i] < frames'[e][j]
      BY <1>1, <1>3
    <2>2. Cardinality(Calls(e)') - 0 = Cardinality(Calls(e)')
      <3>1. Len(savepoints'[e]) \in Nat
        BY <1>4
      <3> QED
        BY <1>4, <3>1
    <2>3. Len(savepoints'[e])
            = Cardinality(Calls(e)') - (IF todo'[e].op = "snapshot" THEN 1 ELSE 0)
      BY <1>4, <1>6, <2>2
    <2> QED
      BY <1>4, <1>12, <1>13, <1>17, <2>1, <2>3, OthersCopies
  <1>19. ASSUME NEW x \in Frame \ {top}, NEW g \in GlobalSet, Pending(x, g)
         PROVE  Pending(x, g)'
    <2>1. PICK d \in Evms : x \in ToSet(frames[d]) \/ (x = todo[d].frame /\ g \in ToSet(todo[d].left))
      BY <1>19 DEF Pending
    <2>2. CASE d = e
      <3>1. x # 0
        BY DEF Frame
      <3>2. x \in ToSet(frames'[e])
        BY <1>1, <1>3, <1>5, <2>1, <2>2, <3>1
      <3> QED
        BY <3>2 DEF Pending
    <2>3. CASE d # e
      BY <1>3, <1>6, <2>1, <2>3 DEF Pending
    <2> QED
      BY <2>2, <2>3
  <1> QED
    BY <1>6, <1>7, <1>11, <1>15, <1>16, <1>18, <1>19

\* A frame that succeeds, or a creation, which has no savepoint.
LEMMA LeaveQuietInv ==
  ASSUME GuardInv, NEW e \in Evms, NEW result \in {"ok", "revert", "halt"}, Leave(e, result),
         opened[Top(e)].kind = "create" \/ result = "ok"
  PROVE  GuardInv'
  <1> USE DEF GuardInv
  <1> DEFINE top == Top(e)
  <1>1. /\ todo[e] = Idle /\ frames[e] # <<>> /\ frames' = [frames EXCEPT ![e] = Front(@)]
        /\ failed' = (IF result = "ok" THEN failed ELSE failed \cup {top})
        /\ UNCHANGED <<installed, opened, writes, drained>>
    BY DEF Leave, Running
  <1>2. /\ UNCHANGED <<globals, todo>>
        /\ IF opened[top].kind = "create" THEN savepoints' = savepoints
           ELSE savepoints' = [savepoints EXCEPT ![e] = Front(savepoints[e])]
    BY DEF Leave, Popped, MustRestore
  <1>3. todo' = [todo EXCEPT ![e] = Idle] /\ Idle \in TodoRecord
    <2>1. todo \in [Threads -> TodoRecord]
      BY DEF TodoInv
    <2> QED
      BY <1>1, <1>2, <2>1, IdleRecord
  <1>4. failed' = failed \/ failed' = failed \cup {top}
    BY <1>1
  <1>5. /\ FrameInv' /\ StackInv' /\ TodoInv' /\ CopiesInv' /\ OpenedKept
        /\ \A x \in Frame \ {top} : \A g \in GlobalSet : Pending(x, g) => Pending(x, g)'
    BY <1>1, <1>2, <1>3, <1>4, Leaving
  <1>6. failed \subseteq failed' /\ Written' = Written /\ Frame' = Frame
    BY <1>1, <1>4 DEF Written, Frame
  <1>7. GlobalsInv'
    <2>1. OnlyFailedCallsLoseWrites'
      <3> SUFFICES ASSUME NEW w \in Written, NEW g \in GlobalSet, writes[w].during[g] # {},
                          w \notin globals[g], ~(g = "fills" /\ w \in DOMAIN drained)
                   PROVE  writes[w].during[g] \cap failed' # {}
        BY <1>1, <1>2 DEF OnlyFailedCallsLoseWrites, Written
      <3>1. writes[w].during[g] \cap failed # {}
        BY DEF GlobalsInv, OnlyFailedCallsLoseWrites, Written
      <3> QED
        BY <1>6, <3>1
    <2>2. DrainedFillsStayDrained'
      <3>1. \A w \in DOMAIN drained : w \in globals["fills"] => drained[w] \cap failed # {}
        BY DEF GlobalsInv, DrainedFillsStayDrained
      <3> QED
        BY <1>1, <1>2, <1>6, <3>1 DEF DrainedFillsStayDrained
    <2> QED
      BY <1>1, <1>2, <1>6, <2>1, <2>2 DEF GlobalsInv
  <1>8. LeftInv'
    <2> SUFFICES ASSUME NEW g \in GlobalSet, NEW w \in globals[g], NEW x \in writes[w].of,
                        x \in failed', opened[x].kind # "create", g \in opened[x].before,
                        ~Pending(x, g)'
                 PROVE  FailedBeside(x)' # {}
      BY <1>1, <1>2 DEF LeftInv
    <2>1. x \in Frame
      BY DEF GlobalsInv
    <2>2. x # top
      <3>1. top \in ToSet(frames[e]) /\ top \notin failed
        BY <1>1, EvmsApart DEF FrameInv
      <3> QED
        BY <1>1, <3>1
    <2>3. x \in failed
      BY <1>4, <2>2
    <2>4. Pending(x, g) \/ FailedBeside(x) # {}
      BY <2>3 DEF LeftInv
    <2>5. FailedBeside(x) # {}
      BY <1>5, <2>1, <2>2, <2>4
    <2> QED
      BY <1>5, <1>6, <2>1, <2>5, BesideStays
  <1> QED
    BY <1>5, <1>7, <1>8

\* A call that fails begins to put its copies back.
LEMMA LeaveFailsInv ==
  ASSUME GuardInv, NEW e \in Evms, NEW result \in {"ok", "revert", "halt"}, Leave(e, result),
         opened[Top(e)].kind # "create", result # "ok"
  PROVE  GuardInv'
  <1> USE DEF GuardInv
  <1> DEFINE top == Top(e)
             snap == Last(savepoints[e])
             now == [op |-> "restore", left |-> <<"book", "fills">>, write |-> 0,
                     frame |-> top, snap |-> snap]
             c == snap["accounts"]
  <1>1. /\ todo[e] = Idle /\ frames[e] # <<>> /\ frames' = [frames EXCEPT ![e] = Front(@)]
        /\ failed' = failed \cup {top}
        /\ UNCHANGED <<installed, opened, writes, drained>>
    BY DEF Leave, Running
  <1>2. /\ savepoints' = [savepoints EXCEPT ![e] = Front(savepoints[e])]
        /\ globals' = IF c = NotInstalled THEN globals ELSE [globals EXCEPT !["accounts"] = c]
    BY DEF Leave, Popped, MustRestore, Restored
  <1>3. todo' = [todo EXCEPT ![e] = now]
    <2>1. todo' = [todo EXCEPT ![e] = [Idle EXCEPT !.op = "restore", !.left = <<"book", "fills">>,
                                         !.frame = top, !.snap = snap]]
      BY DEF Leave, Popped, MustRestore
    <2> HIDE DEF snap, top
    <2>2. [Idle EXCEPT !.op = "restore", !.left = <<"book", "fills">>, !.frame = top, !.snap = snap]
            = now
      BY IdleChanged
    <2> HIDE DEF now
    <2> QED
      BY <2>1, <2>2
  <1>4. frames'[e] = Front(frames[e])
    BY <1>1 DEF FrameInv
  <1>5. /\ CopyOf(e, top) = snap /\ Taken(e, top) = GlobalSet
        /\ snap \in [GlobalSet -> SUBSET Int] /\ top \in Owners(e)
    BY <1>1, <1>2, <1>4, Popping
  <1>6. top \in ToSet(frames[e]) /\ top \in Mine(e) /\ top \in Frame /\ top \in Nat
    BY <1>1, EvmsApart DEF FrameInv, Mine, Frame
  <1> HIDE DEF snap
  <1>7. now \in TodoRecord
    <2>1. GlobalSet \in SUBSET GlobalSet
      OBVIOUS
    <2> QED
      BY <1>5, <1>6, <2>1, CopyRecord
  <1>8. /\ now.op = "restore" /\ now.frame = top /\ now.left = <<"book", "fills">>
        /\ now.snap = snap
    OBVIOUS
  <1> HIDE DEF now
  <1>9. /\ FrameInv' /\ StackInv' /\ TodoInv' /\ CopiesInv'
        /\ \A x \in ToSet(frames[e]) : x < top => x \in ToSet(frames'[e])
        /\ \A x \in Frame \ {top} : \A g \in GlobalSet : Pending(x, g) => Pending(x, g)'
        /\ todo'[e] = now
    <2>1. top \in failed'
      BY <1>1
    <2>2. IF opened[top].kind = "create" THEN savepoints' = savepoints
          ELSE savepoints' = [savepoints EXCEPT ![e] = Front(savepoints[e])]
      BY <1>2
    <2>3. now.snap = Last(savepoints[e])
      BY <1>8 DEF snap
    <2> QED
      BY <1>1, <1>3, <1>7, <1>8, <2>1, <2>2, <2>3, Leaving
  <1>10. "accounts" \in GlobalSet /\ \A d \in {c} : CopyInv(top, "accounts", d)
    <2>1. "accounts" \in GlobalSet
      BY DEF GlobalSet
    <2> QED
      BY <1>5, <2>1 DEF CopiesInv
  <1>11. PICK f \in {top} : TRUE
    OBVIOUS
  <1>12. ASSUME NEW g \in GlobalSet \ {"accounts"}
         PROVE  Pending(f, g)'
    <2>1. ToSet(<<"book", "fills">>) = {"book", "fills"}
      BY DEF ToSet
    <2>2. g \in ToSet(todo'[e].left) /\ f = todo'[e].frame
      BY <1>8, <1>9, <1>11, <2>1 DEF GlobalSet
    <2> QED
      BY <2>2 DEF Pending
  <1>13. GlobalsInv' /\ LeftInv'
    <2>1. PICK d \in {c} : TRUE
      OBVIOUS
    <2>2. globals' = IF d = NotInstalled THEN globals ELSE [globals EXCEPT !["accounts"] = d]
      BY <1>2, <2>1
    <2>3. CopyInv(f, "accounts", d)
      BY <1>10, <1>11, <2>1
    <2>4. f \in failed' /\ failed \subseteq failed' /\ failed' \subseteq failed \cup {f}
      BY <1>1, <1>11
    <2>5. /\ f \in Mine(e) /\ \A x \in ToSet(frames[e]) : x < f => x \in ToSet(frames'[e])
          /\ \A x \in Frame \ {f} : \A g \in GlobalSet : Pending(x, g) => Pending(x, g)'
      BY <1>6, <1>9, <1>11
    <2> HIDE DEF top
    <2> QED
      BY <1>1, <1>10, <1>12, <2>2, <2>3, <2>4, <2>5, PutBack
  <1> QED
    BY <1>9, <1>13

\* One global more that a failed call puts back.
LEMMA RestoreInv ==
  ASSUME GuardInv, NEW e \in Evms, Restore(e)
  PROVE  GuardInv'
  <1> USE DEF GuardInv
  <1> DEFINE left == todo[e].left
             snap == todo[e].snap
             more == Len(left) > 1
             now == IF more THEN [todo[e] EXCEPT !.left = Tail(left)] ELSE Idle
  <1>1. /\ todo[e].op = "restore"
        /\ globals' = Restored(Head(left), snap)
        /\ UNCHANGED <<installed, frames, savepoints, opened, failed, writes, drained>>
    BY DEF Restore
  <1>2. Restores(e)
    BY <1>1 DEF TodoInv, EvmTodo, Idle, Snapshots, Writes
  <1>3. PICK f \in {todo[e].frame} : TRUE
    OBVIOUS
  <1>4. /\ f = todo[e].frame /\ f \in failed /\ f \in Frame /\ f # 0 /\ f \in Mine(e)
        /\ opened[f].kind # "create" /\ f \in Owners(e) /\ f \notin ToSet(frames[e])
        /\ \A x \in ToSet(frames[e]) : x < f
    <2>1. f = todo[e].frame /\ f \in failed /\ opened[f].kind # "create"
          /\ \A x \in ToSet(frames[e]) : x < f
      BY <1>2, <1>3 DEF Restores
    <2>2. f \in Frame /\ f \notin ToSet(frames[e])
      BY <2>1 DEF FrameInv
    <2>3. f # 0
      BY <2>2 DEF Frame
    <2> QED
      BY <2>1, <2>2, <2>3 DEF Mine, Owners
  <1>5. e \in Threads /\ todo[e] \in TodoRecord /\ todo \in [Threads -> TodoRecord]
    BY EvmsApart DEF TodoInv
  <1>6. todo' = [todo EXCEPT ![e] = now]
    <2>1. todo' = [todo EXCEPT ![e] = IF Len(todo[e].left) > 1
                                      THEN [todo[e] EXCEPT !.left = Tail(todo[e].left)] ELSE Idle]
      BY DEF Restore
    <2> QED
      BY <2>1
  <1>7. /\ snap \in [GlobalSet -> SUBSET Int] /\ left \in {<<"book", "fills">>, <<"fills">>}
    BY <1>2 DEF Restores
  <1>8. PICK g0 \in {Head(left)} : TRUE
    OBVIOUS
  <1>9. /\ g0 = Head(left) /\ g0 \in GlobalSet
        /\ more => /\ left = <<"book", "fills">> /\ Tail(left) = <<"fills">> /\ g0 = "book"
        /\ ~more => left = <<"fills">> /\ g0 = "fills"
        /\ ToSet(<<"book", "fills">>) = {"book", "fills"} /\ ToSet(<<"fills">>) = {"fills"}
    <2>1. CASE left = <<"book", "fills">>
      BY <1>8, <2>1 DEF GlobalSet, ToSet
    <2>2. CASE left = <<"fills">>
      BY <1>8, <2>2 DEF GlobalSet, ToSet
    <2> QED
      BY <1>7, <2>1, <2>2
  <1>10. /\ more => /\ now.op = "restore" /\ now.frame = f /\ now.left = <<"fills">>
                    /\ now.snap = snap
         /\ ~more => now = Idle /\ now.op = "idle" /\ now.frame = 0
         /\ now \in TodoRecord
    <2>1. CASE more
      <3>1. "fills" \in GlobalSet
        BY DEF GlobalSet
      <3>2. <<"fills">> \in Seq(GlobalSet)
        BY <3>1
      <3>3. now = [todo[e] EXCEPT !.left = <<"fills">>]
        BY <1>9, <2>1
      <3> HIDE DEF now, more, left
      <3>4. now \in TodoRecord
        BY <1>5, <3>2, <3>3 DEF TodoRecord
      <3>5. /\ now.op = todo[e].op /\ now.frame = todo[e].frame /\ now.left = <<"fills">>
            /\ now.snap = snap
        BY <1>5, <3>3 DEF TodoRecord
      <3> QED
        BY <1>1, <1>4, <2>1, <3>4, <3>5
    <2>2. CASE ~more
      BY <2>2, IdleRecord DEF Idle
    <2> QED
      BY <2>1, <2>2
  <1>11. todo'[e] = now /\ \A d \in Evms : d # e => todo'[d] = todo[d]
    BY <1>5, <1>6 DEF Threads
  <1> HIDE DEF now, more
  <1>12. Written' = Written /\ Frame' = Frame /\ OpenedKept
    BY <1>1 DEF Written, Frame, OpenedKept, FrameInv
  <1>13. EvmTodo(e)'
    <2>1. CASE more
      <3>1. Restores(e)'
        BY <1>1, <1>4, <1>7, <1>10, <1>11, <2>1 DEF Restores
      <3> QED
        BY <3>1 DEF EvmTodo
    <2>2. CASE ~more
      BY <1>10, <1>11, <2>2 DEF EvmTodo
    <2> QED
      BY <2>1, <2>2
  <1>14. TodoInv'
    BY <1>1, <1>6, <1>10, <1>13, OthersTodo
  <1>15. Mine(e)' \subseteq Mine(e) /\ \A d \in Evms : d # e => Mine(d)' = Mine(d)
    BY <1>1, <1>4, <1>10, <1>11 DEF Mine
  <1>16. Open' \subseteq Open
    <2> SUFFICES ASSUME NEW x \in Open' PROVE x \in Open
      OBVIOUS
    <2>1. PICK d \in Evms : x # 0 /\ (x \in ToSet(frames'[d]) \/ x = todo'[d].frame)
      BY InOpen
    <2>2. x \in Mine(d)'
      BY <2>1 DEF Mine
    <2>3. x \in Mine(d)
      BY <1>15, <2>2
    <2> QED
      BY <2>3, OpenIs
  <1>17. FrameInv'
    <2>1. \A d \in Evms : \A h \in Mine(d)' : h \in Frame' /\ opened'[h].evm = d
      BY <1>1, <1>12, <1>15 DEF FrameInv
    <2>2. \A h, x \in Open' : opened'[h].evm # opened'[x].evm => Beside(h, x)'
      BY <1>1, <1>16 DEF FrameInv, Beside
    <2> QED
      BY <1>1, <1>12, <2>1, <2>2 DEF FrameInv
  <1>18. Grows
    <2>1. \A x \in Frame : x \in failed' \/ x \in Open' => x \in failed \/ x \in Open
      BY <1>1, <1>16
    <2> QED
      BY <1>1, <1>12, <2>1 DEF Grows, GlobalsInv, Written
  <1>19. \A d \in Evms : d # e => SameEvm(d)
    BY <1>1, <1>11 DEF SameEvm
  <1>20. CopyOf(e, f) = snap /\ Taken(e, f) = GlobalSet
    BY <1>1, <1>4 DEF CopyOf, Taken, Copying
  <1>21. \A c \in {snap[g0]} : CopyInv(f, g0, c)
    BY <1>4, <1>9, <1>20 DEF CopiesInv
  <1>22. /\ \A x \in Frame \ {f} : \A g \in GlobalSet : Pending(x, g) => Pending(x, g)'
         /\ \A g \in GlobalSet \ {g0} : Pending(f, g)' \/ (f \in failed /\ ~Pending(f, g))
    <2>1. ASSUME NEW x \in Frame, NEW g \in GlobalSet, Pending(x, g), x # f \/ g # g0
          PROVE  Pending(x, g)'
      <3>1. PICK d \in Evms : x \in ToSet(frames[d]) \/ (x = todo[d].frame /\ g \in ToSet(todo[d].left))
        BY <2>1 DEF Pending
      <3>2. CASE x \in ToSet(frames[d])
        BY <1>1, <3>2 DEF Pending
      <3>3. CASE d # e
        BY <1>1, <1>11, <3>1, <3>3 DEF Pending
      <3>4. CASE d = e /\ x = todo[d].frame /\ g \in ToSet(todo[d].left)
        <4>1. x = f /\ g # g0 /\ g \in ToSet(left)
          BY <1>4, <2>1, <3>4
        <4>2. more /\ g = "fills"
          BY <1>9, <4>1
        <4>3. x = todo'[e].frame /\ g \in ToSet(todo'[e].left)
          BY <1>9, <1>10, <1>11, <4>1, <4>2
        <4> QED
          BY <4>3 DEF Pending
      <3> QED
        BY <3>1, <3>2, <3>3, <3>4
    <2> QED
      BY <1>4, <2>1
  <1>23. GlobalsInv' /\ LeftInv'
    <2>1. PICK c \in {snap[g0]} : TRUE
      OBVIOUS
    <2>2. globals' = IF c = NotInstalled THEN globals ELSE [globals EXCEPT ![g0] = c]
      BY <1>1, <1>9, <2>1 DEF Restored
    <2>3. CopyInv(f, g0, c)
      BY <1>21, <2>1
    <2>4. f \in failed' /\ failed \subseteq failed' /\ failed' \subseteq failed \cup {f}
      BY <1>1, <1>4
    <2>5. \A x \in ToSet(frames[e]) : x < f => x \in ToSet(frames'[e])
      BY <1>1
    <2>6. UNCHANGED <<installed, opened, writes, drained>> /\ f \in Mine(e) /\ g0 \in GlobalSet
      BY <1>1, <1>4, <1>9
    <2> HIDE DEF left, snap
    <2> QED
      BY <1>22, <2>2, <2>3, <2>4, <2>5, <2>6, PutBack
  <1>24. Calls(e)' = Calls(e) /\ \A h : Pos(e, h)' = Pos(e, h)
    <2>1. Calls(e)' = Calls(e)
      BY <1>1 DEF Calls
    <2> QED
      BY <2>1 DEF Pos
  <1>25. now.op # "snapshot" /\ (now.frame = f \/ now.frame = 0)
    BY <1>10
  <1>26. ASSUME NEW h \in Owners(e)', NEW g \in Taken(e, h)', NEW c \in {CopyOf(e, h)'[g]}
         PROVE  CopyInv(h, g, c)'
    <2>1. g \in GlobalSet /\ ~Copying(e, h)' /\ ~Copying(e, h) /\ Taken(e, h) = GlobalSet
      BY <1>1, <1>11, <1>25 DEF Taken, Copying
    <2>2. h \in Owners(e) /\ h \in Mine(e) /\ (h = f <=> h \notin Calls(e)) /\ h # 0
      BY <1>4, <1>11, <1>24, <1>25 DEF Owners, Calls, Mine, FrameInv, Frame
    <2>3. CopyOf(e, h)' = CopyOf(e, h)
      <3>1. CASE h = f
        <4>1. more
          BY <1>4, <1>10, <1>11, <1>24, <2>2, <3>1 DEF Owners
        <4> QED
          BY <1>4, <1>10, <1>11, <3>1, <4>1 DEF CopyOf
      <3>2. CASE h # f
        BY <1>1, <1>4, <1>11, <1>24, <1>25, <2>1, <2>2, <3>2 DEF CopyOf
      <3> QED
        BY <3>1, <3>2
    <2>4. CopyInv(h, g, c)
      BY <2>1, <2>2, <2>3 DEF CopiesInv
    <2>5. \A x \in ToSet(frames[e]) : x < h => x \in ToSet(frames'[e])
      BY <1>1
    <2> QED
      BY <1>18, <2>1, <2>2, <2>4, <2>5, OpenCopyKept
  <1>27. StackInv' /\ CopiesInv'
    <2>1. \A i, j \in 1..Len(frames'[e]) : i < j => frames'[e][i] < frames'[e][j]
      BY <1>1 DEF StackInv
    <2>2. savepoints' \in [Evms -> Seq([GlobalSet -> SUBSET Int])]
      BY <1>1 DEF StackInv
    <2>3. Len(savepoints[e]) = Cardinality(Calls(e)) - (IF todo[e].op = "snapshot" THEN 1 ELSE 0)
      BY DEF StackInv
    <2>4. Len(savepoints'[e])
            = Cardinality(Calls(e)') - (IF todo'[e].op = "snapshot" THEN 1 ELSE 0)
      BY <1>1, <1>11, <1>24, <1>25, <2>3
    <2> QED
      BY <1>18, <1>19, <1>26, <2>1, <2>2, <2>4, OthersCopies
  <1> QED
    BY <1>14, <1>17, <1>23, <1>27

-----------------------------------------------------------------------------
(* The theorems.                                                           *)

LEMMA InitInv ==
  ASSUME GuardInit
  PROVE  GuardInv
  <1> USE DEF GuardInit
  <1>1. /\ Len(opened) = 0 /\ Len(writes) = 0 /\ Frame = {} /\ Written = {}
        /\ opened \in Seq(OpenedRecord) /\ writes \in Seq(WriteRecord)
    BY DEF Frame, Written
  <1>2. /\ \A e \in Evms : frames[e] = <<>> /\ ToSet(frames[e]) = {} /\ savepoints[e] = <<>>
        /\ \A e \in Evms : e \in Threads /\ todo[e] = Idle /\ todo[e].frame = 0 /\ todo[e].op = "idle"
    BY DEF ToSet, Threads, Idle
  <1>3. \A e \in Evms : Mine(e) = {} /\ Calls(e) = {} /\ Owners(e) = {}
    BY <1>2 DEF Mine, Calls, Owners
  <1>4. Open = {}
    BY <1>2, InOpen
  <1>5. FrameInv
    <2>1. frames \in [Evms -> Seq(Nat)]
      OBVIOUS
    <2> QED
      BY <1>1, <1>2, <1>3, <1>4, <2>1 DEF FrameInv
  <1>6. StackInv
    <2>1. Cardinality({}) = 0 /\ Len(<<>>) = 0
      BY FS_EmptySet
    <2>2. savepoints \in [Evms -> Seq([GlobalSet -> SUBSET Int])]
      OBVIOUS
    <2>3. ASSUME NEW e \in Evms
          PROVE  /\ \A i, j \in 1..Len(frames[e]) : i < j => frames[e][i] < frames[e][j]
                 /\ Len(savepoints[e])
                      = Cardinality(Calls(e)) - (IF todo[e].op = "snapshot" THEN 1 ELSE 0)
      <3>1. Len(frames[e]) = 0 /\ Len(savepoints[e]) = 0 /\ Cardinality(Calls(e)) = 0
        BY <1>2, <1>3, <2>1
      <3>2. todo[e].op # "snapshot"
        BY <1>2
      <3>3. 1..0 = {} /\ 0 - 0 = 0
        OBVIOUS
      <3> HIDE DEF GuardInit
      <3> QED
        BY ONLY <3>1, <3>2, <3>3, Zenon
    <2> HIDE DEF GuardInit
    <2> QED
      BY <2>2, <2>3 DEF StackInv
  <1>7. TodoInv
    BY <1>2, IdleRecord DEF TodoInv, NodeTodo, EvmTodo, Threads
  <1>8. GlobalsInv
    BY <1>1 DEF GlobalsInv, OnlyFailedCallsLoseWrites, DrainedFillsStayDrained, Written, GlobalSet
  <1>9. CopiesInv /\ LeftInv
    BY <1>3 DEF CopiesInv, LeftInv
  <1> QED
    BY <1>5, <1>6, <1>7, <1>8, <1>9 DEF GuardInv

LEMMA StutterInv ==
  ASSUME GuardInv, UNCHANGED guardVars
  PROVE  GuardInv'
  <1> USE DEF GuardInv
  <1>1. UNCHANGED <<installed, globals, frames, savepoints, todo, opened, failed, writes, drained>>
    BY DEF guardVars
  <1>2. OpenedKept
    BY <1>1 DEF OpenedKept, FrameInv
  <1>3. \A e \in Evms : SameEvm(e)
    BY <1>1 DEF SameEvm
  <1>4. FrameInv' /\ Open' = Open
    BY <1>1, <1>2, FramesKept DEF FrameInv
  <1>5. Grows
    BY <1>1, <1>2, <1>4 DEF Grows, GlobalsInv, Written
  <1>6. StackInv' /\ CopiesInv'
    BY <1>1, <1>3, <1>5, QuietStep
  <1>7. TodoInv'
    BY <1>1, TodoKept
  <1>8. GlobalsInv' /\ LeftInv'
    BY <1>1 DEF GlobalsInv, Written, Frame, OnlyFailedCallsLoseWrites, DrainedFillsStayDrained,
                LeftInv, Pending, FailedBeside
  <1> QED
    BY <1>4, <1>6, <1>7, <1>8

LEMMA NextInv ==
  ASSUME GuardInv, [GuardNext]_guardVars
  PROVE  GuardInv'
  <1>1. ASSUME NEW g \in GlobalSet, Install(g)
        PROVE  GuardInv'
    BY <1>1, InstallInv
  <1>2. CASE NodeCall
    BY <1>2, NodeCallInv
  <1>3. CASE Write("node")
    BY <1>3, NodeWriteInv
  <1>4. CASE Drain
    BY <1>4, DrainInv
  <1>5. ASSUME NEW e \in Evms, NEW kind \in {"call", "create"}, Enter(e, kind)
        PROVE  GuardInv'
    BY <1>5, EnterInv
  <1>6. ASSUME NEW e \in Evms, NEW result \in {"ok", "revert", "halt"}, Leave(e, result)
        PROVE  GuardInv'
    BY <1>6, LeaveQuietInv, LeaveFailsInv
  <1>7. ASSUME NEW e \in Evms, Snapshot(e)
        PROVE  GuardInv'
    BY <1>7, SnapshotInv
  <1>8. ASSUME NEW e \in Evms, Restore(e)
        PROVE  GuardInv'
    BY <1>8, RestoreInv
  <1>9. ASSUME NEW e \in Evms, Precompile(e)
        PROVE  GuardInv'
    BY <1>9, PrecompileInv
  <1>10. ASSUME NEW e \in Evms, Write(e)
         PROVE  GuardInv'
    BY <1>10, EvmWriteInv
  <1>11. CASE UNCHANGED guardVars
    BY <1>11, StutterInv
  <1> QED
    BY <1>1, <1>2, <1>3, <1>4, <1>5, <1>6, <1>7, <1>8, <1>9, <1>10, <1>11 DEF GuardNext

\* The invariant of the guard holds in every state.
THEOREM GuardInvHolds == GuardSpec => []GuardInv
  <1>1. GuardInit => GuardInv
    BY InitInv
  <1>2. GuardInv /\ [GuardNext]_guardVars => GuardInv'
    BY NextInv
  <1> QED
    BY <1>1, <1>2, PTL DEF GuardSpec

\* Once a failed call is rolled back, none of its writes stands in a global
\* that was there when it began, unless a call that ran beside it failed; and
\* an EVM has one savepoint for each of its open calls (call and call_end).
THEOREM GuardFailedCallsLeaveNothing == GuardSpec => []FailedCallsLeaveNothing
  <1>1. ASSUME GuardInv PROVE FailedCallsLeaveNothing
    <2> USE DEF GuardInv
    <2>1. GuardTypeOK
      <3>1. installed \subseteq GlobalSet /\ failed \subseteq 1..Len(opened)
            /\ DOMAIN drained \subseteq 1..Len(writes)
            /\ globals \in [GlobalSet -> SUBSET (1..Len(writes))]
        BY <1>1 DEF FrameInv, GlobalsInv, Frame, Written
      <3>2. ASSUME NEW e \in Evms
            PROVE  /\ ToSet(frames[e]) \subseteq 1..Len(opened)
                   /\ Len(savepoints[e])
                        = Cardinality({f \in ToSet(frames[e]) : opened[f].kind # "create"})
                            - (IF todo[e].op = "snapshot" THEN 1 ELSE 0)
        BY <1>1 DEF FrameInv, StackInv, Mine, Frame, Calls
      <3> QED
        BY <3>1, <3>2 DEF GuardTypeOK
    <2>2. ASSUME NEW f \in failed \ Open, opened[f].kind # "create", NEW g \in opened[f].before,
                 NEW w \in globals[g], f \in writes[w].of
          PROVE  FailedBeside(f) # {}
      <3>1. f \in Frame /\ g \in GlobalSet
        BY <1>1, <2>2 DEF FrameInv, GlobalsInv
      <3>2. ~Pending(f, g)
        <4>1. f # 0
          BY <3>1 DEF Frame
        <4> QED
          BY <2>2, <4>1, InOpen DEF Pending
      <3> QED
        BY <1>1, <2>2, <3>1, <3>2 DEF LeftInv
    <2> QED
      BY <2>1, <2>2 DEF FailedCallsLeaveNothing
  <1> QED
    BY <1>1, GuardInvHolds, PTL

\* A write is lost only to a failed call that was open when it was made
\* (restore_bridge_state).
THEOREM GuardOnlyFailedCallsLoseWrites == GuardSpec => []OnlyFailedCallsLoseWrites
  <1>1. GuardInv => OnlyFailedCallsLoseWrites
    BY DEF GuardInv, GlobalsInv
  <1> QED
    BY <1>1, GuardInvHolds, PTL

\* Drained fills come back only if a call that was open when build_payload
\* took them failed.
THEOREM GuardDrainedFillsStayDrained == GuardSpec => []DrainedFillsStayDrained
  <1>1. GuardInv => DrainedFillsStayDrained
    BY DEF GuardInv, GlobalsInv
  <1> QED
    BY <1>1, GuardInvHolds, PTL

=============================================================================

-------------------------- MODULE ConsensusProofs ---------------------------
(***************************************************************************)
(* Proofs about what consensus is made of besides the application loop:    *)
(* module Wire, for any validators, heights, rounds and values that fit    *)
(* the signed bytes (a signature binds one message, and what is decoded    *)
(* was sent and can be verified), and module Runner, for any number of     *)
(* validators and rounds and any order of votes (the decisions are the     *)
(* bridge's chain).                                                        *)
(***************************************************************************)
EXTENDS Wire, Runner, TLAPS, FiniteSetTheorems, SequenceTheorems

-----------------------------------------------------------------------------
(* Wire: what is signed.                                                   *)

Bytes == Seq(Int)

LEMMA IsBytes ==
  ASSUME NEW n \in Nat, NEW f \in [1..n -> Int]
  PROVE  f \in Bytes /\ Len(f) = n
<1>1. f \in Seq(Int)
  BY SeqDef
<1>2. QED
  BY <1>1 DEF Bytes

LEMMA ConcatBytes ==
  ASSUME NEW s \in Bytes, NEW t \in Bytes
  PROVE  /\ s \o t \in Bytes /\ Len(s) \in Nat /\ Len(t) \in Nat
         /\ Len(s \o t) = Len(s) + Len(t)
         /\ \A i \in 1..Len(s) : (s \o t)[i] = s[i]
         /\ \A i \in 1..Len(t) : (s \o t)[Len(s) + i] = t[i]
<1>1. s \in Seq(Int) /\ t \in Seq(Int)
  BY DEF Bytes
<1>2. Len(s) \in Nat /\ Len(t) \in Nat
  BY <1>1, LenProperties
<1>3. /\ s \o t \in Seq(Int) /\ Len(s \o t) = Len(s) + Len(t)
      /\ \A i \in 1..(Len(s) + Len(t)) : (s \o t)[i] = IF i <= Len(s) THEN s[i] ELSE t[i - Len(s)]
  BY <1>1, ConcatProperties
<1>4. ASSUME NEW i \in 1..Len(s)
      PROVE  (s \o t)[i] = s[i]
  <2>1. i \in 1..(Len(s) + Len(t)) /\ i <= Len(s)
    BY <1>2
  <2>2. QED
    BY <1>3, <2>1
<1>5. ASSUME NEW i \in 1..Len(t)
      PROVE  (s \o t)[Len(s) + i] = t[i]
  <2>1. /\ Len(s) + i \in 1..(Len(s) + Len(t)) /\ ~ (Len(s) + i <= Len(s))
        /\ Len(s) + i - Len(s) = i
    BY <1>2
  <2>2. QED
    BY <1>3, <2>1
<1>6. QED
  BY <1>2, <1>3, <1>4, <1>5 DEF Bytes

LEMMA ConcatLen ==
  ASSUME NEW s \in Bytes, NEW t \in Bytes
  PROVE  s \o t \in Bytes /\ Len(s \o t) = Len(s) + Len(t)
  BY ConcatBytes

LEMMA SameBytes ==
  ASSUME NEW s \in Bytes, NEW t \in Bytes, Len(s) = Len(t), \A i \in 1..Len(s) : s[i] = t[i]
  PROVE  s = t
  BY SeqEqual DEF Bytes

\* Two concatenations are equal only if their parts are, once the parts are
\* known to be equally long.
LEMMA SplitFront ==
  ASSUME NEW s \in Bytes, NEW t \in Bytes, NEW u \in Bytes, NEW w \in Bytes,
         s \o t = u \o w, Len(s) = Len(u)
  PROVE  s = u /\ t = w
<1>1. /\ Len(s) \in Nat /\ Len(t) \in Nat /\ Len(s \o t) = Len(s) + Len(t)
      /\ \A i \in 1..Len(s) : (s \o t)[i] = s[i]
      /\ \A i \in 1..Len(t) : (s \o t)[Len(s) + i] = t[i]
  BY ConcatBytes
<1>2. /\ Len(u) \in Nat /\ Len(w) \in Nat /\ Len(u \o w) = Len(u) + Len(w)
      /\ \A i \in 1..Len(u) : (u \o w)[i] = u[i]
      /\ \A i \in 1..Len(w) : (u \o w)[Len(u) + i] = w[i]
  BY ConcatBytes
<1>3. Len(t) = Len(w)
  <2>1. Len(s) + Len(t) = Len(s) + Len(w)
    BY <1>1, <1>2
  <2>2. QED
    BY <1>1, <1>2, <2>1
<1>4. \A i \in 1..Len(s) : s[i] = u[i]
  BY <1>1, <1>2
<1>5. \A i \in 1..Len(t) : t[i] = w[i]
  BY <1>1, <1>2, <1>3
<1>6. QED
  BY <1>3, <1>4, <1>5, SameBytes

LEMMA SplitEnd ==
  ASSUME NEW s \in Bytes, NEW t \in Bytes, NEW u \in Bytes, NEW w \in Bytes,
         s \o t = u \o w, Len(t) = Len(w)
  PROVE  s = u /\ t = w
<1>1. /\ Len(s) \in Nat /\ Len(t) \in Nat /\ Len(s \o t) = Len(s) + Len(t)
      /\ Len(u) \in Nat /\ Len(w) \in Nat /\ Len(u \o w) = Len(u) + Len(w)
  BY ConcatBytes
<1>2. Len(s) = Len(u)
  <2>1. Len(s) + Len(t) = Len(u) + Len(t)
    BY <1>1
  <2>2. QED
    BY <1>1, <2>1
<1>3. QED
  BY <1>2, SplitFront

\* Integers that the wire carries: an i64 that is Nil or a u16.
Carried == {n \in Int : n >= -1 /\ n <= 65535}

LEMMA Parts ==
  ASSUME NEW m \in Nat, m <= 65535
  PROVE  m = 256 * ((m \div 256) % 256) + (m % 256)
<1>1. m % 256 \in 0..255 /\ m = 256 * (m \div 256) + (m % 256) /\ m \div 256 \in Int
  OBVIOUS
<1>2. PICK q \in Int : q = m \div 256
  BY <1>1
<1>3. PICK r \in 0..255 : r = m % 256
  BY <1>1
<1>4. m = 256 * q + r
  BY <1>1, <1>2, <1>3
<1>5. q \in 0..255
  BY <1>4
<1>6. \A x \in 0..255 : x % 256 = x
  OBVIOUS
<1>7. q % 256 = q
  BY <1>5, <1>6
<1>8. QED
  BY <1>2, <1>3, <1>4, <1>7

LEMMA LeBytesBind ==
  ASSUME NEW n \in Carried, NEW m \in Carried
  PROVE  /\ LeBytes(n, 8) \in Bytes /\ Len(LeBytes(n, 8)) = 8
         /\ LeBytes(m, 8) = LeBytes(n, 8) => m = n
<1>0. n \in Int /\ m \in Int /\ n >= -1 /\ m >= -1 /\ n <= 65535 /\ m <= 65535
  BY DEF Carried
<1>1. \A x \in Int : x % 256 \in Int /\ (x \div 256) % 256 \in Int
  OBVIOUS
<1>2. LeBytes(n, 8) \in [1..8 -> Int]
  BY <1>0, <1>1 DEF LeBytes
<1>3. LeBytes(n, 8) \in Bytes /\ Len(LeBytes(n, 8)) = 8
  BY <1>2, IsBytes
<1>4. \A x \in Int : LeBytes(x, 8)[1] = x % 256
  BY DEF LeBytes
<1>5. \A x \in Int : LeBytes(x, 8)[2] = (x \div 256) % 256
  BY DEF LeBytes
<1>6. \A x \in Int : LeBytes(x, 8)[3] = IF x < 0 THEN 255 ELSE 0
  BY DEF LeBytes
<1>7. ASSUME LeBytes(m, 8) = LeBytes(n, 8)
      PROVE  m = n
  <2>1. m % 256 = n % 256 /\ (m \div 256) % 256 = (n \div 256) % 256
    BY <1>0, <1>4, <1>5, <1>7
  <2>2. (IF m < 0 THEN 255 ELSE 0) = IF n < 0 THEN 255 ELSE 0
    BY <1>0, <1>6, <1>7
  <2>3. (m < 0) <=> (n < 0)
    BY <1>0, <2>2
  <2>4. CASE n < 0
    BY <1>0, <2>3, <2>4
  <2>5. CASE ~ (n < 0)
    <3>1. n \in Nat /\ m \in Nat
      BY <1>0, <2>3, <2>5
    <3>2. /\ m = 256 * ((m \div 256) % 256) + (m % 256)
          /\ n = 256 * ((n \div 256) % 256) + (n % 256)
      BY <1>0, <3>1, Parts
    <3>3. QED
      BY <2>1, <3>2
  <2>6. QED
    BY <2>4, <2>5
<1>8. QED
  BY <1>3, <1>7

LEMMA RepeatedByte ==
  ASSUME NEW b \in Int, NEW c \in Int
  PROVE  /\ Hash(b) \in Bytes /\ Len(Hash(b)) = 32 /\ (Hash(b) = Hash(c) => b = c)
         /\ Address(b) \in Bytes /\ Len(Address(b)) = 20 /\ (Address(b) = Address(c) => b = c)
<1>1. Hash(b) \in [1..32 -> Int] /\ Address(b) \in [1..20 -> Int]
  BY DEF Hash, Address
<1>2. /\ Hash(b) \in Bytes /\ Len(Hash(b)) = 32
      /\ Address(b) \in Bytes /\ Len(Address(b)) = 20
  BY <1>1, IsBytes
<1>3. Hash(b)[1] = b /\ Hash(c)[1] = c /\ Address(b)[1] = b /\ Address(c)[1] = c
  BY DEF Hash, Address
<1>4. QED
  BY <1>2, <1>3

\* The parts of a vote's bytes that are about its value and its type.
ValueBytes(b) == IF b = Nil THEN <<0>> ELSE <<1>> \o Hash(b)
TypeByte(type) == <<IF type = "Prevote" THEN 0 ELSE 1>>

LEMMA ValueBytesBind ==
  ASSUME NEW b \in Values \cup {Nil}, NEW c \in Values \cup {Nil}
  PROVE  /\ ValueBytes(b) \in Bytes /\ Len(ValueBytes(b)) \in {1, 33}
         /\ ValueBytes(b) = ValueBytes(c) => b = c
<1>1. b \in Int /\ c \in Int
  BY WireAssumption DEF Nil
<1>2. <<0>> \in Bytes /\ <<1>> \in Bytes /\ Len(<<0>>) = 1 /\ Len(<<1>>) = 1 /\ <<0>>[1] = 0 /\ <<1>>[1] = 1
  BY DEF Bytes
<1>3. ASSUME NEW d \in Int
      PROVE  /\ <<1>> \o Hash(d) \in Bytes /\ Len(<<1>> \o Hash(d)) = 33
             /\ (<<1>> \o Hash(d))[1] = 1
  <2>1. Hash(d) \in Bytes /\ Len(Hash(d)) = 32
    BY RepeatedByte
  <2>2. 1 \in 1..Len(<<1>>)
    BY <1>2
  <2>3. /\ <<1>> \o Hash(d) \in Bytes /\ Len(<<1>> \o Hash(d)) = Len(<<1>>) + Len(Hash(d))
        /\ (<<1>> \o Hash(d))[1] = <<1>>[1]
    BY <1>2, <2>1, <2>2, ConcatBytes
  <2>4. QED
    BY <1>2, <2>1, <2>3
<1>4. ValueBytes(b) \in Bytes /\ Len(ValueBytes(b)) \in {1, 33}
  BY <1>1, <1>2, <1>3 DEF ValueBytes
<1>5. ASSUME ValueBytes(b) = ValueBytes(c)
      PROVE  b = c
  <2>1. CASE b = Nil
    <3>1. ValueBytes(b)[1] = 0
      BY <1>2, <2>1 DEF ValueBytes
    <3>2. c # Nil => ValueBytes(c)[1] = 1
      BY <1>1, <1>3 DEF ValueBytes
    <3>3. QED
      BY <1>5, <2>1, <3>1, <3>2
  <2>2. CASE b # Nil /\ c # Nil
    <3>1. <<1>> \o Hash(b) = <<1>> \o Hash(c)
      BY <1>5, <2>2 DEF ValueBytes
    <3>2. Hash(b) \in Bytes /\ Hash(c) \in Bytes
      BY <1>1, RepeatedByte
    <3>3. Hash(b) = Hash(c)
      BY <1>2, <3>1, <3>2, SplitFront
    <3>4. QED
      BY <1>1, <3>3, RepeatedByte
  <2>3. CASE b # Nil /\ c = Nil
    <3>1. ValueBytes(b)[1] = 1
      BY <1>1, <1>3, <2>3 DEF ValueBytes
    <3>2. ValueBytes(c)[1] = 0
      BY <1>2, <2>3 DEF ValueBytes
    <3>3. QED
      BY <1>5, <3>1, <3>2
  <2>4. QED
    BY <2>1, <2>2, <2>3
<1>6. QED
  BY <1>4, <1>5

LEMMA TypeByteBinds ==
  ASSUME NEW x \in {"Prevote", "Precommit"}, NEW y \in {"Prevote", "Precommit"}
  PROVE  /\ TypeByte(x) \in Bytes /\ Len(TypeByte(x)) = 1
         /\ TypeByte(x) = TypeByte(y) => x = y
<1>1. TypeByte(x)[1] = (IF x = "Prevote" THEN 0 ELSE 1) /\ TypeByte(y)[1] = IF y = "Prevote" THEN 0 ELSE 1
  BY DEF TypeByte
<1>2. TypeByte(x) \in Bytes /\ Len(TypeByte(x)) = 1
  BY DEF TypeByte, Bytes
<1>3. QED
  BY <1>1, <1>2

\* Both kinds of bytes are five parts, of which only the fourth may be of
\* more than one length.
LEMMA PartsInBytes ==
  ASSUME NEW h \in Bytes, NEW r \in Bytes, NEW t \in Bytes, NEW b \in Bytes, NEW a \in Bytes
  PROVE  /\ h \o r \in Bytes /\ (h \o r) \o t \in Bytes /\ ((h \o r) \o t) \o b \in Bytes
         /\ (((h \o r) \o t) \o b) \o a \in Bytes
         /\ Len((h \o r) \o t) = Len(h) + Len(r) + Len(t)
         /\ Len((((h \o r) \o t) \o b) \o a) = Len(h) + Len(r) + Len(t) + Len(b) + Len(a)
<1>1. PICK x \in Bytes : x = h \o r /\ Len(x) = Len(h) + Len(r)
  BY ConcatBytes
<1>2. PICK y \in Bytes : y = x \o t /\ Len(y) = Len(x) + Len(t)
  BY ConcatBytes
<1>3. PICK z \in Bytes : z = y \o b /\ Len(z) = Len(y) + Len(b)
  BY ConcatBytes
<1>4. PICK w \in Bytes : w = z \o a /\ Len(w) = Len(z) + Len(a)
  BY ConcatBytes
<1>5. QED
  BY <1>1, <1>2, <1>3, <1>4

IsParts(p) == p[1] \in Bytes /\ p[2] \in Bytes /\ p[3] \in Bytes /\ p[4] \in Bytes /\ p[5] \in Bytes
Joined(p) == (((p[1] \o p[2]) \o p[3]) \o p[4]) \o p[5]
SameLayout(p, q) ==
  Len(p[1]) = Len(q[1]) /\ Len(p[2]) = Len(q[2]) /\ Len(p[3]) = Len(q[3]) /\ Len(p[5]) = Len(q[5])

\* Two pairs of sequences of bytes, with equal concatenations.
Aligned(s, t, u, w) ==
  /\ s \in Bytes /\ t \in Bytes /\ u \in Bytes /\ w \in Bytes
  /\ s \o t = u \o w /\ (Len(s) = Len(u) \/ Len(t) = Len(w))

LEMMA AlignedSplit ==
  ASSUME NEW s, NEW t, NEW u, NEW w, Aligned(s, t, u, w)
  PROVE  s = u /\ t = w
<1>1. CASE Len(s) = Len(u)
  BY <1>1, SplitFront DEF Aligned
<1>2. CASE Len(t) = Len(w)
  BY <1>2, SplitEnd DEF Aligned
<1>3. QED
  BY <1>1, <1>2 DEF Aligned

LEMMA PartsBind ==
  ASSUME NEW p, NEW q, IsParts(p), IsParts(q), SameLayout(p, q), Joined(p) = Joined(q)
  PROVE  p[1] = q[1] /\ p[2] = q[2] /\ p[3] = q[3] /\ p[4] = q[4] /\ p[5] = q[5]
<1> DEFINE x == p[1] \o p[2]
           y == x \o p[3]
           z == y \o p[4]
           x2 == q[1] \o q[2]
           y2 == x2 \o q[3]
           z2 == y2 \o q[4]
<1>1. x = p[1] \o p[2] /\ x \in Bytes /\ Len(x) = Len(p[1]) + Len(p[2])
  <2>1. p[1] \in Bytes /\ p[2] \in Bytes
    BY DEF IsParts
  <2>2. QED
    BY <2>1, ConcatLen
<1> HIDE DEF x
<1>2. y = x \o p[3] /\ y \in Bytes /\ Len(y) = Len(x) + Len(p[3])
  <2>1. p[3] \in Bytes
    BY DEF IsParts
  <2>2. QED
    BY <1>1, <2>1, ConcatLen
<1> HIDE DEF y
<1>3. z = y \o p[4] /\ z \in Bytes /\ Len(z) = Len(y) + Len(p[4])
  <2>1. p[4] \in Bytes
    BY DEF IsParts
  <2>2. QED
    BY <1>2, <2>1, ConcatLen
<1> HIDE DEF z
<1>4. x2 = q[1] \o q[2] /\ x2 \in Bytes /\ Len(x2) = Len(q[1]) + Len(q[2])
  <2>1. q[1] \in Bytes /\ q[2] \in Bytes
    BY DEF IsParts
  <2>2. QED
    BY <2>1, ConcatLen
<1> HIDE DEF x2
<1>5. y2 = x2 \o q[3] /\ y2 \in Bytes /\ Len(y2) = Len(x2) + Len(q[3])
  <2>1. q[3] \in Bytes
    BY DEF IsParts
  <2>2. QED
    BY <1>4, <2>1, ConcatLen
<1> HIDE DEF y2
<1>6. z2 = y2 \o q[4] /\ z2 \in Bytes /\ Len(z2) = Len(y2) + Len(q[4])
  <2>1. q[4] \in Bytes
    BY DEF IsParts
  <2>2. QED
    BY <1>5, <2>1, ConcatLen
<1> HIDE DEF z2
<1>7. z = z2 /\ p[5] = q[5]
  <2>1. z \o p[5] = z2 \o q[5]
    BY <1>1, <1>2, <1>3, <1>4, <1>5, <1>6, Zenon DEF Joined
  <2>2. z \in Bytes /\ z2 \in Bytes /\ p[5] \in Bytes /\ q[5] \in Bytes /\ Len(p[5]) = Len(q[5])
    BY <1>3, <1>6, Zenon DEF IsParts, SameLayout
  <2>3. Aligned(z, p[5], z2, q[5])
    BY <2>1, <2>2, Zenon DEF Aligned
  <2>4. QED
    BY <2>3, AlignedSplit
<1>8. y = y2 /\ p[4] = q[4]
  <2>1. y \o p[4] = y2 \o q[4]
    BY <1>3, <1>6, <1>7, Zenon
  <2>2. y \in Bytes /\ y2 \in Bytes /\ p[4] \in Bytes /\ q[4] \in Bytes
    BY <1>2, <1>5, Zenon DEF IsParts
  <2>3. Len(y) = Len(y2)
    BY <1>1, <1>2, <1>4, <1>5 DEF SameLayout
  <2>4. Aligned(y, p[4], y2, q[4])
    BY <2>1, <2>2, <2>3, Zenon DEF Aligned
  <2>5. QED
    BY <2>4, AlignedSplit
<1>9. x = x2 /\ p[3] = q[3]
  <2>1. x \o p[3] = x2 \o q[3]
    BY <1>2, <1>5, <1>8, Zenon
  <2>2. x \in Bytes /\ x2 \in Bytes /\ p[3] \in Bytes /\ q[3] \in Bytes /\ Len(p[3]) = Len(q[3])
    BY <1>1, <1>4, Zenon DEF IsParts, SameLayout
  <2>3. Aligned(x, p[3], x2, q[3])
    BY <2>1, <2>2, Zenon DEF Aligned
  <2>4. QED
    BY <2>3, AlignedSplit
<1>10. p[1] = q[1] /\ p[2] = q[2]
  <2>1. p[1] \o p[2] = q[1] \o q[2]
    BY <1>1, <1>4, <1>9, Zenon
  <2>2. p[1] \in Bytes /\ q[1] \in Bytes /\ p[2] \in Bytes /\ q[2] \in Bytes /\ Len(p[2]) = Len(q[2])
    BY Zenon DEF IsParts, SameLayout
  <2>3. Aligned(p[1], p[2], q[1], q[2])
    BY <2>1, <2>2, Zenon DEF Aligned
  <2>4. QED
    BY <2>3, AlignedSplit
<1>11. QED
  BY <1>7, <1>8, <1>9, <1>10

LEMMA CarriedNumbers ==
  /\ Heights \subseteq Carried /\ Rounds \subseteq Carried /\ Nil \in Carried
  /\ Validators \subseteq Int /\ Values \subseteq Int
<1>1. Nil \in Carried
  BY DEF Carried, Nil
<1>2. Heights \subseteq Carried /\ Rounds \subseteq Carried
  BY WireAssumption DEF Carried
<1>3. Validators \subseteq Int /\ Values \subseteq Int
  BY WireAssumption
<1>4. QED
  BY <1>1, <1>2, <1>3

LEMMA VoteFields ==
  ASSUME NEW v \in OpenHlVote
  PROVE  /\ v.height \in Carried /\ v.round \in Carried /\ v.value_id \in Values \cup {Nil}
         /\ v.vote_type \in {"Prevote", "Precommit"} /\ v.address \in Validators
         /\ v.address \in Int
         /\ v = [height |-> v.height, round |-> v.round, value_id |-> v.value_id,
                 vote_type |-> v.vote_type, address |-> v.address]
<1>1. /\ v.height \in Heights /\ v.round \in Rounds /\ v.value_id \in Values \cup {Nil}
      /\ v.vote_type \in {"Prevote", "Precommit"} /\ v.address \in Validators
      /\ v = [height |-> v.height, round |-> v.round, value_id |-> v.value_id,
              vote_type |-> v.vote_type, address |-> v.address]
  BY DEF OpenHlVote
<1>2. QED
  BY <1>1, CarriedNumbers

\* The bytes of a vote, part by part.
LEMMA VoteBytes ==
  ASSUME NEW v \in OpenHlVote
  PROVE  /\ vote_signing_bytes(v)
               = (((LeBytes(v.height, 8) \o LeBytes(v.round, 8)) \o TypeByte(v.vote_type))
                    \o ValueBytes(v.value_id)) \o Address(v.address)
         /\ LeBytes(v.height, 8) \in Bytes /\ Len(LeBytes(v.height, 8)) = 8
         /\ LeBytes(v.round, 8) \in Bytes /\ Len(LeBytes(v.round, 8)) = 8
         /\ TypeByte(v.vote_type) \in Bytes /\ Len(TypeByte(v.vote_type)) = 1
         /\ ValueBytes(v.value_id) \in Bytes /\ Len(ValueBytes(v.value_id)) \in {1, 33}
         /\ Address(v.address) \in Bytes /\ Len(Address(v.address)) = 20
<1>1. vote_signing_bytes(v)
        = (((LeBytes(v.height, 8) \o LeBytes(v.round, 8)) \o TypeByte(v.vote_type))
             \o ValueBytes(v.value_id)) \o Address(v.address)
  BY DEF vote_signing_bytes, ValueBytes, TypeByte
<1>2. /\ LeBytes(v.height, 8) \in Bytes /\ Len(LeBytes(v.height, 8)) = 8
      /\ LeBytes(v.round, 8) \in Bytes /\ Len(LeBytes(v.round, 8)) = 8
  BY VoteFields, LeBytesBind
<1>3. TypeByte(v.vote_type) \in Bytes /\ Len(TypeByte(v.vote_type)) = 1
  BY VoteFields, TypeByteBinds
<1>4. ValueBytes(v.value_id) \in Bytes /\ Len(ValueBytes(v.value_id)) \in {1, 33}
  BY VoteFields, ValueBytesBind
<1>5. Address(v.address) \in Bytes /\ Len(Address(v.address)) = 20
  BY VoteFields, RepeatedByte
<1>6. QED
  BY <1>1, <1>2, <1>3, <1>4, <1>5

VoteParts(v) ==
  <<LeBytes(v.height, 8), LeBytes(v.round, 8), TypeByte(v.vote_type), ValueBytes(v.value_id), Address(v.address)>>

LEMMA VoteLayout ==
  ASSUME NEW v \in OpenHlVote, NEW w \in OpenHlVote
  PROVE  /\ IsParts(VoteParts(v)) /\ Joined(VoteParts(v)) = vote_signing_bytes(v)
         /\ SameLayout(VoteParts(v), VoteParts(w))
<1>1. \A u : /\ VoteParts(u)[1] = LeBytes(u.height, 8) /\ VoteParts(u)[2] = LeBytes(u.round, 8)
             /\ VoteParts(u)[3] = TypeByte(u.vote_type) /\ VoteParts(u)[4] = ValueBytes(u.value_id)
             /\ VoteParts(u)[5] = Address(u.address)
  BY DEF VoteParts
<1>2. IsParts(VoteParts(v))
  BY <1>1, VoteBytes DEF IsParts
<1>3. Joined(VoteParts(v)) = vote_signing_bytes(v)
  BY <1>1, VoteBytes, ZenonT(60) DEF Joined
<1>4. SameLayout(VoteParts(v), VoteParts(w))
  BY <1>1, VoteBytes DEF SameLayout
<1>5. QED
  BY <1>2, <1>3, <1>4

LEMMA VoteBytesLength ==
  ASSUME NEW v \in OpenHlVote
  PROVE  Len(vote_signing_bytes(v)) \in {38, 70}
<1>1. PICK h \in Bytes, r \in Bytes, t \in Bytes, b \in Bytes, a \in Bytes :
        /\ vote_signing_bytes(v) = (((h \o r) \o t) \o b) \o a
        /\ Len(h) = 8 /\ Len(r) = 8 /\ Len(t) = 1 /\ Len(b) \in {1, 33} /\ Len(a) = 20
  BY VoteBytes
<1>2. Len((((h \o r) \o t) \o b) \o a) = Len(h) + Len(r) + Len(t) + Len(b) + Len(a)
  BY PartsInBytes
<1>3. Len(vote_signing_bytes(v)) = Len(h) + Len(r) + Len(t) + Len(b) + Len(a)
  BY <1>1, <1>2, Zenon
<1>4. CASE Len(b) = 1
  BY <1>1, <1>3, <1>4
<1>5. CASE Len(b) = 33
  BY <1>1, <1>3, <1>5
<1>6. QED
  BY <1>1, <1>4, <1>5

\* Two votes have the same bytes only if they are the same vote.
LEMMA VoteBytesBind ==
  ASSUME NEW v \in OpenHlVote, NEW w \in OpenHlVote,
         vote_signing_bytes(v) = vote_signing_bytes(w)
  PROVE  v = w
<1>1. IsParts(VoteParts(v)) /\ Joined(VoteParts(v)) = vote_signing_bytes(v)
  BY VoteLayout
<1>2. IsParts(VoteParts(w)) /\ Joined(VoteParts(w)) = vote_signing_bytes(w)
  BY VoteLayout
<1>3. SameLayout(VoteParts(v), VoteParts(w))
  BY VoteLayout
<1>4. /\ VoteParts(v)[1] = VoteParts(w)[1] /\ VoteParts(v)[2] = VoteParts(w)[2]
      /\ VoteParts(v)[3] = VoteParts(w)[3] /\ VoteParts(v)[4] = VoteParts(w)[4]
      /\ VoteParts(v)[5] = VoteParts(w)[5]
  BY <1>1, <1>2, <1>3, PartsBind
<1>5. /\ LeBytes(v.height, 8) = LeBytes(w.height, 8)
      /\ LeBytes(v.round, 8) = LeBytes(w.round, 8)
      /\ TypeByte(v.vote_type) = TypeByte(w.vote_type) /\ ValueBytes(v.value_id) = ValueBytes(w.value_id)
      /\ Address(v.address) = Address(w.address)
  BY <1>4 DEF VoteParts
<1>6. v.height = w.height /\ v.round = w.round
  <2>1. /\ v.height \in Carried /\ w.height \in Carried
        /\ v.round \in Carried /\ w.round \in Carried
    BY VoteFields
  <2>2. /\ LeBytes(v.height, 8) = LeBytes(w.height, 8)
        /\ LeBytes(v.round, 8) = LeBytes(w.round, 8)
    BY <1>5
  <2>3. QED
    BY <2>1, <2>2, LeBytesBind
<1>7. v.vote_type = w.vote_type
  <2>1. TypeByte(v.vote_type) = TypeByte(w.vote_type)
    BY <1>5
  <2>2. QED
    BY <2>1, VoteFields, TypeByteBinds
<1>8. v.value_id = w.value_id
  <2>1. ValueBytes(v.value_id) = ValueBytes(w.value_id)
    BY <1>5
  <2>2. QED
    BY <2>1, VoteFields, ValueBytesBind
<1>9. v.address = w.address
  <2>1. Address(v.address) = Address(w.address)
    BY <1>5
  <2>2. QED
    BY <2>1, VoteFields, RepeatedByte
<1>10. QED
  BY <1>6, <1>7, <1>8, <1>9, VoteFields

LEMMA ProposalFields ==
  ASSUME NEW p \in OpenHlProposal
  PROVE  /\ p.height \in Carried /\ p.round \in Carried /\ p.value \in Int
         /\ p.pol_round \in Carried /\ p.address \in Int
         /\ p = [height |-> p.height, round |-> p.round, value |-> p.value,
                 pol_round |-> p.pol_round, address |-> p.address]
<1>1. /\ p.height \in Heights /\ p.round \in Rounds /\ p.value \in Values
      /\ p.pol_round \in Rounds \cup {Nil} /\ p.address \in Validators
      /\ p = [height |-> p.height, round |-> p.round, value |-> p.value,
              pol_round |-> p.pol_round, address |-> p.address]
  BY DEF OpenHlProposal
<1>2. QED
  BY <1>1, CarriedNumbers

\* The bytes of a proposal, part by part.
LEMMA ProposalBytes ==
  ASSUME NEW p \in OpenHlProposal
  PROVE  /\ proposal_signing_bytes(p)
               = (((LeBytes(p.height, 8) \o LeBytes(p.round, 8)) \o Hash(p.value))
                    \o LeBytes(p.pol_round, 8)) \o Address(p.address)
         /\ LeBytes(p.height, 8) \in Bytes /\ Len(LeBytes(p.height, 8)) = 8
         /\ LeBytes(p.round, 8) \in Bytes /\ Len(LeBytes(p.round, 8)) = 8
         /\ Hash(p.value) \in Bytes /\ Len(Hash(p.value)) = 32
         /\ LeBytes(p.pol_round, 8) \in Bytes /\ Len(LeBytes(p.pol_round, 8)) = 8
         /\ Address(p.address) \in Bytes /\ Len(Address(p.address)) = 20
<1>1. proposal_signing_bytes(p)
        = (((LeBytes(p.height, 8) \o LeBytes(p.round, 8)) \o Hash(p.value))
             \o LeBytes(p.pol_round, 8)) \o Address(p.address)
  BY DEF proposal_signing_bytes
<1>2. /\ LeBytes(p.height, 8) \in Bytes /\ Len(LeBytes(p.height, 8)) = 8
      /\ LeBytes(p.round, 8) \in Bytes /\ Len(LeBytes(p.round, 8)) = 8
      /\ LeBytes(p.pol_round, 8) \in Bytes /\ Len(LeBytes(p.pol_round, 8)) = 8
  BY ProposalFields, LeBytesBind
<1>3. /\ Hash(p.value) \in Bytes /\ Len(Hash(p.value)) = 32
      /\ Address(p.address) \in Bytes /\ Len(Address(p.address)) = 20
  BY ProposalFields, RepeatedByte
<1>4. QED
  BY <1>1, <1>2, <1>3

ProposalParts(p) ==
  <<LeBytes(p.height, 8), LeBytes(p.round, 8), Hash(p.value), LeBytes(p.pol_round, 8), Address(p.address)>>

LEMMA ProposalLayout ==
  ASSUME NEW p \in OpenHlProposal, NEW q \in OpenHlProposal
  PROVE  /\ IsParts(ProposalParts(p)) /\ Joined(ProposalParts(p)) = proposal_signing_bytes(p)
         /\ SameLayout(ProposalParts(p), ProposalParts(q))
<1>1. \A u : /\ ProposalParts(u)[1] = LeBytes(u.height, 8) /\ ProposalParts(u)[2] = LeBytes(u.round, 8)
             /\ ProposalParts(u)[3] = Hash(u.value) /\ ProposalParts(u)[4] = LeBytes(u.pol_round, 8)
             /\ ProposalParts(u)[5] = Address(u.address)
  BY DEF ProposalParts
<1>2. IsParts(ProposalParts(p))
  BY <1>1, ProposalBytes DEF IsParts
<1>3. Joined(ProposalParts(p)) = proposal_signing_bytes(p)
  BY <1>1, ProposalBytes DEF Joined
<1>4. SameLayout(ProposalParts(p), ProposalParts(q))
  BY <1>1, ProposalBytes DEF SameLayout
<1>5. QED
  BY <1>2, <1>3, <1>4

LEMMA ProposalBytesLength ==
  ASSUME NEW p \in OpenHlProposal
  PROVE  Len(proposal_signing_bytes(p)) = 76
<1>1. PICK h \in Bytes, r \in Bytes, t \in Bytes, b \in Bytes, a \in Bytes :
        /\ proposal_signing_bytes(p) = (((h \o r) \o t) \o b) \o a
        /\ Len(h) = 8 /\ Len(r) = 8 /\ Len(t) = 32 /\ Len(b) = 8 /\ Len(a) = 20
  BY ProposalBytes
<1>2. Len((((h \o r) \o t) \o b) \o a) = Len(h) + Len(r) + Len(t) + Len(b) + Len(a)
  BY PartsInBytes
<1>3. Len(proposal_signing_bytes(p)) = Len(h) + Len(r) + Len(t) + Len(b) + Len(a)
  BY <1>1, <1>2, Zenon
<1>4. QED
  BY <1>1, <1>3

LEMMA ProposalBytesBind ==
  ASSUME NEW p \in OpenHlProposal, NEW q \in OpenHlProposal,
         proposal_signing_bytes(p) = proposal_signing_bytes(q)
  PROVE  p = q
<1>1. IsParts(ProposalParts(p)) /\ Joined(ProposalParts(p)) = proposal_signing_bytes(p)
  BY ProposalLayout
<1>2. IsParts(ProposalParts(q)) /\ Joined(ProposalParts(q)) = proposal_signing_bytes(q)
  BY ProposalLayout
<1>3. SameLayout(ProposalParts(p), ProposalParts(q))
  BY ProposalLayout
<1>4. /\ ProposalParts(p)[1] = ProposalParts(q)[1] /\ ProposalParts(p)[2] = ProposalParts(q)[2]
      /\ ProposalParts(p)[3] = ProposalParts(q)[3] /\ ProposalParts(p)[4] = ProposalParts(q)[4]
      /\ ProposalParts(p)[5] = ProposalParts(q)[5]
  BY <1>1, <1>2, <1>3, PartsBind
<1>5. /\ LeBytes(p.height, 8) = LeBytes(q.height, 8)
      /\ LeBytes(p.round, 8) = LeBytes(q.round, 8)
      /\ Hash(p.value) = Hash(q.value) /\ LeBytes(p.pol_round, 8) = LeBytes(q.pol_round, 8)
      /\ Address(p.address) = Address(q.address)
  BY <1>4 DEF ProposalParts
<1>6. p.height = q.height /\ p.round = q.round /\ p.pol_round = q.pol_round
  <2>1. /\ p.height \in Carried /\ q.height \in Carried
        /\ p.round \in Carried /\ q.round \in Carried
        /\ p.pol_round \in Carried /\ q.pol_round \in Carried
    BY ProposalFields
  <2>2. /\ LeBytes(p.height, 8) = LeBytes(q.height, 8)
        /\ LeBytes(p.round, 8) = LeBytes(q.round, 8)
        /\ LeBytes(p.pol_round, 8) = LeBytes(q.pol_round, 8)
    BY <1>5
  <2>3. QED
    BY <2>1, <2>2, LeBytesBind
<1>7. p.value = q.value /\ p.address = q.address
  <2>1. Hash(p.value) = Hash(q.value) /\ Address(p.address) = Address(q.address)
    BY <1>5
  <2>2. QED
    BY <2>1, ProposalFields, RepeatedByte
<1>8. QED
  BY <1>6, <1>7, ProposalFields

\* No bytes are those of a vote and of a proposal: their lengths differ.
LEMMA KindsDiffer ==
  ASSUME NEW v \in OpenHlVote, NEW p \in OpenHlProposal
  PROVE  vote_signing_bytes(v) # proposal_signing_bytes(p)
<1>1. Len(vote_signing_bytes(v)) \in {38, 70}
  BY VoteBytesLength
<1>2. Len(proposal_signing_bytes(p)) = 76
  BY ProposalBytesLength
<1>3. QED
  BY <1>1, <1>2

\* A signature verifies for what it was made for, and for nothing else.
LEMMA SignatureBinds ==
  ASSUME votes \subseteq OpenHlVote, proposals \subseteq OpenHlProposal, NEW s \in Signatures
  PROVE  /\ \A v \in OpenHlVote :
              verify_signed_vote(v, s) <=> v \in votes /\ s = sign_vote(v).signature
         /\ \A p \in OpenHlProposal :
              verify_signed_proposal(p, s) <=> p \in proposals /\ s = sign_proposal(p).signature
<1>1. \A x : /\ sign_vote(x).signature = [key |-> x.address, bytes |-> vote_signing_bytes(x)]
             /\ sign_proposal(x).signature = [key |-> x.address, bytes |-> proposal_signing_bytes(x)]
  BY DEF sign_vote, sign_proposal, Sign
<1>2. \A x : /\ verify_signed_vote(x, s) <=> s.key = x.address /\ s.bytes = vote_signing_bytes(x)
             /\ verify_signed_proposal(x, s) <=> s.key = x.address /\ s.bytes = proposal_signing_bytes(x)
  BY DEF verify_signed_vote, verify_signed_proposal, Verify
<1>0. \A x : /\ sign_vote(x).signature.key = x.address
             /\ sign_vote(x).signature.bytes = vote_signing_bytes(x)
             /\ sign_proposal(x).signature.key = x.address
             /\ sign_proposal(x).signature.bytes = proposal_signing_bytes(x)
  BY DEF sign_vote, sign_proposal, Sign
<1>3. CASE \E u \in votes : s = sign_vote(u).signature
  <2>1. PICK u \in votes : s = sign_vote(u).signature
    BY <1>3
  <2>2. u \in OpenHlVote /\ s = [key |-> u.address, bytes |-> vote_signing_bytes(u)]
    BY <1>1, <2>1
  <2>3. s.key = u.address /\ s.bytes = vote_signing_bytes(u)
    BY <2>2
  <2>4. ASSUME NEW v \in OpenHlVote
        PROVE  verify_signed_vote(v, s) <=> v \in votes /\ s = sign_vote(v).signature
    <3>1. vote_signing_bytes(u) = vote_signing_bytes(v) => u = v
      BY <2>2, VoteBytesBind
    <3>2. s = sign_vote(v).signature => s.key = v.address /\ s.bytes = vote_signing_bytes(v)
      BY <1>0, Zenon
    <3>3. QED
      BY <1>2, <2>1, <2>3, <3>1, <3>2
  <2>5. ASSUME NEW p \in OpenHlProposal
        PROVE  ~ verify_signed_proposal(p, s) /\ s # sign_proposal(p).signature
    <3>1. vote_signing_bytes(u) # proposal_signing_bytes(p)
      BY <2>2, KindsDiffer
    <3>2. s = sign_proposal(p).signature => s.bytes = proposal_signing_bytes(p)
      BY <1>0, Zenon
    <3>3. QED
      BY <1>2, <2>3, <3>1, <3>2
  <2>6. QED
    BY <2>4, <2>5
<1>4. CASE \E q \in proposals : s = sign_proposal(q).signature
  <2>1. PICK q \in proposals : s = sign_proposal(q).signature
    BY <1>4
  <2>2. q \in OpenHlProposal /\ s = [key |-> q.address, bytes |-> proposal_signing_bytes(q)]
    BY <1>1, <2>1
  <2>3. s.key = q.address /\ s.bytes = proposal_signing_bytes(q)
    BY <2>2
  <2>4. ASSUME NEW p \in OpenHlProposal
        PROVE  verify_signed_proposal(p, s) <=> p \in proposals /\ s = sign_proposal(p).signature
    <3>1. proposal_signing_bytes(q) = proposal_signing_bytes(p) => q = p
      BY <2>2, ProposalBytesBind
    <3>2. s = sign_proposal(p).signature => s.key = p.address /\ s.bytes = proposal_signing_bytes(p)
      BY <1>0, Zenon
    <3>3. QED
      BY <1>2, <2>1, <2>3, <3>1, <3>2
  <2>5. ASSUME NEW v \in OpenHlVote
        PROVE  ~ verify_signed_vote(v, s) /\ s # sign_vote(v).signature
    <3>1. vote_signing_bytes(v) # proposal_signing_bytes(q)
      BY <2>2, KindsDiffer
    <3>2. s = sign_vote(v).signature => s.bytes = vote_signing_bytes(v)
      BY <1>0, Zenon
    <3>3. QED
      BY <1>2, <2>3, <3>1, <3>2
  <2>6. QED
    BY <2>4, <2>5
<1>5. QED
  BY <1>3, <1>4 DEF Signatures

-----------------------------------------------------------------------------
(* Wire: what the codec keeps.                                             *)

\* Encode and Decode by kind of message.
LEMMA ByKind ==
  ASSUME NEW b
  PROVE  /\ \A kind \in {"Vote", "Proposal"} :
              /\ Encode(Msg(kind, b)) = Msg(kind, SignedConsensusMsgToRaw(b))
              /\ Decode(Msg(kind, b)) = Msg(kind, SignedConsensusMsgFromRaw(b))
         /\ \A kind \in {"LivenessVote", "PolkaCertificate", "SkipRoundCertificate"} :
              /\ Encode(Msg(kind, b)) = Msg(kind, LivenessMsgToRaw(kind, b))
              /\ Decode(Msg(kind, b)) = Msg(kind, LivenessMsgFromRaw(kind, b))
         /\ Encode(Msg("StreamMessage", b)) = Msg("StreamMessage", StreamMessageToRaw(b))
         /\ Decode(Msg("StreamMessage", b)) = Msg("StreamMessage", StreamMessageFromRaw(b))
         /\ Encode(Msg("ProposedValue", b)) = Msg("ProposedValue", ProposedValueToRaw(b))
         /\ Decode(Msg("ProposedValue", b)) = Msg("ProposedValue", ProposedValueFromRaw(b))
         /\ Encode(Msg("Status", b)) = Msg("Status", StatusToRaw(b))
         /\ Decode(Msg("Status", b)) = Msg("Status", StatusFromRaw(b))
         /\ Encode(Msg("ValueRequest", b)) = Msg("ValueRequest", RequestToRaw(b))
         /\ Decode(Msg("ValueRequest", b)) = Msg("ValueRequest", RequestFromRaw(b))
         /\ Encode(Msg("ValueResponse", b)) = Msg("ValueResponse", ResponseToRaw(b))
         /\ Decode(Msg("ValueResponse", b)) = Msg("ValueResponse", ResponseFromRaw(b))
<1>1. \A kind : Msg(kind, b).kind = kind /\ Msg(kind, b).body = b
  BY DEF Msg
<1>2. ASSUME NEW kind \in {"Vote", "Proposal"}
      PROVE  /\ Encode(Msg(kind, b)) = Msg(kind, SignedConsensusMsgToRaw(b))
             /\ Decode(Msg(kind, b)) = Msg(kind, SignedConsensusMsgFromRaw(b))
  BY <1>1 DEF Encode, Decode
<1>3. ASSUME NEW kind \in {"LivenessVote", "PolkaCertificate", "SkipRoundCertificate"}
      PROVE  /\ Encode(Msg(kind, b)) = Msg(kind, LivenessMsgToRaw(kind, b))
             /\ Decode(Msg(kind, b)) = Msg(kind, LivenessMsgFromRaw(kind, b))
  BY <1>1 DEF Encode, Decode
<1>4. /\ Encode(Msg("StreamMessage", b)) = Msg("StreamMessage", StreamMessageToRaw(b))
      /\ Decode(Msg("StreamMessage", b)) = Msg("StreamMessage", StreamMessageFromRaw(b))
  BY <1>1 DEF Encode, Decode
<1>5. /\ Encode(Msg("ProposedValue", b)) = Msg("ProposedValue", ProposedValueToRaw(b))
      /\ Decode(Msg("ProposedValue", b)) = Msg("ProposedValue", ProposedValueFromRaw(b))
  BY <1>1 DEF Encode, Decode
<1>6. /\ Encode(Msg("Status", b)) = Msg("Status", StatusToRaw(b))
      /\ Decode(Msg("Status", b)) = Msg("Status", StatusFromRaw(b))
  BY <1>1 DEF Encode, Decode
<1>7. /\ Encode(Msg("ValueRequest", b)) = Msg("ValueRequest", RequestToRaw(b))
      /\ Decode(Msg("ValueRequest", b)) = Msg("ValueRequest", RequestFromRaw(b))
  BY <1>1 DEF Encode, Decode
<1>8. /\ Encode(Msg("ValueResponse", b)) = Msg("ValueResponse", ResponseToRaw(b))
      /\ Decode(Msg("ValueResponse", b)) = Msg("ValueResponse", ResponseFromRaw(b))
  BY <1>1 DEF Encode, Decode
<1>9. QED
  BY <1>2, <1>3, <1>4, <1>5, <1>6, <1>7, <1>8

\* A message that arrives as it was sent, and that its receiver can check.
Survives(m) == Decode(Encode(m)) = m /\ Verifies(m)

\* A signed vote or proposal is both fields of its Raw struct.
LEMMA SignedSurvives ==
  ASSUME NEW v
  PROVE  /\ Survives(Msg("Vote", sign_vote(v))) /\ Survives(Msg("LivenessVote", sign_vote(v)))
         /\ Survives(Msg("Proposal", sign_proposal(v)))
<1>1. ASSUME NEW x, NEW y
      PROVE  Restrict([message |-> x, signature |-> y], RawSigned) = [message |-> x, signature |-> y]
  BY DEF Restrict, RawSigned
<1>2. /\ Restrict(sign_vote(v), RawSigned) = sign_vote(v)
      /\ Restrict(sign_proposal(v), RawSigned) = sign_proposal(v)
  BY <1>1 DEF sign_vote, sign_proposal
<1>3. /\ Decode(Encode(Msg("Vote", sign_vote(v)))) = Msg("Vote", sign_vote(v))
      /\ Decode(Encode(Msg("Proposal", sign_proposal(v)))) = Msg("Proposal", sign_proposal(v))
  BY <1>2, ByKind DEF SignedConsensusMsgToRaw, SignedConsensusMsgFromRaw
<1>4. LivenessMsgToRaw("LivenessVote", sign_vote(v)) = sign_vote(v)
  BY <1>2 DEF LivenessMsgToRaw
<1>5. LivenessMsgFromRaw("LivenessVote", sign_vote(v)) = sign_vote(v)
  BY <1>2 DEF LivenessMsgFromRaw
<1>6. Decode(Encode(Msg("LivenessVote", sign_vote(v)))) = Msg("LivenessVote", sign_vote(v))
  BY <1>4, <1>5, ByKind
<1>7. /\ verify_signed_vote(sign_vote(v).message, sign_vote(v).signature)
      /\ verify_signed_proposal(sign_proposal(v).message, sign_proposal(v).signature)
  BY DEF sign_vote, sign_proposal, Sign, Verify, verify_signed_vote, verify_signed_proposal
<1>8. \A kind, b : Msg(kind, b).kind = kind /\ Msg(kind, b).body = b
  BY DEF Msg
<1>9. Verifies(Msg("Vote", sign_vote(v))) /\ Verifies(Msg("LivenessVote", sign_vote(v)))
  BY <1>7, <1>8 DEF Verifies
<1>10. Verifies(Msg("Proposal", sign_proposal(v)))
  BY <1>7, <1>8 DEF Verifies
<1>11. QED
  BY <1>3, <1>6, <1>9, <1>10 DEF Survives

\* The kinds that carry no signature.
LEMMA PlainSurvives ==
  ASSUME NEW x, NEW y, NEW z, NEW u, NEW w, NEW t
  PROVE  /\ Survives(Msg("StreamMessage", [stream_id |-> x, sequence |-> y, content |-> z]))
         /\ Survives(Msg("ProposedValue",
              [height |-> x, round |-> y, valid_round |-> z, proposer |-> u, value |-> w, validity |-> t]))
         /\ Survives(Msg("Status", [peer_id |-> x, tip_height |-> y, history_min_height |-> z]))
         /\ Survives(Msg("ValueRequest", [height |-> x]))
<1>1. \A kind, b : Msg(kind, b).kind = kind
  BY DEF Msg
<1>2. Survives(Msg("StreamMessage", [stream_id |-> x, sequence |-> y, content |-> z]))
  <2>1. Restrict([stream_id |-> x, sequence |-> y, content |-> z], RawStreamMessage)
          = [stream_id |-> x, sequence |-> y, content |-> z]
    BY DEF Restrict, RawStreamMessage
  <2>2. \A b : Verifies(Msg("StreamMessage", b))
    BY <1>1 DEF Verifies
  <2>3. QED
    BY <2>1, <2>2, ByKind DEF Survives, StreamMessageToRaw, StreamMessageFromRaw
<1>3. Survives(Msg("ProposedValue",
        [height |-> x, round |-> y, valid_round |-> z, proposer |-> u, value |-> w, validity |-> t]))
  <2> DEFINE b == [height |-> x, round |-> y, valid_round |-> z, proposer |-> u, value |-> w, validity |-> t]
  <2>1. Restrict(b, RawProposedValue) = b
    BY DEF Restrict, RawProposedValue
  <2>2. Verifies(Msg("ProposedValue", b))
    BY <1>1 DEF Verifies
  <2> HIDE DEF b
  <2>3. Decode(Encode(Msg("ProposedValue", b))) = Msg("ProposedValue", b)
    BY <2>1, ByKind DEF ProposedValueToRaw, ProposedValueFromRaw
  <2>4. QED
    BY <2>2, <2>3 DEF Survives, b
<1>4. Survives(Msg("Status", [peer_id |-> x, tip_height |-> y, history_min_height |-> z]))
  <2>1. ASSUME NEW p
        PROVE  Restrict([peer_id |-> p, tip_height |-> y, history_min_height |-> z], RawStatus)
                 = [peer_id |-> p, tip_height |-> y, history_min_height |-> z]
    BY DEF Restrict, RawStatus
  <2>2. StatusToRaw([peer_id |-> x, tip_height |-> y, history_min_height |-> z])
          = [peer_id |-> <<x>>, tip_height |-> y, history_min_height |-> z]
    BY <2>1 DEF StatusToRaw, PeerBytes
  <2>3. StatusFromRaw([peer_id |-> <<x>>, tip_height |-> y, history_min_height |-> z])
          = [peer_id |-> x, tip_height |-> y, history_min_height |-> z]
    BY <2>1 DEF StatusFromRaw, FromPeerBytes
  <2>4. \A b : Verifies(Msg("Status", b))
    BY <1>1 DEF Verifies
  <2>5. QED
    BY <2>2, <2>3, <2>4, ByKind DEF Survives
<1>5. Survives(Msg("ValueRequest", [height |-> x]))
  <2>1. Restrict([height |-> x], RawValueRequest) = [height |-> x]
    BY DEF Restrict, RawValueRequest
  <2>2. \A b : Verifies(Msg("ValueRequest", b))
    BY <1>1 DEF Verifies
  <2>3. QED
    BY <2>1, <2>2, ByKind DEF Survives, RequestToRaw, RequestFromRaw
<1>6. QED
  BY <1>2, <1>3, <1>4, <1>5

\* SetToSeq lists members of its set.
LEMMA Listed ==
  ASSUME NEW S, IsFiniteSet(S), NEW i \in 1..Cardinality(S)
  PROVE  SetToSeq(S)[i] \in S
<1>1. \E f \in [1..Cardinality(S) -> S] : IsInjective(f)
  <2>1. Bijection(1..Cardinality(S), S) # {}
    BY FS_CardinalityType DEF ExistsBijection
  <2>2. QED
    BY <2>1 DEF Bijection, Injection
<1>2. SetToSeq(S) \in [1..Cardinality(S) -> S]
  BY <1>1 DEF SetToSeq
<1>3. QED
  BY <1>2

\* The entry that a certificate has for one vote.
Entry(v) ==
  [vote_type |-> v.vote_type, value_id |-> v.value_id,
   address |-> v.address, signature |-> sign_vote(v).signature]

\* A certificate is one entry for some of the votes, cut to the given fields.
LEMMA CertificateEntries ==
  ASSUME NEW S, IsFiniteSet(S), NEW fields
  PROVE  /\ DOMAIN Certificate(S, fields) = 1..Cardinality(S)
         /\ Certificate(S, fields) = [i \in 1..Cardinality(S) |-> Certificate(S, fields)[i]]
         /\ \A i \in 1..Cardinality(S) :
              \E v \in S : Certificate(S, fields)[i] = Restrict(Entry(v), fields)
<1>1. /\ DOMAIN Certificate(S, fields) = 1..Cardinality(S)
      /\ Certificate(S, fields) = [i \in 1..Cardinality(S) |-> Certificate(S, fields)[i]]
  BY DEF Certificate
<1>2. ASSUME NEW i \in 1..Cardinality(S)
      PROVE  \E v \in S : Certificate(S, fields)[i] = Restrict(Entry(v), fields)
  <2>1. Certificate(S, fields)[i] = Restrict(Entry(SetToSeq(S)[i]), fields)
    BY DEF Certificate, Entry
  <2>2. SetToSeq(S)[i] \in S
    BY Listed
  <2>3. QED
    BY <2>1, <2>2
<1>3. QED
  BY <1>1, <1>2

\* The Raw struct of a signature drops nothing that the certificate has.
LEMMA EntriesKept ==
  ASSUME NEW S, IsFiniteSet(S), NEW fields
  PROVE  [i \in DOMAIN Certificate(S, fields) |-> Restrict(Certificate(S, fields)[i], fields)]
           = Certificate(S, fields)
<1>1. \A f : Restrict(Restrict(f, fields), fields) = Restrict(f, fields)
  BY DEF Restrict
<1>2. ASSUME NEW i \in 1..Cardinality(S)
      PROVE  Restrict(Certificate(S, fields)[i], fields) = Certificate(S, fields)[i]
  <2>1. PICK v \in S : Certificate(S, fields)[i] = Restrict(Entry(v), fields)
    BY CertificateEntries
  <2>2. QED
    BY <1>1, <2>1
<1>3. QED
  BY <1>2, CertificateEntries

\* So a certificate is what its own Raw struct keeps of it.
LEMMA CertificatesKept ==
  ASSUME NEW S, IsFiniteSet(S), NEW h, NEW r, NEW b
  PROVE  /\ RawPolkaCertificate([height |-> h, round |-> r, value_id |-> b,
                                 signatures |-> Certificate(S, {"address", "signature"})])
              = [height |-> h, round |-> r, value_id |-> b,
                 signatures |-> Certificate(S, {"address", "signature"})]
         /\ RawCommitCertificate([height |-> h, round |-> r, value_id |-> b,
                                  signatures |-> Certificate(S, {"address", "signature"})])
              = [height |-> h, round |-> r, value_id |-> b,
                 signatures |-> Certificate(S, {"address", "signature"})]
         /\ RawRoundCertificate([height |-> h, round |-> r, cert_type |-> b,
              signatures |-> Certificate(S, {"vote_type", "value_id", "address", "signature"})])
              = [height |-> h, round |-> r, cert_type |-> b,
                 signatures |-> Certificate(S, {"vote_type", "value_id", "address", "signature"})]
<1>1. ASSUME NEW s, NEW fields, [i \in DOMAIN s |-> Restrict(s[i], fields)] = s
      PROVE  /\ Shim([height |-> h, round |-> r, value_id |-> b, signatures |-> s],
                     {"height", "round", "value_id", "signatures"}, fields)
                  = [height |-> h, round |-> r, value_id |-> b, signatures |-> s]
             /\ Shim([height |-> h, round |-> r, cert_type |-> b, signatures |-> s],
                     {"height", "round", "cert_type", "signatures"}, fields)
                  = [height |-> h, round |-> r, cert_type |-> b, signatures |-> s]
  <2>1. /\ Restrict([height |-> h, round |-> r, value_id |-> b, signatures |-> s],
                    {"height", "round", "value_id", "signatures"})
             = [height |-> h, round |-> r, value_id |-> b, signatures |-> s]
        /\ Restrict([height |-> h, round |-> r, cert_type |-> b, signatures |-> s],
                    {"height", "round", "cert_type", "signatures"})
             = [height |-> h, round |-> r, cert_type |-> b, signatures |-> s]
    BY DEF Restrict
  <2>2. ASSUME NEW c, NEW F
        PROVE  Shim(c, F, fields)
                 = [Restrict(c, F) EXCEPT !.signatures = [i \in DOMAIN Restrict(c, F).signatures |->
                                             Restrict(Restrict(c, F).signatures[i], fields)]]
    BY DEF Shim
  <2>3. Shim([height |-> h, round |-> r, value_id |-> b, signatures |-> s],
             {"height", "round", "value_id", "signatures"}, fields)
          = [[height |-> h, round |-> r, value_id |-> b, signatures |-> s] EXCEPT !.signatures = s]
    BY <1>1, <2>1, <2>2
  <2>4. Shim([height |-> h, round |-> r, cert_type |-> b, signatures |-> s],
             {"height", "round", "cert_type", "signatures"}, fields)
          = [[height |-> h, round |-> r, cert_type |-> b, signatures |-> s] EXCEPT !.signatures = s]
    BY <1>1, <2>1, <2>2
  <2>5. QED
    BY <2>3, <2>4
<1>2. \A fields : [i \in DOMAIN Certificate(S, fields) |-> Restrict(Certificate(S, fields)[i], fields)]
                    = Certificate(S, fields)
  BY EntriesKept
<1>3. QED
  BY <1>1, <1>2 DEF RawPolkaCertificate, RawCommitCertificate, RawRoundCertificate,
     RawPolkaSignature, RawCommitSignature, RawRoundSignature

\* The votes of a certificate and the vote that its header is taken from.
LEMMA VoteSetFacts ==
  ASSUME votes \subseteq OpenHlVote, IsFiniteSet(votes), NEW S \in VoteSets
  PROVE  /\ IsFiniteSet(S) /\ S \subseteq OpenHlVote
         /\ (CHOOSE v \in S : TRUE) \in S
         /\ \A v, w \in S : v.height = w.height /\ v.round = w.round
<1>1. S \in SUBSET votes /\ S # {} /\ \A v, w \in S : v.height = w.height /\ v.round = w.round
  BY DEF VoteSets
<1>2. QED
  BY <1>1, FS_Subset

\* A receiver rebuilds, from the header of a certificate for a block and from
\* an address, the very vote that was signed.
LEMMA ForBlockVerifies ==
  ASSUME votes \subseteq OpenHlVote, IsFiniteSet(votes), NEW type, NEW S \in Agreeing(type)
  PROVE  /\ IsFiniteSet(S)
         /\ \A i \in DOMAIN ForBlock(S, {"address", "signature"}).signatures :
              verify_signed_vote(
                VoteForBlock(ForBlock(S, {"address", "signature"}),
                             ForBlock(S, {"address", "signature"}).signatures[i], type),
                ForBlock(S, {"address", "signature"}).signatures[i].signature)
<1>1. S \in VoteSets /\ \E b \in Values : \A v \in S : v.vote_type = type /\ v.value_id = b
  BY DEF Agreeing
<1>2. PICK b \in Values : \A v \in S : v.vote_type = type /\ v.value_id = b
  BY <1>1
<1>3. /\ IsFiniteSet(S) /\ S \subseteq OpenHlVote
      /\ (CHOOSE v \in S : TRUE) \in S
      /\ \A v, w \in S : v.height = w.height /\ v.round = w.round
  BY <1>1, VoteSetFacts
<1>4. PICK u : u = CHOOSE v \in S : TRUE
  OBVIOUS
<1>5. PICK c : c = [height |-> u.height, round |-> u.round, value_id |-> u.value_id,
                    signatures |-> Certificate(S, {"address", "signature"})]
  OBVIOUS
<1>6. ForBlock(S, {"address", "signature"}) = c
  BY <1>4, <1>5 DEF ForBlock
<1>7. ASSUME NEW i \in DOMAIN c.signatures
      PROVE  verify_signed_vote(VoteForBlock(c, c.signatures[i], type), c.signatures[i].signature)
  <2>1. c.signatures = Certificate(S, {"address", "signature"})
    BY <1>5
  <2>2. i \in 1..Cardinality(S)
    BY <1>3, <1>7, <2>1, CertificateEntries
  <2>3. PICK v \in S : c.signatures[i] = Restrict(Entry(v), {"address", "signature"})
    BY <1>3, <2>1, <2>2, CertificateEntries
  <2>4. ASSUME NEW e
        PROVE  /\ Restrict(e, {"address", "signature"}).address = e.address
               /\ Restrict(e, {"address", "signature"}).signature = e.signature
    BY DEF Restrict
  <2>5. Entry(v).address = v.address /\ Entry(v).signature = sign_vote(v).signature
    BY DEF Entry
  <2>6. c.signatures[i].address = v.address /\ c.signatures[i].signature = sign_vote(v).signature
    BY <2>3, <2>4, <2>5
  <2>7. v \in OpenHlVote /\ u.height = v.height /\ u.round = v.round
    BY <1>3, <1>4, <2>3
  <2>8. u.value_id = v.value_id /\ v.vote_type = type
    BY <1>2, <1>3, <1>4, <2>3
  <2>9. c.height = v.height /\ c.round = v.round /\ c.value_id = v.value_id
    BY <1>5, <2>7, <2>8
  <2>10. v = [height |-> v.height, round |-> v.round, value_id |-> v.value_id,
              vote_type |-> v.vote_type, address |-> v.address]
    BY <2>7, VoteFields
  <2>11. VoteForBlock(c, c.signatures[i], type) = v
    BY <2>6, <2>8, <2>9, <2>10 DEF VoteForBlock
  <2>12. verify_signed_vote(v, sign_vote(v).signature)
    BY DEF verify_signed_vote, sign_vote, Verify, Sign
  <2>13. QED
    BY <2>6, <2>11, <2>12
<1>8. QED
  BY <1>3, <1>6, <1>7

\* The certificate of a skipped round names the type and the value of every
\* vote, as they may differ.
LEMMA RoundVerifies ==
  ASSUME votes \subseteq OpenHlVote, IsFiniteSet(votes), NEW type, NEW S \in VoteSets
  PROVE  /\ IsFiniteSet(S)
         /\ \A i \in DOMAIN RoundCertificate(S, type).signatures :
              /\ {"vote_type", "value_id", "address"} \subseteq DOMAIN RoundCertificate(S, type).signatures[i]
              /\ verify_signed_vote(
                   VoteOf(RoundCertificate(S, type), RoundCertificate(S, type).signatures[i]),
                   RoundCertificate(S, type).signatures[i].signature)
<1> DEFINE F == {"vote_type", "value_id", "address", "signature"}
<1>1. /\ IsFiniteSet(S) /\ S \subseteq OpenHlVote
      /\ (CHOOSE v \in S : TRUE) \in S
      /\ \A v, w \in S : v.height = w.height /\ v.round = w.round
  BY VoteSetFacts
<1>2. PICK u : u = CHOOSE v \in S : TRUE
  OBVIOUS
<1>3. PICK c : c = [height |-> u.height, round |-> u.round, cert_type |-> type,
                    signatures |-> Certificate(S, F)]
  OBVIOUS
<1>4. RoundCertificate(S, type) = c
  BY <1>2, <1>3 DEF RoundCertificate
<1>5. ASSUME NEW i \in DOMAIN c.signatures
      PROVE  /\ {"vote_type", "value_id", "address"} \subseteq DOMAIN c.signatures[i]
             /\ verify_signed_vote(VoteOf(c, c.signatures[i]), c.signatures[i].signature)
  <2>1. c.signatures = Certificate(S, F)
    BY <1>3
  <2>2. ASSUME NEW e
        PROVE  /\ DOMAIN Restrict(e, F) = F
               /\ Restrict(e, F).address = e.address /\ Restrict(e, F).signature = e.signature
               /\ Restrict(e, F).vote_type = e.vote_type /\ Restrict(e, F).value_id = e.value_id
    BY DEF Restrict
  <2>3. {"vote_type", "value_id", "address"} \subseteq F
    OBVIOUS
  <2> HIDE DEF F
  <2>4. i \in 1..Cardinality(S)
    BY <1>1, <1>5, <2>1, CertificateEntries
  <2>5. PICK v \in S : c.signatures[i] = Restrict(Entry(v), F)
    BY <1>1, <2>1, <2>4, CertificateEntries
  <2>6. /\ Entry(v).address = v.address /\ Entry(v).signature = sign_vote(v).signature
        /\ Entry(v).vote_type = v.vote_type /\ Entry(v).value_id = v.value_id
    BY DEF Entry
  <2>7. /\ DOMAIN c.signatures[i] = F
        /\ c.signatures[i].address = v.address /\ c.signatures[i].signature = sign_vote(v).signature
        /\ c.signatures[i].vote_type = v.vote_type /\ c.signatures[i].value_id = v.value_id
    BY <2>2, <2>5, <2>6
  <2>8. v \in OpenHlVote /\ u.height = v.height /\ u.round = v.round
    BY <1>1, <1>2, <2>5
  <2>9. c.height = v.height /\ c.round = v.round
    BY <1>3, <2>8
  <2>10. v = [height |-> v.height, round |-> v.round, value_id |-> v.value_id,
              vote_type |-> v.vote_type, address |-> v.address]
    BY <2>8, VoteFields
  <2>11. VoteOf(c, c.signatures[i]) = v
    BY <2>7, <2>9, <2>10 DEF VoteOf
  <2>12. verify_signed_vote(v, sign_vote(v).signature)
    BY DEF verify_signed_vote, sign_vote, Verify, Sign
  <2>13. QED
    BY <2>3, <2>7, <2>11, <2>12
<1>6. QED
  BY <1>1, <1>4, <1>5

LEMMA ForBlockShape ==
  ASSUME NEW S
  PROVE  \E h, r, b : ForBlock(S, {"address", "signature"})
           = [height |-> h, round |-> r, value_id |-> b,
              signatures |-> Certificate(S, {"address", "signature"})]
<1>1. PICK u : u = CHOOSE v \in S : TRUE
  OBVIOUS
<1>2. ForBlock(S, {"address", "signature"})
        = [height |-> u.height, round |-> u.round, value_id |-> u.value_id,
           signatures |-> Certificate(S, {"address", "signature"})]
  BY <1>1 DEF ForBlock
<1>3. QED
  BY <1>2

LEMMA CertificatesSurvive ==
  ASSUME votes \subseteq OpenHlVote, IsFiniteSet(votes), NEW m \in Certificates
  PROVE  Survives(m)
<1>1. \A kind, b : Msg(kind, b).kind = kind /\ Msg(kind, b).body = b
  BY DEF Msg
<1>2. ASSUME NEW S \in Agreeing("Prevote")
      PROVE  Survives(Msg("PolkaCertificate", ForBlock(S, {"address", "signature"})))
  <2>1. PICK c : c = ForBlock(S, {"address", "signature"})
    OBVIOUS
  <2>2. /\ IsFiniteSet(S)
        /\ \A i \in DOMAIN c.signatures :
             verify_signed_vote(VoteForBlock(c, c.signatures[i], "Prevote"), c.signatures[i].signature)
    BY <2>1, ForBlockVerifies
  <2>3. RawPolkaCertificate(c) = c
    <3>1. PICK h, r, b : c = [height |-> h, round |-> r, value_id |-> b,
                              signatures |-> Certificate(S, {"address", "signature"})]
      BY <2>1, ForBlockShape
    <3>2. QED
      BY <2>2, <3>1, CertificatesKept
  <2>4. LivenessMsgToRaw("PolkaCertificate", c) = c
    BY <2>3 DEF LivenessMsgToRaw
  <2>5. LivenessMsgFromRaw("PolkaCertificate", c) = c
    BY <2>3 DEF LivenessMsgFromRaw
  <2>6. Decode(Encode(Msg("PolkaCertificate", c))) = Msg("PolkaCertificate", c)
    BY <2>4, <2>5, ByKind
  <2>7. Verifies(Msg("PolkaCertificate", c))
    BY <1>1, <2>2 DEF Verifies
  <2>8. QED
    BY <2>1, <2>6, <2>7 DEF Survives
<1>3. ASSUME NEW S \in VoteSets, NEW type
      PROVE  Survives(Msg("SkipRoundCertificate", RoundCertificate(S, type)))
  <2>1. PICK c : c = RoundCertificate(S, type)
    OBVIOUS
  <2>2. /\ IsFiniteSet(S)
        /\ \A i \in DOMAIN c.signatures :
             /\ {"vote_type", "value_id", "address"} \subseteq DOMAIN c.signatures[i]
             /\ verify_signed_vote(VoteOf(c, c.signatures[i]), c.signatures[i].signature)
    BY <2>1, RoundVerifies
  <2>3. RawRoundCertificate(c) = c
    <3>1. PICK h, r, b : c = [height |-> h, round |-> r, cert_type |-> b, signatures |->
                Certificate(S, {"vote_type", "value_id", "address", "signature"})]
      BY <2>1 DEF RoundCertificate
    <3>2. QED
      BY <2>2, <3>1, CertificatesKept
  <2>4. LivenessMsgToRaw("SkipRoundCertificate", c) = c
    BY <2>3 DEF LivenessMsgToRaw
  <2>5. LivenessMsgFromRaw("SkipRoundCertificate", c) = c
    BY <2>3 DEF LivenessMsgFromRaw
  <2>6. Decode(Encode(Msg("SkipRoundCertificate", c))) = Msg("SkipRoundCertificate", c)
    BY <2>4, <2>5, ByKind
  <2>7. Verifies(Msg("SkipRoundCertificate", c))
    BY <1>1, <2>2 DEF Verifies
  <2>8. QED
    BY <2>1, <2>6, <2>7 DEF Survives
<1>4. QED
  BY <1>2, <1>3 DEF Certificates

LEMMA ResponsesSurvive ==
  ASSUME votes \subseteq OpenHlVote, IsFiniteSet(votes), NEW m \in Responses
  PROVE  Survives(m)
<1>1. \A kind, b : Msg(kind, b).kind = kind /\ Msg(kind, b).body = b
  BY DEF Msg
<1>2. ASSUME NEW x, NEW y
      PROVE  Restrict([height |-> x, value |-> y], {"height", "value"}) = [height |-> x, value |-> y]
  BY DEF Restrict
<1>3. ASSUME NEW r
      PROVE  RawValueResponse(r)
               = [Restrict(r, {"height", "value"}) EXCEPT
                    !.value = [i \in DOMAIN Restrict(r, {"height", "value"}).value |->
                                 RawDecided(Restrict(r, {"height", "value"}).value[i])]]
  BY DEF RawValueResponse
<1>4. ASSUME NEW h \in Heights
      PROVE  Survives(Msg("ValueResponse", [height |-> h, value |-> <<>>]))
  <2>1. RawValueResponse([height |-> h, value |-> <<>>]) = [height |-> h, value |-> <<>>]
    <3>1. PICK b : b = [height |-> h, value |-> <<>>]
      OBVIOUS
    <3>2. Restrict(b, {"height", "value"}) = b /\ b.value = <<>>
      BY <1>2, <3>1
    <3>3. [i \in DOMAIN b.value |-> RawDecided(b.value[i])] = <<>>
      BY <3>2
    <3>4. RawValueResponse(b) = [b EXCEPT !.value = <<>>]
      BY <1>3, <3>2, <3>3
    <3>5. QED
      BY <3>1, <3>4
  <2>2. Decode(Encode(Msg("ValueResponse", [height |-> h, value |-> <<>>])))
          = Msg("ValueResponse", [height |-> h, value |-> <<>>])
    BY <2>1, ByKind DEF ResponseToRaw, ResponseFromRaw
  <2>3. Verifies(Msg("ValueResponse", [height |-> h, value |-> <<>>]))
    BY <1>1 DEF Verifies
  <2>4. QED
    BY <2>2, <2>3 DEF Survives
<1>5. ASSUME NEW S \in Agreeing("Precommit"), NEW c, c = ForBlock(S, {"address", "signature"})
      PROVE  Survives(Msg("ValueResponse", [height |-> c.height,
                value |-> <<[value_bytes |-> c.value_id, certificate |-> c]>>]))
  <2>1. /\ IsFiniteSet(S)
        /\ \A i \in DOMAIN c.signatures :
             verify_signed_vote(VoteForBlock(c, c.signatures[i], "Precommit"), c.signatures[i].signature)
    BY <1>5, ForBlockVerifies
  <2>2. RawCommitCertificate(c) = c
    <3>1. PICK h, r, b : c = [height |-> h, round |-> r, value_id |-> b,
                              signatures |-> Certificate(S, {"address", "signature"})]
      BY <1>5, ForBlockShape
    <3>2. QED
      BY <2>1, <3>1, CertificatesKept
  <2>3. PICK d : d = [value_bytes |-> c.value_id, certificate |-> c]
    OBVIOUS
  <2>4. Restrict(d, {"value_bytes", "certificate"}) = d /\ d.certificate = c
    BY <2>3 DEF Restrict
  <2>5. RawDecided(d) = d
    <3>1. RawDecided(d) = [d EXCEPT !.certificate = c]
      BY <2>2, <2>4 DEF RawDecided
    <3>2. QED
      BY <2>3, <3>1
  <2>6. PICK b : b = [height |-> c.height, value |-> <<d>>]
    OBVIOUS
  <2>7. RawValueResponse(b) = b
    <3>1. Restrict(b, {"height", "value"}) = b /\ b.value = <<d>>
      BY <1>2, <2>6
    <3>2. [i \in DOMAIN b.value |-> RawDecided(b.value[i])] = <<d>>
      BY <2>5, <3>1
    <3>3. RawValueResponse(b) = [b EXCEPT !.value = <<d>>]
      BY <1>3, <3>1, <3>2
    <3>4. QED
      BY <2>6, <3>3
  <2>8. Decode(Encode(Msg("ValueResponse", b))) = Msg("ValueResponse", b)
    BY <2>7, ByKind DEF ResponseToRaw, ResponseFromRaw
  <2>9. \A j \in DOMAIN b.value : b.value[j].certificate = c
    BY <2>4, <2>6
  <2>10. Verifies(Msg("ValueResponse", b))
    BY <1>1, <2>1, <2>9 DEF Verifies
  <2>11. QED
    BY <2>3, <2>6, <2>8, <2>10 DEF Survives
<1>6. QED
  BY <1>4, <1>5 DEF Responses

\* Every message the node can send arrives whole and verifiable.
LEMMA MessagesSurvive ==
  ASSUME votes \subseteq OpenHlVote, IsFiniteSet(votes), NEW m \in Messages
  PROVE  Survives(m)
<1>1. CASE m \in SignedMessages
  BY <1>1, SignedSurvives DEF SignedMessages
<1>2. CASE m \in Certificates
  BY <1>2, CertificatesSurvive
<1>3. CASE m \in Responses
  BY <1>3, ResponsesSurvive
<1>4. CASE m \in Proposed
  <2>1. PICK p \in proposals :
          \/ m = Msg("StreamMessage", [stream_id |-> p.height, sequence |-> 0, content |-> <<PartOf(p)>>])
          \/ m = Msg("StreamMessage", [stream_id |-> p.height, sequence |-> 1, content |-> <<>>])
          \/ \E ok \in {"Valid", "Invalid"} :
               m = Msg("ProposedValue",
                     [height |-> p.height, round |-> p.round, valid_round |-> p.pol_round,
                      proposer |-> p.address, value |-> p.value, validity |-> ok])
    BY <1>4 DEF Proposed
  <2>2. /\ \A x, y, z : Survives(Msg("StreamMessage", [stream_id |-> x, sequence |-> y, content |-> z]))
        /\ \A x, y, z, u, w, t : Survives(Msg("ProposedValue",
             [height |-> x, round |-> y, valid_round |-> z, proposer |-> u, value |-> w, validity |-> t]))
    BY PlainSurvives
  <2>3. QED
    BY <2>1, <2>2
<1>5. CASE m \in Statuses
  <2>1. \/ \E v \in Validators, h \in Heights :
               m = Msg("Status", [peer_id |-> v, tip_height |-> h, history_min_height |-> 0])
        \/ \E h \in Heights : m = Msg("ValueRequest", [height |-> h])
    BY <1>5 DEF Statuses
  <2>2. /\ \A x, y, z : Survives(Msg("Status", [peer_id |-> x, tip_height |-> y, history_min_height |-> z]))
        /\ \A x : Survives(Msg("ValueRequest", [height |-> x]))
    BY PlainSurvives
  <2>3. QED
    BY <2>1, <2>2
<1>6. QED
  BY <1>1, <1>2, <1>3, <1>4, <1>5 DEF Messages

-----------------------------------------------------------------------------
(* Wire: the inductive invariant.                                          *)

WireInv ==
  /\ votes \subseteq OpenHlVote /\ IsFiniteSet(votes) /\ proposals \subseteq OpenHlProposal
  /\ IsFiniteSet(sent) /\ Cardinality(sent) <= MaxSent
  /\ \A m \in sent : Survives(m)
  /\ IsFiniteSet(wire) /\ Cardinality(wire) <= Cardinality(sent) + 1
  /\ \A blob \in wire : Decodable(blob) => \E m \in sent : blob = Encode(m)
  /\ received \subseteq sent

LEMMA WireInvInit == WireInit => WireInv
  BY WireAssumption, FS_EmptySet DEF WireInit, WireInv

LEMMA SendKeeps ==
  ASSUME WireInv, NEW m \in Messages, Send(m)
  PROVE  WireInv'
<1>1. /\ votes' = votes /\ proposals' = proposals /\ received' = received
      /\ Cardinality(sent) < MaxSent /\ m \notin sent
      /\ sent' = sent \cup {m} /\ wire' = wire \cup {Encode(m)}
  BY DEF Send
<1>2. Cardinality(sent) \in Nat /\ Cardinality(wire) \in Nat /\ MaxSent \in Nat
  BY FS_CardinalityType, WireAssumption DEF WireInv
<1>3. IsFiniteSet(sent') /\ Cardinality(sent') = Cardinality(sent) + 1
  BY <1>1, FS_AddElement DEF WireInv
<1>4. IsFiniteSet(wire') /\ Cardinality(wire') <= Cardinality(wire) + 1
  <2>1. /\ IsFiniteSet(wire \cup {Encode(m)})
        /\ Cardinality(wire \cup {Encode(m)})
             = IF Encode(m) \in wire THEN Cardinality(wire) ELSE Cardinality(wire) + 1
    BY FS_AddElement DEF WireInv
  <2>2. Cardinality(wire \cup {Encode(m)}) <= Cardinality(wire) + 1
    BY <1>2, <2>1
  <2>3. QED
    BY <1>1, <2>1, <2>2
<1>5. Cardinality(sent') <= MaxSent /\ Cardinality(wire') <= Cardinality(sent') + 1
  <2>1. Cardinality(wire) <= Cardinality(sent) + 1
    BY DEF WireInv
  <2>2. IsFiniteSet(wire') /\ Cardinality(wire') \in Nat
    BY <1>4, FS_CardinalityType
  <2>3. QED
    BY <1>1, <1>2, <1>3, <1>4, <2>1, <2>2
<1>6. Survives(m)
  BY MessagesSurvive DEF WireInv
<1>7. \A x \in sent' : Survives(x)
  BY <1>1, <1>6 DEF WireInv
<1>8. \A blob \in wire' : Decodable(blob) => \E x \in sent' : blob = Encode(x)
  BY <1>1 DEF WireInv
<1>9. QED
  BY <1>1, <1>3, <1>4, <1>5, <1>7, <1>8 DEF WireInv

LEMMA NoiseKeeps ==
  ASSUME WireInv, NEW h \in Heights, Noise(h)
  PROVE  WireInv'
<1>1. /\ votes' = votes /\ proposals' = proposals /\ received' = received /\ sent' = sent
      /\ \/ wire' = {Msg("Garbled", <<>>)}
         \/ wire' = {Msg("Status", [peer_id |-> <<>>, tip_height |-> h, history_min_height |-> h])}
  BY DEF Noise
<1>2. ~ Decodable(Msg("Garbled", <<>>))
  BY DEF Decodable, Msg
<1>3. ~ Decodable(Msg("Status", [peer_id |-> <<>>, tip_height |-> h, history_min_height |-> h]))
  BY DEF Decodable, Msg
<1>4. IsFiniteSet(wire') /\ Cardinality(wire') = 1 /\ \A blob \in wire' : ~ Decodable(blob)
  BY <1>1, <1>2, <1>3, FS_Singleton
<1>5. Cardinality(sent) \in Nat
  BY FS_CardinalityType DEF WireInv
<1>6. QED
  BY <1>1, <1>4, <1>5 DEF WireInv

LEMMA ArrivalKeeps ==
  ASSUME WireInv, NEW blob \in wire, Receive(blob) \/ Refuse(blob)
  PROVE  WireInv'
<1>1. /\ votes' = votes /\ proposals' = proposals /\ sent' = sent /\ wire' = wire \ {blob}
      /\ \/ received' = received
         \/ Decodable(blob) /\ received' = received \cup {Decode(blob)}
  BY DEF Receive, Refuse
<1>2. Cardinality(sent) \in Nat /\ Cardinality(wire) \in Nat
  BY FS_CardinalityType DEF WireInv
<1>3. IsFiniteSet(wire') /\ Cardinality(wire') = Cardinality(wire) - 1
  BY <1>1, FS_RemoveElement DEF WireInv
<1>4. Cardinality(wire') <= Cardinality(sent') + 1
  BY <1>1, <1>2, <1>3 DEF WireInv
<1>5. Decodable(blob) => Decode(blob) \in sent
  BY DEF WireInv, Survives
<1>6. received' \subseteq sent'
  BY <1>1, <1>5 DEF WireInv
<1>7. QED
  BY <1>1, <1>3, <1>4, <1>6 DEF WireInv

LEMMA WireInvNext == WireInv /\ [WireNext]_wireVars => WireInv'
<1> SUFFICES ASSUME WireInv, [WireNext]_wireVars
             PROVE  WireInv'
  OBVIOUS
<1>1. ASSUME NEW v \in OpenHlVote, SignVote(v)
      PROVE  WireInv'
  BY <1>1, FS_AddElement DEF WireInv, SignVote
<1>2. ASSUME NEW p \in OpenHlProposal, SignProposal(p)
      PROVE  WireInv'
  BY <1>2 DEF WireInv, SignProposal
<1>3. CASE UNCHANGED wireVars
  BY <1>3 DEF WireInv, wireVars
<1>4. QED
  BY <1>1, <1>2, <1>3, SendKeeps, NoiseKeeps, ArrivalKeeps DEF WireNext

LEMMA WireInvAlways == WireSpec => []WireInv
  BY WireInvInit, WireInvNext, PTL DEF WireSpec

LEMMA WireInvTypeOK ==
  ASSUME WireInv
  PROVE  WireTypeOK
<1>1. Cardinality(sent) \in Nat /\ Cardinality(wire) \in Nat /\ MaxSent \in Nat
  BY FS_CardinalityType, WireAssumption DEF WireInv
<1>2. IsFiniteSet(received) /\ Cardinality(received) <= Cardinality(sent)
  BY FS_Subset DEF WireInv
<1>3. Cardinality(received) \in Nat
  BY <1>2, FS_CardinalityType
<1>4. Cardinality(wire) <= MaxSent + 1 /\ Cardinality(received) <= MaxSent
  BY <1>1, <1>2, <1>3 DEF WireInv
<1>5. QED
  BY <1>4 DEF WireInv, WireTypeOK

\* No signature that a validator made verifies for another vote or proposal,
\* whatever the heights, rounds, values and validators are: the fields of
\* vote_signing_bytes and proposal_signing_bytes can be read back although
\* they are only put side by side.
THEOREM SignaturesBound == WireSpec => []SignaturesBindMessages
<1>1. WireInv => SignaturesBindMessages
  <2> SUFFICES ASSUME WireInv
               PROVE  SignaturesBindMessages
    OBVIOUS
  <2>1. WireTypeOK
    BY WireInvTypeOK
  <2>2. \A s \in Signatures :
          /\ \A v \in OpenHlVote : verify_signed_vote(v, s) <=> v \in votes /\ s = sign_vote(v).signature
          /\ \A p \in OpenHlProposal :
               verify_signed_proposal(p, s) <=> p \in proposals /\ s = sign_proposal(p).signature
    BY SignatureBinds DEF WireInv
  <2>3. QED
    BY <2>1, <2>2 DEF SignaturesBindMessages
<1>2. QED
  BY <1>1, WireInvAlways, PTL

\* Whatever of the codec's messages is decoded was sent, field for field, and
\* every signature in it, those inside certificates included, verifies for
\* the vote or proposal the receiver rebuilds.
THEOREM ArrivalsVerifiable == WireSpec => []ArrivesVerifiable
<1>1. WireInv => ArrivesVerifiable
  BY DEF WireInv, ArrivesVerifiable, Survives
<1>2. QED
  BY <1>1, WireInvAlways, PTL

-----------------------------------------------------------------------------
(* The runner: its inductive invariant.                                    *)

\* What may travel between the runner and the driver of a run that has built
\* the value v, or nothing yet.
InSet(v) ==
  [kind : {"proposevalue", "proposal", "prevote", "precommit"},
   value : {NoBlock, v}, from : DOMAIN power]
OutSet(v) ==
  [kind : {"timeout", "propose", "prevote", "precommit", "decide"},
   value : {NoBlock, v}, from : {Us}]
DriverSet(v) ==
  [step : {"new", "propose", "prevote", "precommit", "commit"},
   proposal : {NoBlock, v}, votes : SUBSET InSet(v)]

\* The output by which the driver asks for a value.
Asked == <<Input("getvalue", NoBlock)>>

PowerInv ==
  /\ multi \in BOOLEAN /\ IsFiniteSet(DOMAIN power)
  /\ (multi = FALSE \/ power # <<>>) => Us \in DOMAIN power

Built ==
  /\ value \in pending /\ Cardinality(pending) = Len(decided) + 1
  /\ value.number = Len(decided) + 1 /\ value.parent = parent.id
NotBuilt == value = NoBlock /\ Cardinality(pending) = Len(decided)

\* Payload ids are never reused, and the decisions link up to the parent of
\* the next payload.
BlocksInv ==
  /\ IsFiniteSet(pending) /\ pending \subseteq [id : Int, number : Int, parent : Int]
  /\ \A b \in pending : b.id >= 1 /\ b.id <= Cardinality(pending)
  /\ \A b, c \in pending : b.id = c.id => b = c
  /\ decided \in Seq(pending)
  /\ chain = {decided[i] : i \in DOMAIN decided}
  /\ \A i \in DOMAIN decided :
       /\ decided[i].number = i
       /\ decided[i].parent = IF i = 1 THEN Genesis.id ELSE decided[i - 1].id
  /\ parent = (IF decided = <<>> THEN Genesis ELSE decided[Len(decided)])
  /\ head = parent

CarryInv ==
  /\ driver \in DriverSet(value) /\ next \in Seq(InSet(value))
  /\ \/ outputs \in Seq(OutSet(value))
     \/ outputs = Asked /\ phase = "outputs" /\ (IF multi THEN Built ELSE NotBuilt)

PhaseInv ==
  /\ phase \in {"boot", "build", "round", "outputs", "inputs", "commit",
                "ok", "count", "bridge", "stuck"}
  /\ phase \notin {"boot", "count"} => Us \in DOMAIN power
  /\ phase \in {"boot", "ok"} => Cardinality(pending) = Len(decided)
  /\ phase = "build" => NotBuilt /\ (~ multi => driver.step # "new")
  /\ phase = "round" => IF multi THEN Built ELSE NotBuilt
  /\ phase \in {"outputs", "inputs", "commit"} => (Built \/ NotBuilt) /\ driver.step # "new"
  /\ phase = "inputs" => next # <<>>
  /\ Cardinality(pending) \in {Len(decided), Len(decided) + 1}
  /\ value \in pending \cup {NoBlock}

RunnerInv == PowerInv /\ BlocksInv /\ CarryInv /\ PhaseInv

LEMMA Widens ==
  ASSUME NEW v
  PROVE  /\ InSet(NoBlock) \subseteq InSet(v) /\ OutSet(NoBlock) \subseteq OutSet(v)
         /\ DriverSet(NoBlock) \subseteq DriverSet(v)
<1>1. InSet(NoBlock) \subseteq InSet(v) /\ OutSet(NoBlock) \subseteq OutSet(v)
  BY DEF InSet, OutSet
<1>2. DriverSet(NoBlock) \subseteq DriverSet(v)
  BY <1>1 DEF DriverSet
<1>3. QED
  BY <1>1, <1>2

LEMMA OneOutput ==
  ASSUME NEW S, NEW x \in S
  PROVE  <<x>> \in Seq(S) /\ <<>> \in Seq(S)
  OBVIOUS

\* The driver puts out only the value it was given, and asks for none except
\* at the beginning of a round.
LEMMA ProcessCarries ==
  ASSUME NEW v, NEW d \in DriverSet(v), NEW m \in InSet(v)
  PROVE  /\ Process(d, m).driver \in DriverSet(v)
         /\ Process(d, m).out \in Seq(OutSet(v))
         /\ d.step # "new" => Process(d, m).driver.step # "new"
<1>1. /\ d.step \in {"new", "propose", "prevote", "precommit", "commit"}
      /\ d.proposal \in {NoBlock, v} /\ d.votes \in SUBSET InSet(v)
      /\ m.kind \in {"proposevalue", "proposal", "prevote", "precommit"} /\ m.value \in {NoBlock, v}
  BY DEF DriverSet, InSet
<1>2. ASSUME NEW kind \in {"timeout", "propose", "prevote", "precommit", "decide"},
             NEW b \in {NoBlock, v}
      PROVE  <<Input(kind, b)>> \in Seq(OutSet(v))
  <2>1. Input(kind, b) \in OutSet(v)
    BY DEF Input, OutSet
  <2>2. QED
    BY <2>1, OneOutput
<1>3. <<>> \in Seq(OutSet(v))
  OBVIOUS
<1>4. ASSUME NEW step \in {"new", "propose", "prevote", "precommit", "commit"}
      PROVE  /\ [d EXCEPT !.votes = @ \cup {m}] \in DriverSet(v)
             /\ [d EXCEPT !.votes = @ \cup {m}].step = d.step
             /\ [[d EXCEPT !.votes = @ \cup {m}] EXCEPT !.step = step] \in DriverSet(v)
             /\ [[d EXCEPT !.votes = @ \cup {m}] EXCEPT !.step = step].step = step
  BY <1>1 DEF DriverSet
<1>5. ASSUME NEW e \in DriverSet(v), NEW o \in Seq(OutSet(v)), e.step = d.step \/ e.step # "new",
             Process(d, m) = [driver |-> e, out |-> o]
      PROVE  /\ Process(d, m).driver \in DriverSet(v)
             /\ Process(d, m).out \in Seq(OutSet(v))
             /\ d.step # "new" => Process(d, m).driver.step # "new"
  BY <1>5
<1>6. CASE m.kind = "proposevalue"
  <2>1. Process(d, m) = [driver |-> d, out |-> <<Input("propose", m.value)>>]
    BY <1>6 DEF Process
  <2>2. QED
    BY <1>1, <1>2, <2>1
<1>7. CASE m.kind = "proposal"
  <2>1. Process(d, m) = IF d.step # "propose" THEN [driver |-> d, out |-> <<>>]
                        ELSE [driver |-> [d EXCEPT !.step = "prevote", !.proposal = m.value],
                              out |-> <<Input("prevote", m.value)>>]
    BY <1>7 DEF Process
  <2>2. [d EXCEPT !.step = "prevote", !.proposal = m.value] \in DriverSet(v)
    BY <1>1 DEF DriverSet
  <2>3. [d EXCEPT !.step = "prevote", !.proposal = m.value].step = "prevote"
    BY <1>1 DEF DriverSet
  <2>4. CASE d.step # "propose"
    BY <1>3, <2>1, <2>4
  <2>5. CASE d.step = "propose"
    <3>1. PICK e \in DriverSet(v) : e = [d EXCEPT !.step = "prevote", !.proposal = m.value] /\ e.step = "prevote"
      BY <2>2, <2>3
    <3>2. PICK o \in Seq(OutSet(v)) : o = <<Input("prevote", m.value)>>
      BY <1>1, <1>2
    <3>3. Process(d, m) = [driver |-> e, out |-> o]
      BY <2>1, <2>5, <3>1, <3>2
    <3>4. QED
      BY <1>5, <3>1, <3>3
  <2>6. QED
    BY <2>4, <2>5
<1>8. CASE m.kind = "prevote"
  <2>1. \/ Process(d, m) = [driver |-> [[d EXCEPT !.votes = @ \cup {m}] EXCEPT !.step = "precommit"],
                            out |-> <<Input("precommit", d.proposal)>>]
        \/ Process(d, m) = [driver |-> [d EXCEPT !.votes = @ \cup {m}], out |-> <<>>]
    BY <1>8 DEF Process
  <2>2. PICK e \in DriverSet(v) : /\ e = [[d EXCEPT !.votes = @ \cup {m}] EXCEPT !.step = "precommit"]
                                   /\ e.step = "precommit"
    BY <1>4
  <2>3. PICK f \in DriverSet(v) : f = [d EXCEPT !.votes = @ \cup {m}] /\ f.step = d.step
    BY <1>1, <1>4
  <2>4. PICK o \in Seq(OutSet(v)) : o = <<Input("precommit", d.proposal)>>
    BY <1>1, <1>2
  <2>5. Process(d, m) = [driver |-> e, out |-> o] \/ Process(d, m) = [driver |-> f, out |-> <<>>]
    BY <2>1, <2>2, <2>3, <2>4
  <2>6. QED
    BY <1>5, <1>3, <2>2, <2>3, <2>5
<1>9. CASE m.kind = "precommit"
  <2>1. \/ Process(d, m) = [driver |-> [[d EXCEPT !.votes = @ \cup {m}] EXCEPT !.step = "commit"],
                            out |-> <<Input("decide", d.proposal)>>]
        \/ Process(d, m) = [driver |-> [d EXCEPT !.votes = @ \cup {m}], out |-> <<>>]
    BY <1>9 DEF Process
  <2>2. PICK e \in DriverSet(v) : /\ e = [[d EXCEPT !.votes = @ \cup {m}] EXCEPT !.step = "commit"]
                                   /\ e.step = "commit"
    BY <1>4
  <2>3. PICK f \in DriverSet(v) : f = [d EXCEPT !.votes = @ \cup {m}] /\ f.step = d.step
    BY <1>1, <1>4
  <2>4. PICK o \in Seq(OutSet(v)) : o = <<Input("decide", d.proposal)>>
    BY <1>1, <1>2
  <2>5. Process(d, m) = [driver |-> e, out |-> o] \/ Process(d, m) = [driver |-> f, out |-> <<>>]
    BY <2>1, <2>2, <2>3, <2>4
  <2>6. QED
    BY <1>5, <1>3, <2>2, <2>3, <2>5
<1>10. QED
  BY <1>1, <1>6, <1>7, <1>8, <1>9

\* The same for the two inputs that begin a round; the proposer may be any.
LEMMA RoundBegins ==
  ASSUME NEW v, NEW d \in DriverSet(v), NEW w
  PROVE  LET started == Process(d, [kind |-> "newround", value |-> NoBlock, from |-> w])
             voted == Process(started.driver, Proposal(v, w))
         IN /\ started.driver \in DriverSet(v) /\ started.driver.step # "new"
            /\ w = Us => started.out = Asked
            /\ w # Us => /\ started.out \o voted.out \in Seq(OutSet(v))
                         /\ voted.driver \in DriverSet(v) /\ voted.driver.step # "new"
<1> DEFINE started == Process(d, [kind |-> "newround", value |-> NoBlock, from |-> w])
           voted == Process(started.driver, Proposal(v, w))
           e == [d EXCEPT !.step = "propose"]
           f == [e EXCEPT !.step = "prevote", !.proposal = v]
<1>1. started = [driver |-> e,
                 out |-> IF w = Us THEN Asked ELSE <<Input("timeout", NoBlock)>>]
  BY DEF Process, Asked
<1>2. e \in DriverSet(v) /\ e.step = "propose"
  BY DEF DriverSet
<1>3. f \in DriverSet(v) /\ f.step = "prevote"
  BY DEF DriverSet
<1>4. Proposal(v, w).kind = "proposal" /\ Proposal(v, w).value = v
  BY DEF Proposal
<1>5. started.driver = e /\ started.out = IF w = Us THEN Asked ELSE <<Input("timeout", NoBlock)>>
  BY <1>1
<1> HIDE DEF started, e
<1>6. Process(e, Proposal(v, w)) = [driver |-> f, out |-> <<Input("prevote", v)>>]
  BY <1>2, <1>4 DEF Process
<1>7. voted = [driver |-> f, out |-> <<Input("prevote", v)>>]
  BY <1>5, <1>6
<1> HIDE DEF f
<1>8. Input("timeout", NoBlock) \in OutSet(v) /\ Input("prevote", v) \in OutSet(v)
  BY DEF Input, OutSet
<1>9. <<Input("timeout", NoBlock)>> \o <<Input("prevote", v)>> \in Seq(OutSet(v))
  BY <1>8, ConcatProperties
<1>10. voted.out = <<Input("prevote", v)>> /\ voted.driver = f
  BY <1>7
<1> HIDE DEF voted
<1>11. w # Us => started.out \o voted.out \in Seq(OutSet(v))
  BY <1>5, <1>9, <1>10
<1>12. QED
  BY <1>2, <1>3, <1>5, <1>10, <1>11 DEF started, voted

\* The votes that follow ours are of validators, for the value or for nil.
LEMMA EchoesCarry ==
  ASSUME PowerInv, Us \in DOMAIN power, NEW out \in OutSet(value),
         out.kind \in {"prevote", "precommit"}, NEW echo \in Echoes(out)
  PROVE  echo \in Seq(InSet(value))
<1>1. PICK order \in SetToSeqs(DOMAIN power \ {Us}) :
        echo = <<out>> \o [i \in 1..Len(order) |-> MatchingVote(out.kind, out.value, order[i])]
  BY DEF Echoes
<1>2. PICK n : n = Cardinality(DOMAIN power \ {Us})
  OBVIOUS
<1>3. n \in Nat
  BY <1>2, FS_RemoveElement, FS_CardinalityType DEF PowerInv
<1>4. order \in [1..n -> DOMAIN power \ {Us}]
  BY <1>1, <1>2 DEF SetToSeqs
<1>5. Len(order) = n
  <2>1. order \in Seq(DOMAIN power \ {Us})
    BY <1>3, <1>4, SeqDef
  <2>2. DOMAIN order = 1..n /\ DOMAIN order = 1..Len(order) /\ Len(order) \in Nat
    BY <1>4, <2>1, LenProperties
  <2>3. QED
    BY <1>3, <2>2
<1>6. out.value \in {NoBlock, value} /\ out.kind \in {"prevote", "precommit"}
  BY DEF OutSet
<1>7. ASSUME NEW w \in DOMAIN power
      PROVE  MatchingVote(out.kind, out.value, w) \in InSet(value)
  BY <1>6 DEF MatchingVote, Vote, NilVote, InSet
<1>8. PICK t : t = [i \in 1..n |-> MatchingVote(out.kind, out.value, order[i])]
  OBVIOUS
<1>9. t \in [1..n -> InSet(value)]
  BY <1>4, <1>7, <1>8
<1>10. t \in Seq(InSet(value))
  BY <1>3, <1>9, SeqDef
<1>11. out \in InSet(value)
  BY DEF OutSet, InSet
<1>12. <<out>> \o t \in Seq(InSet(value))
  BY <1>10, <1>11, ConcatProperties
<1>13. QED
  BY <1>1, <1>5, <1>8, <1>12

LEMMA RunnerInvInit == RunnerInit => RunnerInv
<1> SUFFICES ASSUME RunnerInit
             PROVE  RunnerInv
  OBVIOUS
<1>1. /\ \/ multi = FALSE /\ power = <<1>>
         \/ multi = TRUE /\ \E n \in 0..MaxValidators : power = Powers(n)
      /\ phase = "boot" /\ parent = Genesis /\ value = NoBlock
      /\ driver = NewDriver /\ outputs = <<>> /\ next = <<>>
      /\ pending = {} /\ chain = {} /\ head = Genesis /\ decided = <<>>
  BY DEF RunnerInit
<1>2. PowerInv
  <2>1. CASE multi = FALSE /\ power = <<1>>
    <3>1. DOMAIN power = {1}
      BY <2>1
    <3>2. QED
      BY <2>1, <3>1, FS_Singleton DEF PowerInv, Us
  <2>2. CASE multi = TRUE /\ \E n \in 0..MaxValidators : power = Powers(n)
    <3>1. PICK n \in 0..MaxValidators : power = Powers(n)
      BY <2>2
    <3>2. n \in Nat /\ DOMAIN power = 1..n
      BY <3>1, RunnerAssumption DEF Powers
    <3>3. IsFiniteSet(DOMAIN power)
      BY <3>2, FS_Interval
    <3>4. CASE n = 0
      <4>1. power = <<>>
        BY <3>1, <3>4 DEF Powers
      <4>2. QED
        BY <2>2, <3>3, <4>1 DEF PowerInv
    <3>5. CASE n # 0
      <4>1. Us \in DOMAIN power
        BY <3>2, <3>5 DEF Us
      <4>2. QED
        BY <2>2, <3>3, <4>1 DEF PowerInv
    <3>6. QED
      BY <3>4, <3>5
  <2>3. QED
    BY <1>1, <2>1, <2>2
<1>3. Cardinality(pending) = 0 /\ IsFiniteSet(pending) /\ Len(decided) = 0
  BY <1>1, FS_EmptySet
<1>4. BlocksInv
  BY <1>1, <1>3 DEF BlocksInv
<1>5. CarryInv
  BY <1>1 DEF CarryInv, NewDriver, DriverSet
<1>6. PhaseInv
  BY <1>1, <1>3 DEF PhaseInv
<1>7. QED
  BY <1>2, <1>4, <1>5, <1>6 DEF RunnerInv

\* The blocks stay as they are.
LEMMA BlocksStay ==
  ASSUME BlocksInv, UNCHANGED <<pending, chain, head, decided, parent>>
  PROVE  BlocksInv'
  BY DEF BlocksInv

LEMMA PowerStays ==
  ASSUME PowerInv, UNCHANGED <<power, multi>>
  PROVE  PowerInv'
  BY DEF PowerInv

LEMMA BeginKeeps ==
  ASSUME RunnerInv, Begin
  PROVE  RunnerInv'
<1>1. /\ phase = "boot" /\ phase' = (IF multi THEN IF power = <<>> THEN "count" ELSE "build" ELSE "round")
      /\ driver' = NewDriver /\ value' = NoBlock /\ outputs' = <<>> /\ next' = <<>>
      /\ power' = power /\ multi' = multi /\ parent' = parent /\ decided' = decided
      /\ pending' = pending /\ chain' = chain /\ head' = head
  BY DEF Begin, bridge
<1>2. PowerInv' /\ BlocksInv'
  BY <1>1, PowerStays, BlocksStay DEF RunnerInv
<1>3. CarryInv'
  <2>1. NewDriver \in [step : {"new", "propose", "prevote", "precommit", "commit"},
                       proposal : {NoBlock, NoBlock}, votes : SUBSET InSet(NoBlock)']
    BY DEF NewDriver
  <2>2. QED
    BY <1>1, <2>1 DEF CarryInv, DriverSet, InSet, OutSet
<1>4. /\ phase' \notin {"boot", "count"} => Us \in DOMAIN power
      /\ multi \in BOOLEAN
  BY <1>1 DEF RunnerInv, PowerInv
<1>5. Cardinality(pending) = Len(decided)
  BY <1>1 DEF RunnerInv, PhaseInv
<1>6. PhaseInv'
  BY <1>1, <1>4, <1>5 DEF PhaseInv, NotBuilt
<1>7. QED
  BY <1>2, <1>3, <1>6 DEF RunnerInv

LEMMA BuildKeeps ==
  ASSUME RunnerInv, Build
  PROVE  RunnerInv'
<1>1. /\ phase = "build"
      /\ power' = power /\ multi' = multi /\ parent' = parent /\ decided' = decided
      /\ driver' = driver /\ outputs' = outputs /\ chain' = chain /\ head' = head
  BY DEF Build
<1>2. PowerInv'
  BY <1>1, PowerStays DEF RunnerInv
<1>3. /\ value = NoBlock /\ Cardinality(pending) = Len(decided) /\ Us \in DOMAIN power
      /\ outputs \in Seq(OutSet(value)) /\ (~ multi => driver.step # "new")
  BY <1>1 DEF RunnerInv, PhaseInv, NotBuilt, CarryInv
<1>4. CASE refuses = "build"
  <2>1. phase' = "bridge" /\ pending' = pending /\ value' = value /\ next' = next
    BY <1>4 DEF Build
  <2>2. BlocksInv'
    BY <1>1, <2>1, BlocksStay DEF RunnerInv
  <2>3. CarryInv'
    BY <1>1, <1>3, <2>1 DEF RunnerInv, CarryInv, DriverSet, InSet, OutSet
  <2>4. PhaseInv'
    BY <1>1, <1>3, <2>1 DEF RunnerInv, PhaseInv
  <2>5. QED
    BY <1>2, <2>2, <2>3, <2>4 DEF RunnerInv
<1>5. CASE refuses # "build"
  <2>1. /\ pending' = pending \cup {Payload} /\ value' = Payload
        /\ \/ driver.step = "new" /\ phase' = "round" /\ next' = next
           \/ driver.step # "new" /\ phase' = "outputs" /\ next' = Append(next, Input("proposevalue", Payload))
    BY <1>5 DEF Build
  <2>2. PICK n \in Nat : n = Len(decided) /\ n = Cardinality(pending)
    <3>1. Cardinality(pending) \in Nat
      BY FS_CardinalityType DEF RunnerInv, BlocksInv
    <3>2. QED
      BY <1>3, <3>1
  <2>3. PICK P : P = Payload
    OBVIOUS
  <2>4. P.id = n + 1 /\ P.number = n + 1 /\ P.parent = parent.id /\ P \in [id : Int, number : Int, parent : Int]
    <3>1. parent.id \in Int
      <4>1. CASE decided = <<>>
        BY <4>1 DEF RunnerInv, BlocksInv, Genesis
      <4>2. CASE decided # <<>>
        <5>1. decided[Len(decided)] \in pending
          BY <4>2 DEF RunnerInv, BlocksInv
        <5>2. QED
          BY <4>2, <5>1 DEF RunnerInv, BlocksInv
      <4>3. QED
        BY <4>1, <4>2
    <3>2. (IF \E b \in chain : b.id = parent.id
           THEN (CHOOSE b \in chain : b.id = parent.id).number ELSE 0) = n
      <4>1. CASE decided = <<>>
        <5>1. chain = {} /\ n = 0
          <6>1. DOMAIN decided = {} /\ Len(decided) = 0
            BY <4>1
          <6>2. QED
            BY <2>2, <6>1 DEF RunnerInv, BlocksInv
        <5>2. QED
          BY <5>1
      <4>2. CASE decided # <<>>
        <5>1. decided \in Seq(pending) /\ n \in DOMAIN decided
          <6>1. decided \in Seq(pending)
            BY DEF RunnerInv, BlocksInv
          <6>2. DOMAIN decided = 1..n
            BY <2>2, <6>1, LenProperties
          <6>3. n # 0
            BY <2>2, <4>2, <6>1, EmptySeq
          <6>4. QED
            BY <6>1, <6>2, <6>3
        <5>2. parent = decided[n] /\ parent \in pending /\ parent \in chain /\ parent.number = n
          BY <2>2, <4>2, <5>1 DEF RunnerInv, BlocksInv
        <5>3. chain \subseteq pending
          BY <5>1 DEF RunnerInv, BlocksInv
        <5>4. \E b \in chain : b.id = parent.id
          BY <5>2
        <5>5. PICK c : c = CHOOSE b \in chain : b.id = parent.id
          OBVIOUS
        <5>6. c \in chain /\ c.id = parent.id
          BY <5>4, <5>5
        <5>7. c = parent
          BY <5>2, <5>3, <5>6 DEF RunnerInv, BlocksInv
        <5>8. QED
          BY <5>2, <5>4, <5>5, <5>7
      <4>3. QED
        BY <4>1, <4>2
    <3>3. P = [id |-> n + 1, number |-> n + 1, parent |-> parent.id]
      BY <2>2, <2>3, <3>2 DEF Payload
    <3>4. QED
      BY <3>1, <3>3
  <2>5. P \notin pending
    BY <2>2, <2>4 DEF RunnerInv, BlocksInv
  <2>6. IsFiniteSet(pending') /\ Cardinality(pending') = n + 1 /\ pending' = pending \cup {P}
    BY <2>1, <2>2, <2>3, <2>5, FS_AddElement DEF RunnerInv, BlocksInv
  <2>7. BlocksInv'
    <3>1. pending' \subseteq [id : Int, number : Int, parent : Int]
      BY <2>4, <2>6 DEF RunnerInv, BlocksInv
    <3>2. \A b \in pending' : b.id >= 1 /\ b.id <= n + 1
      BY <2>2, <2>4, <2>6 DEF RunnerInv, BlocksInv
    <3>3. \A b \in pending : b.id # n + 1
      BY <2>2 DEF RunnerInv, BlocksInv
    <3>4. \A b, c \in pending' : b.id = c.id => b = c
      BY <2>4, <2>6, <3>3 DEF RunnerInv, BlocksInv
    <3>5. decided \in Seq(pending')
      BY <2>6, SeqMonotonic DEF RunnerInv, BlocksInv
    <3>6. QED
      BY <1>1, <2>6, <3>1, <3>2, <3>4, <3>5 DEF RunnerInv, BlocksInv
  <2>8. value' = P /\ P \in pending'
    BY <2>1, <2>3, <2>6
  <2>9. CarryInv'
    <3>1. driver \in DriverSet(P) /\ outputs \in Seq(OutSet(P)) /\ next \in Seq(InSet(P))
      BY <1>3, Widens, SeqMonotonic DEF RunnerInv, CarryInv
    <3>2. Input("proposevalue", P) \in InSet(P)
      BY <1>3 DEF Input, InSet
    <3>3. next' \in Seq(InSet(P))
      BY <2>1, <2>3, <3>1, <3>2
    <3>4. DriverSet(P)' = DriverSet(P) /\ InSet(P)' = InSet(P) /\ OutSet(P)' = OutSet(P)
      BY <1>1 DEF DriverSet, InSet, OutSet
    <3>5. QED
      BY <1>1, <2>8, <3>1, <3>3, <3>4 DEF CarryInv
  <2>10. Built'
    BY <1>1, <2>2, <2>4, <2>6, <2>8 DEF Built
  <2>11. PhaseInv'
    <3>1. driver.step = "new" => multi
      BY <1>3
    <3>2. QED
      BY <1>1, <1>3, <2>1, <2>2, <2>6, <2>8, <2>10, <3>1 DEF PhaseInv
  <2>12. QED
    BY <1>2, <2>7, <2>9, <2>11 DEF RunnerInv
<1>6. QED
  BY <1>4, <1>5

LEMMA StartRoundKeeps ==
  ASSUME RunnerInv, StartRound
  PROVE  RunnerInv'
<1> DEFINE proposer == SelectProposer(power, Height, 0)
           started == Process(driver, [kind |-> "newround", value |-> NoBlock, from |-> proposer])
           voted == Process(started.driver, Proposal(value, proposer))
<1>1. /\ phase = "round" /\ phase' = "outputs"
      /\ power' = power /\ multi' = multi /\ parent' = parent /\ decided' = decided
      /\ value' = value /\ next' = next
      /\ pending' = pending /\ chain' = chain /\ head' = head
  BY DEF StartRound, bridge
<1>2. \/ proposer = Us /\ driver' = started.driver /\ outputs' = started.out
      \/ proposer # Us /\ driver' = voted.driver /\ outputs' = started.out \o voted.out
  BY DEF StartRound
<1>3. driver \in DriverSet(value) /\ next \in Seq(InSet(value))
  BY DEF RunnerInv, CarryInv
<1>4. /\ started.driver \in DriverSet(value) /\ started.driver.step # "new"
      /\ proposer = Us => started.out = Asked
      /\ proposer # Us => /\ started.out \o voted.out \in Seq(OutSet(value))
                          /\ voted.driver \in DriverSet(value) /\ voted.driver.step # "new"
  BY <1>3, RoundBegins
<1> HIDE DEF proposer, started, voted
<1>5. driver' \in DriverSet(value) /\ driver'.step # "new" /\ (outputs' \in Seq(OutSet(value)) \/ outputs' = Asked)
  BY <1>2, <1>4
<1>6. (IF multi THEN Built ELSE NotBuilt) /\ Us \in DOMAIN power
  BY <1>1 DEF RunnerInv, PhaseInv
<1>7. Built' = Built /\ NotBuilt' = NotBuilt
  BY <1>1 DEF Built, NotBuilt
<1>8. DriverSet(value)' = DriverSet(value) /\ InSet(value)' = InSet(value) /\ OutSet(value)' = OutSet(value)
  BY <1>1 DEF DriverSet, InSet, OutSet
<1>9. CarryInv'
  BY <1>1, <1>3, <1>5, <1>6, <1>7, <1>8 DEF CarryInv
<1>10. PhaseInv'
  BY <1>1, <1>5, <1>6, <1>7 DEF PhaseInv, RunnerInv
<1>11. PowerInv' /\ BlocksInv'
  BY <1>1, PowerStays, BlocksStay DEF RunnerInv
<1>12. QED
  BY <1>9, <1>10, <1>11 DEF RunnerInv

LEMMA HandleOutputKeeps ==
  ASSUME RunnerInv, HandleOutput
  PROVE  RunnerInv'
<1>1. /\ phase = "outputs" /\ outputs # <<>> /\ outputs' = Tail(outputs)
      /\ power' = power /\ multi' = multi /\ parent' = parent /\ decided' = decided
      /\ value' = value /\ driver' = driver
      /\ pending' = pending /\ chain' = chain /\ head' = head
  BY DEF HandleOutput, bridge
<1>2. PowerInv' /\ BlocksInv'
  BY <1>1, PowerStays, BlocksStay DEF RunnerInv
<1>3. /\ driver \in DriverSet(value) /\ next \in Seq(InSet(value)) /\ driver.step # "new"
      /\ Built \/ NotBuilt
      /\ Us \in DOMAIN power /\ multi \in BOOLEAN
  BY <1>1 DEF RunnerInv, CarryInv, PhaseInv, PowerInv
<1>4. DriverSet(value)' = DriverSet(value) /\ InSet(value)' = InSet(value) /\ OutSet(value)' = OutSet(value)
  BY <1>1 DEF DriverSet, InSet, OutSet
<1>5. Built' = Built /\ NotBuilt' = NotBuilt
  BY <1>1 DEF Built, NotBuilt
<1>6. ASSUME outputs' \in Seq(OutSet(value)), next' \in Seq(InSet(value)),
             phase' \in {"outputs", "commit"} \/ (phase' = "build" /\ NotBuilt)
      PROVE  RunnerInv'
  <2>1. CarryInv'
    BY <1>1, <1>3, <1>4, <1>6 DEF CarryInv
  <2>2. PhaseInv'
    BY <1>1, <1>3, <1>5, <1>6 DEF PhaseInv, RunnerInv
  <2>3. QED
    BY <1>2, <2>1, <2>2 DEF RunnerInv
<1>7. CASE outputs \in Seq(OutSet(value))
  <2>1. PICK out : out = Head(outputs) /\ out \in OutSet(value)
    BY <1>1, <1>7, HeadTailProperties
  <2>2. outputs' \in Seq(OutSet(value))
    BY <1>1, <1>7, HeadTailProperties
  <2>3. /\ out.kind \in {"timeout", "propose", "prevote", "precommit", "decide"}
        /\ out.value \in {NoBlock, value}
    BY <2>1 DEF OutSet
  <2>4. CASE out.kind = "propose"
    <3>1. next' = Append(next, Proposal(out.value, Us)) /\ phase' = phase
      BY <2>1, <2>4 DEF HandleOutput
    <3>2. Proposal(out.value, Us) \in InSet(value)
      BY <1>3, <2>3 DEF Proposal, InSet
    <3>3. next' \in Seq(InSet(value))
      BY <1>3, <3>1, <3>2
    <3>4. QED
      BY <1>1, <1>6, <2>2, <3>1, <3>3
  <2>5. CASE out.kind \in {"prevote", "precommit"}
    <3>1. PICK echo \in Echoes(out) : next' = next \o echo /\ phase' = phase
      BY <2>1, <2>5 DEF HandleOutput
    <3>2. echo \in Seq(InSet(value))
      BY <1>3, <2>1, <2>5, <3>1, EchoesCarry DEF RunnerInv
    <3>3. next' \in Seq(InSet(value))
      BY <1>3, <3>1, <3>2, ConcatProperties
    <3>4. QED
      BY <1>1, <1>6, <2>2, <3>1, <3>3
  <2>6. CASE out.kind = "decide"
    <3>1. phase' = "commit" /\ next' = next
      BY <2>1, <2>6 DEF HandleOutput
    <3>2. QED
      BY <1>3, <1>6, <2>2, <3>1
  <2>7. CASE out.kind = "timeout"
    <3>1. phase' = phase /\ next' = next
      BY <2>1, <2>7 DEF HandleOutput
    <3>2. QED
      BY <1>1, <1>3, <1>6, <2>2, <3>1
  <2>8. QED
    BY <2>3, <2>4, <2>5, <2>6, <2>7
<1>8. CASE outputs = Asked /\ (IF multi THEN Built ELSE NotBuilt)
  <2>1. Head(outputs).kind = "getvalue" /\ Tail(outputs) = <<>>
    BY <1>8 DEF Asked, Input
  <2>2. outputs' \in Seq(OutSet(value))
    <3>1. outputs' = <<>>
      BY <1>1, <2>1
    <3>2. <<>> \in Seq(OutSet(value))
      OBVIOUS
    <3>3. QED
      BY <3>1, <3>2, Zenon
  <2>3. CASE ~ multi
    <3>1. phase' = "build" /\ next' = next
      BY <2>1, <2>3 DEF HandleOutput, BuildsFor
    <3>2. QED
      BY <1>3, <1>6, <1>8, <2>2, <2>3, <3>1
  <2>4. CASE multi
    <3>1. phase' = phase /\ next' = Append(next, Input("proposevalue", value))
      BY <2>1, <2>4 DEF HandleOutput, BuildsFor
    <3>2. Input("proposevalue", value) \in InSet(value)
      BY <1>3 DEF Input, InSet
    <3>3. next' \in Seq(InSet(value))
      BY <1>3, <3>1, <3>2
    <3>4. QED
      BY <1>1, <1>6, <2>2, <3>1, <3>3
  <2>5. QED
    BY <2>3, <2>4
<1>9. QED
  BY <1>7, <1>8 DEF RunnerInv, CarryInv

LEMMA EndOutputsKeeps ==
  ASSUME RunnerInv, EndOutputs
  PROVE  RunnerInv'
<1>1. /\ phase = "outputs" /\ outputs = <<>> /\ phase' = IF next = <<>> THEN "stuck" ELSE "inputs"
      /\ power' = power /\ multi' = multi /\ parent' = parent /\ decided' = decided
      /\ value' = value /\ driver' = driver /\ outputs' = outputs /\ next' = next
      /\ pending' = pending /\ chain' = chain /\ head' = head
  BY DEF EndOutputs, bridge
<1>2. PowerInv' /\ BlocksInv'
  BY <1>1, PowerStays, BlocksStay DEF RunnerInv
<1>3. DriverSet(value)' = DriverSet(value) /\ InSet(value)' = InSet(value) /\ OutSet(value)' = OutSet(value)
  BY <1>1 DEF DriverSet, InSet, OutSet
<1>4. CarryInv'
  BY <1>1, <1>3 DEF RunnerInv, CarryInv
<1>5. Built' = Built /\ NotBuilt' = NotBuilt
  BY <1>1 DEF Built, NotBuilt
<1>6. PhaseInv'
  BY <1>1, <1>5 DEF RunnerInv, PhaseInv
<1>7. QED
  BY <1>2, <1>4, <1>6 DEF RunnerInv

LEMMA FeedInputKeeps ==
  ASSUME RunnerInv, FeedInput
  PROVE  RunnerInv'
<1>1. /\ phase = "inputs" /\ next' = Tail(next)
      /\ driver' = Process(driver, Head(next)).driver
      /\ outputs' = outputs \o Process(driver, Head(next)).out
      /\ phase' = IF Len(next) = 1 THEN "outputs" ELSE "inputs"
      /\ power' = power /\ multi' = multi /\ parent' = parent /\ decided' = decided
      /\ value' = value /\ pending' = pending /\ chain' = chain /\ head' = head
  BY DEF FeedInput, bridge
<1>2. PowerInv' /\ BlocksInv'
  BY <1>1, PowerStays, BlocksStay DEF RunnerInv
<1>3. /\ driver \in DriverSet(value) /\ next \in Seq(InSet(value)) /\ driver.step # "new" /\ next # <<>>
      /\ outputs \in Seq(OutSet(value)) /\ (Built \/ NotBuilt)
  BY <1>1 DEF RunnerInv, CarryInv, PhaseInv
<1>4. PICK m : m = Head(next) /\ m \in InSet(value)
  BY <1>3, HeadTailProperties
<1>5. /\ Process(driver, m).driver \in DriverSet(value) /\ Process(driver, m).driver.step # "new"
      /\ Process(driver, m).out \in Seq(OutSet(value))
  BY <1>3, <1>4, ProcessCarries
<1>6. outputs' \in Seq(OutSet(value)) /\ driver' \in DriverSet(value) /\ driver'.step # "new"
  <2>1. outputs \o Process(driver, m).out \in Seq(OutSet(value))
    <3>1. PICK o \in Seq(OutSet(value)) : o = Process(driver, m).out
      BY <1>5
    <3>2. outputs \o o \in Seq(OutSet(value))
      BY <1>3, <3>1, ConcatProperties
    <3>3. QED
      BY <3>1, <3>2, Zenon
  <2>2. QED
    BY <1>1, <1>4, <1>5, <2>1, Zenon
<1>7. next' \in Seq(InSet(value)) /\ (Len(next) # 1 => next' # <<>>)
  <2>1. next' \in Seq(InSet(value)) /\ Len(next') = Len(next) - 1
    BY <1>1, <1>3, HeadTailProperties
  <2>2. Len(next) \in Nat
    BY <1>3, LenProperties
  <2>3. QED
    BY <2>1, <2>2
<1>8. DriverSet(value)' = DriverSet(value) /\ InSet(value)' = InSet(value) /\ OutSet(value)' = OutSet(value)
  BY <1>1 DEF DriverSet, InSet, OutSet
<1>9. CarryInv'
  BY <1>1, <1>6, <1>7, <1>8 DEF CarryInv
<1>10. Built' = Built /\ NotBuilt' = NotBuilt
  BY <1>1 DEF Built, NotBuilt
<1>11. PhaseInv'
  BY <1>1, <1>3, <1>6, <1>7, <1>10 DEF RunnerInv, PhaseInv
<1>12. QED
  BY <1>2, <1>9, <1>11 DEF RunnerInv

LEMMA CommitKeeps ==
  ASSUME RunnerInv, Commit
  PROVE  RunnerInv'
<1>1. /\ phase = "commit" /\ power' = power /\ multi' = multi /\ value' = value
      /\ driver' = driver /\ outputs' = outputs /\ next' = next /\ pending' = pending
  BY DEF Commit
<1>2. PowerInv'
  BY <1>1, PowerStays DEF RunnerInv
<1>3. DriverSet(value)' = DriverSet(value) /\ InSet(value)' = InSet(value) /\ OutSet(value)' = OutSet(value)
  BY <1>1 DEF DriverSet, InSet, OutSet
<1>4. outputs \in Seq(OutSet(value)) /\ Us \in DOMAIN power /\ (Built \/ NotBuilt)
  BY <1>1 DEF RunnerInv, CarryInv, PhaseInv
<1>5. CarryInv'
  BY <1>1, <1>3, <1>4 DEF RunnerInv, CarryInv
<1>6. PICK b : b = driver.proposal
  OBVIOUS
<1>7. b \in {NoBlock, value}
  BY <1>6 DEF RunnerInv, CarryInv, DriverSet
<1>8. CASE b \in pending /\ refuses # "commit"
  <2>1. /\ chain' = chain \cup {b} /\ head' = b /\ decided' = Append(decided, b) /\ parent' = b
        /\ phase' \in {"boot", "ok"}
    BY <1>6, <1>8 DEF Commit, Chained, NextParent
  <2>2. NoBlock \notin pending
    <3>1. NoBlock.id = -1
      BY DEF NoBlock
    <3>2. QED
      BY <3>1 DEF RunnerInv, BlocksInv
  <2>3. b = value /\ Built
    BY <1>4, <1>7, <1>8, <2>2 DEF NotBuilt
  <2>4. PICK n \in Nat : n = Len(decided)
    BY LenProperties DEF RunnerInv, BlocksInv
  <2>5. decided \in Seq(pending) /\ DOMAIN decided = 1..n
    BY <2>4, LenProperties DEF RunnerInv, BlocksInv
  <2>6. /\ decided' \in Seq(pending) /\ Len(decided') = n + 1 /\ DOMAIN decided' = 1..(n + 1)
        /\ decided'[n + 1] = b /\ \A i \in 1..n : decided'[i] = decided[i]
    BY <1>8, <2>1, <2>4, <2>5
  <2>7. b.number = n + 1 /\ b.parent = parent.id /\ Cardinality(pending) = n + 1
    BY <2>3, <2>4 DEF Built
  <2>8. chain' = {decided'[i] : i \in DOMAIN decided'}
    <3>1. chain = {decided[i] : i \in 1..n}
      BY <2>5 DEF RunnerInv, BlocksInv
    <3>2. 1..(n + 1) = (1..n) \cup {n + 1}
      OBVIOUS
    <3>3. QED
      BY <2>1, <2>6, <3>1, <3>2
  <2>9. \A i \in DOMAIN decided' :
          /\ decided'[i].number = i
          /\ decided'[i].parent = IF i = 1 THEN Genesis.id ELSE decided'[i - 1].id
    <3>1. ASSUME NEW i \in 1..n
          PROVE  /\ decided'[i].number = i
                 /\ decided'[i].parent = IF i = 1 THEN Genesis.id ELSE decided'[i - 1].id
      <4>1. /\ decided[i].number = i
            /\ decided[i].parent = IF i = 1 THEN Genesis.id ELSE decided[i - 1].id
        BY <2>5 DEF RunnerInv, BlocksInv
      <4>2. i # 1 => i - 1 \in 1..n
        OBVIOUS
      <4>3. QED
        BY <2>6, <4>1, <4>2
    <3>2. b.parent = IF n = 0 THEN Genesis.id ELSE decided[n].id
      <4>1. decided = <<>> <=> n = 0
        BY <2>4, <2>5, EmptySeq
      <4>2. QED
        BY <2>4, <2>7, <4>1 DEF RunnerInv, BlocksInv
    <3>3. /\ decided'[n + 1].number = n + 1
          /\ decided'[n + 1].parent = IF n + 1 = 1 THEN Genesis.id ELSE decided'[(n + 1) - 1].id
      <4>1. n # 0 => n \in 1..n
        OBVIOUS
      <4>2. (n + 1 = 1 <=> n = 0) /\ (n + 1) - 1 = n
        OBVIOUS
      <4>3. QED
        BY <2>6, <2>7, <3>2, <4>1, <4>2
    <3>4. \A i \in 1..(n + 1) : i \in 1..n \/ i = n + 1
      OBVIOUS
    <3>5. QED
      BY <2>6, <3>1, <3>3, <3>4
  <2>10. decided' # <<>> /\ decided'[Len(decided')] = b
    BY <2>6
  <2>11. BlocksInv'
    BY <1>1, <2>1, <2>6, <2>8, <2>9, <2>10 DEF RunnerInv, BlocksInv
  <2>12. PhaseInv'
    BY <1>1, <1>4, <1>8, <2>1, <2>3, <2>6, <2>7 DEF RunnerInv, PhaseInv
  <2>13. QED
    BY <1>2, <1>5, <2>11, <2>12 DEF RunnerInv
<1>9. CASE ~ (b \in pending /\ refuses # "commit")
  <2>1. phase' = "bridge" /\ chain' = chain /\ head' = head /\ decided' = decided /\ parent' = parent
    BY <1>6, <1>9 DEF Commit
  <2>2. BlocksInv'
    BY <1>1, <2>1, BlocksStay DEF RunnerInv
  <2>3. PhaseInv'
    BY <1>1, <1>4, <2>1 DEF RunnerInv, PhaseInv
  <2>4. QED
    BY <1>2, <1>5, <2>2, <2>3 DEF RunnerInv
<1>10. QED
  BY <1>8, <1>9

LEMMA RunnerInvNext == RunnerInv /\ [RunnerNext]_runnerVars => RunnerInv'
<1> SUFFICES ASSUME RunnerInv, [RunnerNext]_runnerVars
             PROVE  RunnerInv'
  OBVIOUS
<1>1. CASE UNCHANGED runnerVars
  BY <1>1 DEF runnerVars, bridge, RunnerInv, PowerInv, BlocksInv, CarryInv, PhaseInv, Built, NotBuilt,
     DriverSet, InSet, OutSet
<1>2. QED
  BY <1>1, BeginKeeps, BuildKeeps, StartRoundKeeps, HandleOutputKeeps, EndOutputsKeeps,
     FeedInputKeeps, CommitKeeps DEF RunnerNext

\* Whatever the number of validators and of rounds, the order of the peers'
\* votes and the call the bridge refuses, the decisions are the bridge's
\* chain, block by block, and a run decides the one payload it built.
THEOREM DecisionsAreChain == RunnerSpec => []DecidedIsChain
<1>1. RunnerInv => DecidedIsChain
  <2> SUFFICES ASSUME RunnerInv
               PROVE  DecidedIsChain
    OBVIOUS
  <2>1. Len(decided) \in Nat /\ DOMAIN decided = 1..Len(decided) /\ decided \in Seq(pending)
    BY LenProperties DEF RunnerInv, BlocksInv
  <2>2. chain \subseteq pending
    BY <2>1 DEF RunnerInv, BlocksInv
  <2>3. head \in chain \cup {Genesis}
    <3>1. CASE decided = <<>>
      BY <3>1 DEF RunnerInv, BlocksInv
    <3>2. CASE decided # <<>>
      <4>1. Len(decided) \in DOMAIN decided
        BY <2>1, <3>2, EmptySeq
      <4>2. QED
        BY <3>2, <4>1 DEF RunnerInv, BlocksInv
    <3>3. QED
      BY <3>1, <3>2
  <2>4. \A x \in driver.votes : x.from \in DOMAIN power
    BY DEF RunnerInv, CarryInv, DriverSet, InSet
  <2>5. RunnerTypeOK
    BY <2>2, <2>3, <2>4 DEF RunnerInv, PhaseInv, RunnerTypeOK
  <2>6. Cardinality(pending) <= Len(decided) + 1
    BY <2>1 DEF RunnerInv, PhaseInv
  <2>7. QED
    BY <2>5, <2>6 DEF RunnerInv, PhaseInv, BlocksInv, DecidedIsChain
<1>2. QED
  BY <1>1, RunnerInvInit, RunnerInvNext, PTL DEF RunnerSpec

=============================================================================

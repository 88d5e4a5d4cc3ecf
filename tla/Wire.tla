-------------------------------- MODULE Wire --------------------------------
(***************************************************************************)
(* What validators sign and how it travels: crates/consensus signing.rs,   *)
(* signing_provider.rs and codec.rs.  A validator signs votes and          *)
(* proposals.  Signed messages, certificates made of the signatures of     *)
(* votes, the parts of a proposal, log entries and sync messages are       *)
(* encoded, and decoded by a receiver who checks every signature against   *)
(* the vote or proposal that the message tells it was signed.              *)
(*                                                                         *)
(* The signing bytes keep their real layout.  A hash and an address are    *)
(* one byte, repeated; an address stands for its validator's key.  JSON is *)
(* the struct it is made from: the shims decide which fields those are.    *)
(***************************************************************************)
EXTENDS Integers, Sequences, FiniteSets, SequencesExt

CONSTANTS
  Validators,   \* the validators, each the byte its address is made of
  Heights, Rounds, Values,
  MaxSigned,    \* votes and proposals signed in a behaviour
  MaxSent       \* messages sent in a behaviour

ASSUME WireAssumption ==
  /\ Validators \subseteq 0..255 /\ Values \subseteq 0..255
  /\ \A n \in Heights \cup Rounds : n \in Nat /\ n <= 65535
  /\ MaxSigned \in Nat /\ MaxSent \in Nat

VARIABLES
  votes,      \* the votes that were signed
  proposals,  \* the proposals that were signed
  sent,       \* the messages that were encoded
  wire,       \* blobs on their way
  received    \* the messages that were decoded

wireVars == <<votes, proposals, sent, wire, received>>

----------------------------------------------------------------------------
\* Messages

\* Round::Nil as as_i64 gives it, and NilOrVal::Nil.
Nil == -1

\* A vote's round is never Nil.
OpenHlVote ==
  [height : Heights, round : Rounds, value_id : Values \cup {Nil},
   vote_type : {"Prevote", "Precommit"}, address : Validators]

\* pol_round is Nil or an earlier round.
OpenHlProposal ==
  {p \in [height : Heights, round : Rounds, value : Values,
          pol_round : Rounds \cup {Nil}, address : Validators] : p.pol_round < p.round}

\* OpenHlProposalPart: the part that streams the block of a proposal.
PartOf(p) ==
  [height |-> p.height, round |-> p.round, pol_round |-> p.pol_round,
   proposer |-> p.address, block_bytes |-> p.value]

\* A message is the enum variant it is and what that variant holds.
Msg(kind, body) == [kind |-> kind, body |-> body]

----------------------------------------------------------------------------
\* Signatures: signing.rs and signing_provider.rs

\* to_le_bytes of an integer of the given number of bytes, two's complement;
\* integers below 2^16 in absolute value.
LeBytes(n, width) ==
  [i \in 1..width |-> IF i = 1 THEN n % 256
                     ELSE IF i = 2 THEN (n \div 256) % 256
                     ELSE IF n < 0 THEN 255 ELSE 0]

Hash(value) == [i \in 1..32 |-> value]
Address(validator) == [i \in 1..20 |-> validator]

\* The vote's type is not signed: a prevote counts as a precommit.
vote_signing_bytes_NoType(v) ==
  LeBytes(v.height, 8) \o LeBytes(v.round, 8)
    \o (IF v.value_id = Nil THEN <<0>> ELSE <<1>> \o Hash(v.value_id))
    \o Address(v.address)

vote_signing_bytes(v) ==
  LeBytes(v.height, 8) \o LeBytes(v.round, 8)
    \o <<IF v.vote_type = "Prevote" THEN 0 ELSE 1>>
    \o (IF v.value_id = Nil THEN <<0>> ELSE <<1>> \o Hash(v.value_id))
    \o Address(v.address)

proposal_signing_bytes(p) ==
  LeBytes(p.height, 8) \o LeBytes(p.round, 8) \o Hash(p.value)
    \o LeBytes(p.pol_round, 8) \o Address(p.address)

\* ed25519: PrivateKey::sign and PublicKey::verify.
Sign(key, bytes) == [key |-> key, bytes |-> bytes]
Verify(key, bytes, signature) == signature.key = key /\ signature.bytes = bytes

sign_vote(v) ==
  [message |-> v, signature |-> Sign(v.address, vote_signing_bytes(v))]
sign_proposal(p) ==
  [message |-> p, signature |-> Sign(p.address, proposal_signing_bytes(p))]

verify_signed_vote(v, signature) ==
  Verify(v.address, vote_signing_bytes(v), signature)
verify_signed_proposal(p, signature) ==
  Verify(p.address, proposal_signing_bytes(p), signature)

----------------------------------------------------------------------------
\* The codec: what of a message each Raw struct keeps

RawSigned == {"message", "signature"}
RawPolkaSignature == {"address", "signature"}
\* The vote a signature was made for is left to be guessed.
RawRoundSignature_NoType == {"value_id", "address", "signature"}
RawRoundSignature == {"vote_type", "value_id", "address", "signature"}
RawCommitSignature == {"address", "signature"}
RawStreamMessage == {"stream_id", "sequence", "content"}
RawProposedValue == {"height", "round", "valid_round", "proposer", "value", "validity"}
RawStatus == {"peer_id", "tip_height", "history_min_height"}
RawValueRequest == {"height"}

\* A Raw certificate keeps the given fields and, of each signature, those of
\* its own Raw struct.
Shim(c, fields, signature) ==
  [Restrict(c, fields) EXCEPT
     !.signatures = [i \in DOMAIN @ |-> Restrict(@[i], signature)]]

RawPolkaCertificate(c) ==
  Shim(c, {"height", "round", "value_id", "signatures"}, RawPolkaSignature)
RawRoundCertificate(c) ==
  Shim(c, {"height", "round", "cert_type", "signatures"}, RawRoundSignature)
RawCommitCertificate(c) ==
  Shim(c, {"height", "round", "value_id", "signatures"}, RawCommitSignature)

RawDecided(d) ==
  [Restrict(d, {"value_bytes", "certificate"}) EXCEPT !.certificate = RawCommitCertificate(@)]

\* The Option of a response is a sequence of at most one decided value.
RawValueResponse(r) ==
  [Restrict(r, {"height", "value"}) EXCEPT !.value = [i \in DOMAIN @ |-> RawDecided(@[i])]]

\* PeerId::to_bytes, and from_bytes where it succeeds.
PeerBytes(peer) == <<peer>>
FromPeerBytes(bytes) == bytes[1]

\* The conversions to and from the Raw structs, by type of message.
SignedConsensusMsgToRaw(b) == Restrict(b, RawSigned)
SignedConsensusMsgFromRaw(r) == Restrict(r, RawSigned)

LivenessMsgToRaw(kind, b) ==
  CASE kind = "LivenessVote" -> Restrict(b, RawSigned)
    [] kind = "PolkaCertificate" -> RawPolkaCertificate(b)
    [] kind = "SkipRoundCertificate" -> RawRoundCertificate(b)
LivenessMsgFromRaw(kind, r) ==
  CASE kind = "LivenessVote" -> Restrict(r, RawSigned)
    [] kind = "PolkaCertificate" -> RawPolkaCertificate(r)
    [] kind = "SkipRoundCertificate" -> RawRoundCertificate(r)

StreamMessageToRaw(b) == Restrict(b, RawStreamMessage)
StreamMessageFromRaw(r) == Restrict(r, RawStreamMessage)

ProposedValueToRaw(b) == Restrict(b, RawProposedValue)
ProposedValueFromRaw(r) == Restrict(r, RawProposedValue)

StatusToRaw(b) == [Restrict(b, RawStatus) EXCEPT !.peer_id = PeerBytes(@)]
StatusFromRaw(r) == [Restrict(r, RawStatus) EXCEPT !.peer_id = FromPeerBytes(@)]

RequestToRaw(b) == Restrict(b, RawValueRequest)
RequestFromRaw(r) == Restrict(r, RawValueRequest)

ResponseToRaw(b) == RawValueResponse(b)
ResponseFromRaw(r) == RawValueResponse(r)

\* Codec::encode of each type.
Encode(m) ==
  Msg(m.kind,
    CASE m.kind \in {"Vote", "Proposal"} -> SignedConsensusMsgToRaw(m.body)
      [] m.kind = "StreamMessage" -> StreamMessageToRaw(m.body)
      [] m.kind = "ProposedValue" -> ProposedValueToRaw(m.body)
      [] m.kind = "Status" -> StatusToRaw(m.body)
      [] m.kind = "ValueRequest" -> RequestToRaw(m.body)
      [] m.kind = "ValueResponse" -> ResponseToRaw(m.body)
      [] OTHER -> LivenessMsgToRaw(m.kind, m.body))

\* What serde_json and PeerId::from_bytes can read.
Decodable(blob) ==
  /\ blob.kind # "Garbled"
  /\ blob.kind = "Status" => blob.body.peer_id # <<>>

\* Codec::decode of each type, where it succeeds.
Decode(blob) ==
  Msg(blob.kind,
    CASE blob.kind \in {"Vote", "Proposal"} -> SignedConsensusMsgFromRaw(blob.body)
      [] blob.kind = "StreamMessage" -> StreamMessageFromRaw(blob.body)
      [] blob.kind = "ProposedValue" -> ProposedValueFromRaw(blob.body)
      [] blob.kind = "Status" -> StatusFromRaw(blob.body)
      [] blob.kind = "ValueRequest" -> RequestFromRaw(blob.body)
      [] blob.kind = "ValueResponse" -> ResponseFromRaw(blob.body)
      [] OTHER -> LivenessMsgFromRaw(blob.kind, blob.body))

----------------------------------------------------------------------------
\* What Malachite makes of the votes it has: each certificate holds at most
\* one signature of every validator.

OneEach(S) == \A v, w \in S : v.address = w.address => v = w

Certificate(S, fields) ==
  [i \in 1..Cardinality(S) |->
     LET v == SetToSeq(S)[i]
         all == [vote_type |-> v.vote_type, value_id |-> v.value_id,
                 address |-> v.address, signature |-> sign_vote(v).signature]
     IN  Restrict(all, fields)]

\* The votes of one height and round that a certificate can be made of.
VoteSets ==
  {S \in SUBSET votes : /\ S # {} /\ OneEach(S)
                        /\ \A v, w \in S : v.height = w.height /\ v.round = w.round}

\* Sets of votes of one type for one block.
Agreeing(type) ==
  {S \in VoteSets : \E b \in Values : \A v \in S : v.vote_type = type /\ v.value_id = b}

ForBlock(S, fields) ==
  LET v == CHOOSE v \in S : TRUE
  IN  [height |-> v.height, round |-> v.round, value_id |-> v.value_id,
       signatures |-> Certificate(S, fields)]

RoundCertificate(S, type) ==
  LET v == CHOOSE v \in S : TRUE
  IN  [height |-> v.height, round |-> v.round, cert_type |-> type,
       signatures |-> Certificate(S, {"vote_type", "value_id", "address", "signature"})]

SignedMessages ==
  {Msg(kind, sign_vote(v)) : kind \in {"Vote", "LivenessVote"}, v \in votes}
    \cup {Msg("Proposal", sign_proposal(p)) : p \in proposals}

Certificates ==
  {Msg("PolkaCertificate", ForBlock(S, {"address", "signature"})) : S \in Agreeing("Prevote")}
    \cup {Msg("SkipRoundCertificate", RoundCertificate(S, "Skip")) : S \in VoteSets}
    \cup {Msg("SkipRoundCertificate", RoundCertificate(S, "Precommit")) :
            S \in {T \in VoteSets : \A v \in T : v.vote_type = "Precommit"}}

\* The loop answers GetDecidedValue with nothing; the codec also carries a
\* decided value.
Responses ==
  {Msg("ValueResponse", [height |-> h, value |-> <<>>]) : h \in Heights}
    \cup {LET c == ForBlock(S, {"address", "signature"})
          IN  Msg("ValueResponse", [height |-> c.height,
                value |-> <<[value_bytes |-> c.value_id, certificate |-> c]>>]) :
            S \in Agreeing("Precommit")}

\* A proposed block goes out as a stream of two messages and into the log.
\* The content of a stream message is a part, or nothing for Fin.
Proposed ==
  UNION {{Msg("StreamMessage", [stream_id |-> p.height, sequence |-> 0, content |-> <<PartOf(p)>>]),
          Msg("StreamMessage", [stream_id |-> p.height, sequence |-> 1, content |-> <<>>])}
         \cup {Msg("ProposedValue",
                 [height |-> p.height, round |-> p.round, valid_round |-> p.pol_round,
                  proposer |-> p.address, value |-> p.value, validity |-> ok]) :
                 ok \in {"Valid", "Invalid"}} : p \in proposals}

Statuses ==
  {Msg("Status", [peer_id |-> v, tip_height |-> h, history_min_height |-> 0]) :
     v \in Validators, h \in Heights}
    \cup {Msg("ValueRequest", [height |-> h]) : h \in Heights}

Messages == SignedMessages \cup Certificates \cup Responses \cup Proposed \cup Statuses

----------------------------------------------------------------------------
WireInit ==
  /\ votes = {} /\ proposals = {}
  /\ sent = {} /\ wire = {} /\ received = {}

MayStillSign == Cardinality(votes) + Cardinality(proposals) < MaxSigned

SignVote(v) ==
  /\ MayStillSign /\ v \notin votes
  /\ votes' = votes \cup {v}
  /\ UNCHANGED <<proposals, sent, wire, received>>

SignProposal(p) ==
  /\ MayStillSign /\ p \notin proposals
  /\ proposals' = proposals \cup {p}
  /\ UNCHANGED <<votes, sent, wire, received>>

Send(m) ==
  /\ Cardinality(sent) < MaxSent /\ m \notin sent
  /\ sent' = sent \cup {m}
  /\ wire' = wire \cup {Encode(m)}
  /\ UNCHANGED <<votes, proposals, received>>

\* Bytes that are nothing this codec wrote: not JSON of the type, or a status
\* whose peer id cannot be read.
Noise(h) ==
  /\ wire = {} /\ sent = {}
  /\ \/ wire' = {Msg("Garbled", <<>>)}
     \/ wire' = {Msg("Status", [peer_id |-> <<>>, tip_height |-> h, history_min_height |-> h])}
  /\ UNCHANGED <<votes, proposals, sent, received>>

Receive(blob) ==
  /\ Decodable(blob)
  /\ wire' = wire \ {blob}
  /\ received' = received \cup {Decode(blob)}
  /\ UNCHANGED <<votes, proposals, sent>>

\* CodecError: nothing reaches the engine.
Refuse(blob) ==
  /\ ~ Decodable(blob)
  /\ wire' = wire \ {blob}
  /\ UNCHANGED <<votes, proposals, sent, received>>

WireNext ==
  \/ \E v \in OpenHlVote : SignVote(v)
  \/ \E p \in OpenHlProposal : SignProposal(p)
  \/ \E m \in Messages : Send(m)
  \/ \E h \in Heights : Noise(h)
  \/ \E blob \in wire : Receive(blob) \/ Refuse(blob)

WireSpec == WireInit /\ [][WireNext]_wireVars

----------------------------------------------------------------------------
\* Properties

WireTypeOK ==
  /\ votes \subseteq OpenHlVote /\ proposals \subseteq OpenHlProposal
  /\ Cardinality(wire) <= MaxSent + 1 /\ Cardinality(received) <= MaxSent

\* Every signature that was made.
Signatures ==
  {sign_vote(v).signature : v \in votes} \cup {sign_proposal(p).signature : p \in proposals}

\* A signature verifies for the vote or proposal it was made for and for no
\* other, of either kind, although the bytes that are signed are a plain
\* concatenation without lengths or a mark of their kind
\* (vote_signing_bytes, proposal_signing_bytes).
SignaturesBindMessages ==
  /\ WireTypeOK
  /\ \A s \in Signatures :
       /\ \A v \in OpenHlVote : verify_signed_vote(v, s) <=> v \in votes /\ s = sign_vote(v).signature
       /\ \A p \in OpenHlProposal :
            verify_signed_proposal(p, s) <=> p \in proposals /\ s = sign_proposal(p).signature

\* The votes that a receiver takes the signatures of a message to be for.
VoteOf(c, s) ==
  [height |-> c.height, round |-> c.round, value_id |-> s.value_id,
   vote_type |-> s.vote_type, address |-> s.address]

VoteForBlock(c, s, type) ==
  [height |-> c.height, round |-> c.round, value_id |-> c.value_id,
   vote_type |-> type, address |-> s.address]

Verifies(m) ==
  CASE m.kind \in {"Vote", "LivenessVote"} -> verify_signed_vote(m.body.message, m.body.signature)
    [] m.kind = "Proposal" -> verify_signed_proposal(m.body.message, m.body.signature)
    [] m.kind = "PolkaCertificate" ->
         \A i \in DOMAIN m.body.signatures :
           LET s == m.body.signatures[i]
           IN  verify_signed_vote(VoteForBlock(m.body, s, "Prevote"), s.signature)
    [] m.kind = "SkipRoundCertificate" ->
         \A i \in DOMAIN m.body.signatures :
           LET s == m.body.signatures[i]
           IN  /\ {"vote_type", "value_id", "address"} \subseteq DOMAIN s
               /\ verify_signed_vote(VoteOf(m.body, s), s.signature)
    [] m.kind = "ValueResponse" ->
         \A j \in DOMAIN m.body.value :
           LET c == m.body.value[j].certificate
           IN  \A i \in DOMAIN c.signatures :
                 verify_signed_vote(VoteForBlock(c, c.signatures[i], "Precommit"),
                                    c.signatures[i].signature)
    [] OTHER -> TRUE

\* What a receiver decodes is what was sent, and it can check all of it: a
\* certificate carries enough to rebuild every vote its signatures were made
\* for (the Raw structs of codec.rs).
ArrivesVerifiable == \A m \in received : m \in sent /\ Verifies(m)

=============================================================================

-------------------------------- MODULE Signer --------------------------------
(***************************************************************************)
(* The canonical hashing and signing of DKG messages and CRS signatures,  *)
(* core/utils/signer.go and core/utils/crypto.go.                          *)
(*                                                                         *)
(* Every hash is Keccak256 over the concatenation of the message's fields *)
(* in the code's order: 32-byte identities and hashes, uint64s written     *)
(* little endian on 8 bytes.  Keccak256 is idealised as an injective       *)
(* function of its input bytes; an ECDSA signature binds a key to a hash,  *)
(* and SigToPub on any other hash recovers a key nobody holds.  A BLS      *)
(* signature binds a node's key share to a round and a hash.               *)
(*                                                                         *)
(* Honest nodes sign what the DKG protocol and the proposer ask them to,   *)
(* each message broadcast.  Byzantine nodes sign anything with their own   *)
(* key and re-use every signature they have seen.  The verifiers are the   *)
(* code's.  The question is which accepted messages an honest node never  *)
(* signed.                                                                 *)
(***************************************************************************)
EXTENDS Integers, Sequences, FiniteSets

CONSTANTS
    Honest,         \* nodes following the protocol
    Byzantine,      \* nodes signing anything with their own keys
    Rounds,         \* rounds of DKG messages and of block positions
    Resets,         \* DKG reset counts
    CRSs,           \* CRS values blocks are signed over
    DKGDelayRound,  \* dkgDelayRound
    BLSReady,       \* nodes whose Signer has a blsSign (SetBLSSigner called)
    Heights,        \* block heights
    NPKs,           \* round -> the nodes with a public key share, or NilNPKs
    NilNPKs,        \* a nil *typesDKG.NodePublicKeys
    BlockHashes,    \* hashes a vote can be for, and parent hashes
    Periods,        \* vote periods
    VoteTypes,      \* vote types (their byte values abstracted)
    PartialSigs,    \* the BLS partial signatures a vote carries
    Payloads,       \* block payloads
    Timestamps,     \* block timestamps
    Witnesses,      \* block witnesses: [height, data]
    MaxSigned       \* bound on the messages honest nodes sign in a behaviour

Nodes == Honest \cup Byzantine

ASSUME
    /\ Honest \cap Byzantine = {} /\ Honest # {} /\ Byzantine # {}
    /\ Rounds \subseteq Nat /\ Resets \subseteq Nat /\ DKGDelayRound \in Nat
    /\ BLSReady \subseteq Nodes

\* The DKG messages whose signature is a plain ECDSA signature of a hash of
\* (proposer, round, reset).
Trio == {"MPKReady", "Finalize", "Success"}
DKGTypes == Trio \cup {"PrivateShare", "Complaint"}

None == "none"
NoSig == [kind |-> "none"]

-----------------------------------------------------------------------------
(* Encoding and primitives.                                                *)

\* The hashed input is a sequence of words, each standing for the bytes it
\* holds.  The code concatenates raw bytes, so two inputs are equal when
\* their bytes are, whatever fields they came from; the words model this
\* only where field boundaries line up.  An input whose fields realign
\* with another's is equal in bytes but not in words.  In the inputs the
\* properties compare, every such realignment puts a Keccak output
\* (a position hash, a payload or witness hash) against bytes a forger
\* would have to choose to match it, a preimage the idealised Keccak rules
\* out.  The master public key and partial signature hashes are not of
\* this kind and are not checked here.  The first component of a word
\* says which of the three shapes it has, so that TLC compares its
\* contents only with like contents.

\* A 32-byte value (a NodeID's hash, a CRS, a Keccak output, a private
\* share's bytes) as four 8-byte words.
Bytes32(x) == [i \in 1..4 |-> <<"b32", <<x, i>>>>]

\* binary.LittleEndian.PutUint64 into an 8-byte slice: one 8-byte word.
LE64(n) == <<<<"u64", n>>>>

\* A variable-length byte slice (key bytes, a payload, a signature, a
\* marshalled time) as one word: two slices are equal when their contents
\* are, whichever field they fill.
Bytes(x) == <<<<"var", x>>>>

\* crypto.Keccak256Hash of the concatenated byte slices.
Keccak256Hash(bytes) == [keccak |-> bytes]

\* prvKey.Sign(hash): an ECDSA signature of the hash by the node's key.
Sign(p, hash) == [kind |-> "ecdsa", by |-> p, of |-> hash]

\* crypto.SigToPub(hash, sig) compared with the claimed proposer: the
\* recovered key is the signer's only when the signature is of this hash.
SigFrom(hash, sig, p) == sig.kind = "ecdsa" /\ sig.of = hash /\ sig.by = p

\* blsSign(round, hash) of a node's Signer: its DKG key share signs.
BLSSign(p, round, hash) == [kind |-> "bls", by |-> p, round |-> round, of |-> hash]

\* A message on the wire; the fields a type does not have are None.
Msg(type, proposer, receiver, round, reset, share, sig) ==
    [type |-> type, proposer |-> proposer, receiver |-> receiver,
     round |-> round, reset |-> reset, share |-> share, sig |-> sig]

\* A block as the CRS signature sees it: its proposer and position.
Block(proposer, round, height) ==
    [proposer |-> proposer, round |-> round, height |-> height]

CRSMsg(block, crs, sig) == [block |-> block, crs |-> crs, sig |-> sig]

-----------------------------------------------------------------------------
(* crypto.go: the canonical hashes.                                        *)

HashPosition(b) == Keccak256Hash(LE64(b.round) \o LE64(b.height))

hashDKGPrivateShare(ps) ==
    Keccak256Hash(Bytes32(ps.proposer) \o Bytes32(ps.receiver)
                  \o LE64(ps.round) \o LE64(ps.reset) \o Bytes32(ps.share))

hashDKGComplaint(c) ==
    Keccak256Hash(Bytes32(c.proposer) \o LE64(c.round) \o LE64(c.reset)
                  \o Bytes32(hashDKGPrivateShare(c.share)))

\* A master public key or a partial signature message; the field a type
\* does not have is None.
KeyMsg(type, proposer, round, reset, hash, data, sig) ==
    [type |-> type, proposer |-> proposer, round |-> round, reset |-> reset,
     hash |-> hash, data |-> data, sig |-> sig]

\* hashDKGMasterPublicKey: ProposerID, the DKG ID (derived from the
\* proposer), the master key bytes, LE64(Round), LE64(Reset).
hashDKGMasterPublicKey(m) ==
    Keccak256Hash(Bytes32(m.proposer) \o Bytes(m.proposer) \o Bytes(m.data)
                  \o LE64(m.round) \o LE64(m.reset))

\* hashDKGPartialSignature: ProposerID, LE64(Round), the signed hash and
\* the partial signature's bytes.
hashDKGPartialSignature(m) ==
    Keccak256Hash(Bytes32(m.proposer) \o LE64(m.round) \o Bytes32(m.hash)
                  \o Bytes(m.data))

hashDKGMPKReady(m) ==
    Keccak256Hash(Bytes32(m.proposer) \o LE64(m.round) \o LE64(m.reset))

hashDKGFinalize(m) ==
    Keccak256Hash(Bytes32(m.proposer) \o LE64(m.round) \o LE64(m.reset))

hashDKGSuccess(m) ==
    Keccak256Hash(Bytes32(m.proposer) \o LE64(m.round) \o LE64(m.reset))

\* time.Time.UTC().MarshalBinary(): for a UTC time, 15 bytes that are a
\* function of the instant alone and never fail.  One word.
TimeBinary(t) == Bytes(t)

\* hashWitness: Keccak256 of LE64(height) and the witness data.
hashWitness(w) == Keccak256Hash(LE64(w.height) \o Bytes(w.data))

\* crypto.Keccak256Hash(b.Payload).
PayloadHashOf(payload) == Keccak256Hash(Bytes(payload))

\* HashBlock: ProposerID, ParentHash, HashPosition, the timestamp, the
\* PayloadHash and the witness hash, in this order.  Its two error returns
\* (MarshalBinary, hashWitness) cannot happen for a UTC time.
HashBlock(b) ==
    Keccak256Hash(Bytes32(b.proposer) \o Bytes32(b.parent)
                  \o Bytes32(HashPosition(b)) \o TimeBinary(b.timestamp)
                  \o Bytes32(b.payloadHash) \o Bytes32(hashWitness(b.witness)))

\* Mutant of HashVote: the vote type byte is left out.
HashVoteNoType(v) ==
    Keccak256Hash(Bytes32(v.proposer) \o Bytes32(v.blockHash) \o LE64(v.period)
                  \o Bytes32(HashPosition(v)) \o Bytes(v.psig))

\* HashVote: ProposerID, BlockHash, LE64(Period), HashPosition, the partial
\* signature's bytes and the type byte.
HashVote(v) ==
    Keccak256Hash(Bytes32(v.proposer) \o Bytes32(v.blockHash) \o LE64(v.period)
                  \o Bytes32(HashPosition(v)) \o Bytes(v.psig) \o Bytes(v.vtype))

\* hashCRS: before dkgDelayRound the proposer is part of the digest.
hashCRS(b, crs) ==
    IF b.round < DKGDelayRound
      THEN Keccak256Hash(Bytes32(crs) \o Bytes32(HashPosition(b)) \o Bytes32(b.proposer))
      ELSE Keccak256Hash(Bytes32(crs) \o Bytes32(HashPosition(b)))

\* The hash a DKG message's signature covers, by its type.
DKGHash(m) ==
    CASE m.type = "MPKReady"     -> hashDKGMPKReady(m)
      [] m.type = "Finalize"     -> hashDKGFinalize(m)
      [] m.type = "Success"      -> hashDKGSuccess(m)
      [] m.type = "PrivateShare" -> hashDKGPrivateShare(m)
      [] m.type = "Complaint"    -> hashDKGComplaint(m)

-----------------------------------------------------------------------------
(* crypto.go: the verifiers.                                               *)

VerifyDKGPrivateShareSignature(ps) ==
    SigFrom(hashDKGPrivateShare(ps), ps.sig, ps.proposer)

VerifyDKGMPKReadySignature(m) == SigFrom(hashDKGMPKReady(m), m.sig, m.proposer)

VerifyDKGFinalizeSignature(m) == SigFrom(hashDKGFinalize(m), m.sig, m.proposer)

VerifyDKGSuccessSignature(m) == SigFrom(hashDKGSuccess(m), m.sig, m.proposer)

\* VerifyBlockSignatureWithoutPayload: the block's hash must be HashBlock
\* of its fields, and its signature must recover its ProposerID.
VerifyBlockSignatureWithoutPayload(b) ==
    /\ HashBlock(b) = b.hash
    /\ SigFrom(b.hash, b.sig, b.proposer)

\* VerifyBlockSignature: first the PayloadHash against the payload.
VerifyBlockSignature(b) ==
    /\ PayloadHashOf(b.payload) = b.payloadHash
    /\ VerifyBlockSignatureWithoutPayload(b)

\* VerifyVoteSignature: SigToPub of HashVote must give the vote's proposer.
VerifyVoteSignature(v) == SigFrom(HashVote(v), v.sig, v.proposer)

\* Complaint.IsNack: the complaint carries no signed private share.
IsNack(c) == c.share.sig = NoSig

\* Mutant of VerifyDKGComplaintSignature: no check that the embedded share
\* is of the complaint's round and reset.
VerifyDKGComplaintSignatureNoRoundCheck(c) ==
    /\ SigFrom(hashDKGComplaint(c), c.sig, c.proposer)
    /\ IsNack(c) \/ VerifyDKGPrivateShareSignature(c.share)

\* The share must be of the complaint's round and reset; the complaint's
\* signature must be its proposer's; a complaint that is not a nack must
\* carry a private share signed by the share's proposer.
VerifyDKGComplaintSignature(c) ==
    /\ c.round = c.share.round
    /\ c.reset = c.share.reset
    /\ SigFrom(hashDKGComplaint(c), c.sig, c.proposer)
    /\ IsNack(c) \/ VerifyDKGPrivateShareSignature(c.share)

\* The verifier a receiver applies to a DKG message of each type.
VerifyDKG(m) ==
    CASE m.type = "MPKReady"     -> VerifyDKGMPKReadySignature(m)
      [] m.type = "Finalize"     -> VerifyDKGFinalizeSignature(m)
      [] m.type = "Success"      -> VerifyDKGSuccessSignature(m)
      [] m.type = "PrivateShare" -> VerifyDKGPrivateShareSignature(m)
      [] m.type = "Complaint"    -> VerifyDKGComplaintSignature(m)

\* The pseudo-signature of rounds before dkgDelayRound: the digest itself.
Digest(hash) == [kind |-> "digest", of |-> hash]

\* Mutant of VerifyCRSSignature: the digest comparison for every round.
VerifyCRSSignatureNoGate(m, npks) ==
    m.sig = Digest(hashCRS(m.block, m.crs))

\* VerifyCRSSignature(block, crs, npks): before dkgDelayRound compare the
\* stored bytes with the digest; after it, the proposer's public key share
\* of the round must verify a BLS signature of the digest.
VerifyCRSSignature(m, npks) ==
    LET hash == hashCRS(m.block, m.crs)
    IN  IF m.block.round < DKGDelayRound
          THEN m.sig = Digest(hash)
          ELSE /\ npks # NilNPKs
               /\ m.block.proposer \in npks
               /\ m.sig = BLSSign(m.block.proposer, m.block.round, hash)

-----------------------------------------------------------------------------
(* State.                                                                  *)

VARIABLES
    issued,     \* DKG messages honest nodes signed and broadcast
    keyIssued,  \* master public keys and partial signatures honest nodes sent
    crsIssued,  \* blocks' CRS signatures honest nodes produced
    forgedDKG,  \* the DKG message a Byzantine node last sent ({} or one)
    forgedCRS,  \* the CRS signature a Byzantine node last sent ({} or one)
    votesIssued,   \* votes honest nodes signed and broadcast
    blocksIssued   \* blocks honest nodes signed and proposed

blockVars == <<keyIssued, votesIssued, blocksIssued>>
vars == <<issued, crsIssued, forgedDKG, forgedCRS, blockVars>>

Blocks == {Block(p, r, h) : p \in Nodes, r \in Rounds, h \in Heights}

\* The private share a node deals to a receiver (its bytes abstracted).
ShareOf(p, q, r, s) == <<"share", p, q, r, s>>

Init ==
    /\ issued = {}
    /\ crsIssued = {}
    /\ forgedDKG = {}
    /\ forgedCRS = {}
    /\ keyIssued = {}
    /\ votesIssued = {}
    /\ blocksIssued = {}

\* Model bound on the honest signatures.
BelowSignBound ==
    Cardinality(issued) + Cardinality(crsIssued)
        + Cardinality(keyIssued) + Cardinality(votesIssued)
        + Cardinality(blocksIssued) < MaxSigned

\* Sign*: the message's ProposerID is set to the signer's identity, then
\* prvKey.Sign signs the message's canonical hash.
SignedBy(p, u, hash) == [u EXCEPT !.proposer = p, !.sig = Sign(p, hash)]

\* A message is broadcast once signed.
Broadcast(m) ==
    /\ BelowSignBound
    /\ issued' = issued \cup {m}
    /\ UNCHANGED <<crsIssued, forgedDKG, forgedCRS, blockVars>>

-----------------------------------------------------------------------------
(* Honest signers (signer.go).                                             *)

\* SignDKGPrivateShare: the share p deals to q for (round, reset).
SignDKGPrivateShare(p, q, r, s) ==
    LET u == Msg("PrivateShare", p, q, r, s, ShareOf(p, q, r, s), NoSig)
    IN  Broadcast(SignedBy(p, u, hashDKGPrivateShare(u)))

SignDKGMPKReady(p, r, s) ==
    LET u == Msg("MPKReady", p, None, r, s, None, NoSig)
    IN  Broadcast(SignedBy(p, u, hashDKGMPKReady(u)))

SignDKGFinalize(p, r, s) ==
    LET u == Msg("Finalize", p, None, r, s, None, NoSig)
    IN  Broadcast(SignedBy(p, u, hashDKGFinalize(u)))

SignDKGSuccess(p, r, s) ==
    LET u == Msg("Success", p, None, r, s, None, NoSig)
    IN  Broadcast(SignedBy(p, u, hashDKGSuccess(u)))

\* The share of a nack: q dealt p nothing for (round, reset).
NackShare(q, p, r, s) == Msg("PrivateShare", q, p, r, s, None, NoSig)

\* Mutant of SignDKGComplaint: the signature is never assigned.
SignDKGComplaintUnsigned(p, q, r, s) ==
    Broadcast(Msg("Complaint", p, None, r, s, NackShare(q, p, r, s), NoSig))

\* SignDKGComplaint: an honest node complains that q dealt it no share.
SignDKGComplaint(p, q, r, s) ==
    LET u == Msg("Complaint", p, None, r, s, NackShare(q, p, r, s), NoSig)
    IN  Broadcast(SignedBy(p, u, hashDKGComplaint(u)))

\* SignCRS(b, crs): a block of another proposer fails ErrInvalidProposerID;
\* before dkgDelayRound the digest is stored as the signature; after it a
\* Signer without blsSign fails ErrNoBLSSigner, otherwise blsSign signs.
SignCRS(p, b, crs) ==
    LET hash == hashCRS(b, crs)
        sign(sig) == /\ BelowSignBound
                     /\ crsIssued' = crsIssued \cup {CRSMsg(b, crs, sig)}
                     /\ UNCHANGED <<issued, forgedDKG, forgedCRS, blockVars>>
    IN  \/ /\ b.proposer # p
           /\ UNCHANGED vars
        \/ /\ b.proposer = p /\ b.round < DKGDelayRound
           /\ sign(Digest(hash))
        \/ /\ b.proposer = p /\ b.round >= DKGDelayRound /\ p \notin BLSReady
           /\ UNCHANGED vars
        \/ /\ b.proposer = p /\ b.round >= DKGDelayRound /\ p \in BLSReady
           /\ sign(BLSSign(p, b.round, hash))

\* The master key bytes of p's public key shares for a round and reset, and
\* p's partial signature of a hash in a round.
MasterKeyOf(p, r, s) == <<"mpk", p, r, s>>
PartialSigOf(p, r, h) == <<"psig", p, r, h>>

\* SignDKGMasterPublicKey: p's master public key of (round, reset), with
\* ProposerID set and the signature of hashDKGMasterPublicKey.  The signed
\* message is broadcast, so its signature is one a forger has seen.
SignDKGMasterPublicKey(p, r, s) ==
    LET u == KeyMsg("MPK", p, r, s, None, MasterKeyOf(p, r, s), NoSig)
    IN  /\ BelowSignBound
        /\ keyIssued' = keyIssued \cup {SignedBy(p, u, hashDKGMasterPublicKey(u))}
        /\ UNCHANGED <<issued, crsIssued, forgedDKG, forgedCRS, votesIssued,
                       blocksIssued>>

\* SignDKGPartialSignature: p's partial signature of hash h in round r.
SignDKGPartialSignature(p, r, h) ==
    LET u == KeyMsg("PSig", p, r, None, h, PartialSigOf(p, r, h), NoSig)
    IN  /\ BelowSignBound
        /\ keyIssued' = keyIssued \cup {SignedBy(p, u, hashDKGPartialSignature(u))}
        /\ UNCHANGED <<issued, crsIssued, forgedDKG, forgedCRS, votesIssued,
                       blocksIssued>>

\* A vote or block as its producer fills it in before signing, with the
\* proposer given: the fields signing sets are still empty.
VoteShapes(ps) ==
    [proposer : ps, blockHash : BlockHashes, period : Periods, round : Rounds,
     height : Heights, psig : PartialSigs, vtype : VoteTypes, sig : {NoSig}]
BlockShapes(ps) ==
    [proposer : ps, parent : BlockHashes, round : Rounds, height : Heights,
     timestamp : Timestamps, payload : Payloads, payloadHash : {None},
     witness : Witnesses, hash : {None}, sig : {NoSig}]

\* SignVote: ProposerID is set, then the signature of HashVote.
SignVote(p, u) ==
    LET v == [u EXCEPT !.proposer = p]
    IN  /\ BelowSignBound
        /\ votesIssued' = votesIssued \cup {[v EXCEPT !.sig = Sign(p, HashVote(v))]}
        /\ UNCHANGED <<issued, keyIssued, crsIssued, forgedDKG, forgedCRS,
                       blocksIssued>>

\* SignBlock: ProposerID and PayloadHash are set, then Hash = HashBlock and
\* the signature of the hash.
SignBlock(p, u) ==
    LET b == [u EXCEPT !.proposer = p, !.payloadHash = PayloadHashOf(u.payload)]
        h == HashBlock(b)
    IN  /\ BelowSignBound
        /\ blocksIssued' = blocksIssued \cup {[b EXCEPT !.hash = h, !.sig = Sign(p, h)]}
        /\ UNCHANGED <<issued, keyIssued, crsIssued, forgedDKG, forgedCRS,
                       votesIssued>>

-----------------------------------------------------------------------------
(* Byzantine nodes.  A DKG or CRS forgery is a step that sends it (the    *)
(* variable of the other kind is emptied).  The votes and blocks a        *)
(* Byzantine node can build from what is on the wire are the sets          *)
(* ForgeableVotes and ForgeableBlocks of each state.                       *)

Sends(dkg, crs) ==
    /\ forgedDKG' = dkg /\ forgedCRS' = crs
    /\ UNCHANGED <<issued, crsIssued, blockVars>>

\* Re-send an honest node's MPKReady, Finalize or Success, with its
\* signature, as a message of another of the three types.
ReplayAs(m, t) ==
    /\ m \in issued /\ m.type \in Trio /\ t \in Trio \ {m.type}
    /\ Sends({[m EXCEPT !.type = t]}, {})

\* The private shares b can put in a complaint: those dealt to it, and
\* shares it makes up in an honest node's name and signs itself.
KnownShares(b) ==
    {m \in issued : m.type = "PrivateShare" /\ m.receiver = b}
    \cup {LET u == Msg("PrivateShare", p, b, r, s, <<"made up", b>>, NoSig)
          IN  [u EXCEPT !.sig = Sign(b, hashDKGPrivateShare(u))] :
              p \in Honest, r \in Rounds, s \in Resets}

\* b signs a complaint of its own carrying any share it knows.
ByzComplaint(b, share, r, s) ==
    /\ share \in KnownShares(b)
    /\ LET u == Msg("Complaint", b, None, r, s, share, NoSig)
       IN  Sends({SignedBy(b, u, hashDKGComplaint(u))}, {})

\* A CRS signature for any block: the digest anyone can compute, or a
\* signature seen on another block.
ForgeCRS(b, crs) ==
    /\ \E sig \in {Digest(hashCRS(b, crs))} \cup {m.sig : m \in crsIssued} :
          Sends({}, {CRSMsg(b, crs, sig)})

\* Every signature a Byzantine node has seen on the wire.
SeenSigs ==
    {m.sig : m \in issued \cup keyIssued \cup crsIssued \cup votesIssued
                \cup blocksIssued}

\* A vote with any fields, in anyone's name, carrying a signature seen on
\* the wire or one a Byzantine node makes over the vote's hash.
ForgeableVotes ==
    UNION {{[u EXCEPT !.sig = sig] :
              sig \in SeenSigs \cup {Sign(b, HashVote(u)) : b \in Byzantine}} :
           u \in VoteShapes(Nodes)}

\* The block hashes a Byzantine node can put in a block of given fields:
\* HashBlock of them, or any hash seen on a block.
ForgeableHashes(u) == {HashBlock(u)} \cup {m.hash : m \in blocksIssued}

\* A block with any fields, in anyone's name, with the payload hash of any
\* payload, a hash and a signature it can compute or has seen.
ForgeableBlocks ==
    LET fields == {[u EXCEPT !.payloadHash = PayloadHashOf(pl)] :
                      u \in BlockShapes(Nodes), pl \in Payloads}
        signed(w, h) == {[w EXCEPT !.hash = h, !.sig = sig] :
                            sig \in SeenSigs \cup {Sign(b, h) : b \in Byzantine}}
    IN  UNION {UNION {signed(w, h) : h \in ForgeableHashes(w)} : w \in fields}

-----------------------------------------------------------------------------

Next ==
    \/ \E p \in Honest, r \in Rounds, s \in Resets :
          \/ SignDKGMPKReady(p, r, s) \/ SignDKGFinalize(p, r, s)
          \/ SignDKGSuccess(p, r, s)
          \/ \E q \in Nodes : SignDKGPrivateShare(p, q, r, s)
          \/ \E q \in Byzantine : SignDKGComplaint(p, q, r, s)
    \/ \E p \in Honest, b \in Blocks, crs \in CRSs : SignCRS(p, b, crs)
    \/ \E m \in issued, t \in Trio : ReplayAs(m, t)
    \/ \E b \in Byzantine, r \in Rounds, s \in Resets :
          \E share \in KnownShares(b) : ByzComplaint(b, share, r, s)
    \/ \E b \in Blocks, crs \in CRSs : ForgeCRS(b, crs)
    \/ \E p \in Honest, r \in Rounds :
          \/ \E s \in Resets : SignDKGMasterPublicKey(p, r, s)
          \/ \E h \in CRSs : SignDKGPartialSignature(p, r, h)
    \/ \E p \in Honest, u \in VoteShapes({None}) : SignVote(p, u)
    \/ \E p \in Honest, u \in BlockShapes({None}) : SignBlock(p, u)

Spec == Init /\ [][Next]_vars

-----------------------------------------------------------------------------
(* Properties.                                                             *)

TypeOK ==
    /\ \A m \in issued :
          /\ m.type \in DKGTypes /\ m.proposer \in Honest
          /\ m.round \in Rounds /\ m.reset \in Resets
          /\ m.sig.kind = "ecdsa"
    /\ \A m \in crsIssued : m.block \in Blocks /\ m.crs \in CRSs
    /\ Cardinality(forgedDKG) <= 1 /\ Cardinality(forgedCRS) <= 1
    /\ \A m \in keyIssued : m.type \in {"MPK", "PSig"} /\ m.proposer \in Honest
    /\ \A v \in votesIssued : v.proposer \in Honest /\ v.sig.kind = "ecdsa"
    /\ \A b \in blocksIssued : b.proposer \in Honest /\ b.sig.kind = "ecdsa"

\* The spec: no two distinct message types share an encoding, so a DKG
\* message that passes its type's verifier and names an honest proposer was
\* signed by that proposer as that very message.
DKGMessagesAuthentic ==
    \A m \in issued \cup forgedDKG :
        m.proposer \in Honest /\ VerifyDKG(m) => m \in issued

\* VerifyDKGComplaintSignature: a complaint that verifies and is not a nack
\* carries, as evidence against an honest node, a private share that node
\* really dealt for the complaint's round and reset, whoever complains.
ComplaintEvidenceAuthentic ==
    \A c \in issued \cup forgedDKG :
        /\ c.type = "Complaint" /\ VerifyDKGComplaintSignature(c) /\ ~IsNack(c)
        /\ c.share.proposer \in Honest
        => /\ c.share \in issued
           /\ c.share.round = c.round /\ c.share.reset = c.reset

\* VerifyCRSSignature from dkgDelayRound on: a block of an honest proposer
\* whose CRS signature verifies carries the signature that proposer's
\* SignCRS produced for that block and CRS; nobody else can make one.
CRSSignatureAuthentic ==
    \A m \in crsIssued \cup forgedCRS :
        /\ m.block.proposer \in Honest /\ m.block.round >= DKGDelayRound
        /\ VerifyCRSSignature(m, NPKs[m.block.round])
        => m \in crsIssued


\* HashVote covers every field of a vote the agreement acts on (proposer,
\* block hash, period, position, partial signature, type): a vote that
\* VerifyVoteSignature accepts in an honest node's name is one that node
\* signed, whatever signatures the Byzantine node re-uses.
VoteSignatureAuthentic ==
    \A v \in votesIssued \cup ForgeableVotes :
        v.proposer \in Honest /\ VerifyVoteSignature(v) => v \in votesIssued

\* VerifyBlockSignature checks the payload against PayloadHash and the
\* hash against HashBlock before the signature: a block it accepts in an
\* honest node's name, payload included, is one that node signed.
BlockSignatureAuthentic ==
    \A b \in blocksIssued \cup ForgeableBlocks :
        b.proposer \in Honest /\ VerifyBlockSignature(b) => b \in blocksIssued

====

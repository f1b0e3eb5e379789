--------------------------- MODULE PipelineProofs ---------------------------
(***************************************************************************)
(* What the pipeline guarantees about the content of a request, proved for *)
(* any requests, addresses and interleaving: an invariant of each request  *)
(* that follows it from the API to the signed transaction, on top of what  *)
(* the adapters build and decode.                                          *)
(***************************************************************************)
EXTENDS Pipeline, TLAPS

Fields == {"pc", "r", "tx", "signable", "result", "since", "by", "out"}
Places == {"idle", "accepted", "error", "sent", "analyzed", "rejected", "auto",
           "escalated", "approved", "signing", "signed"}

InSession == {"signing", "signed"}

\* The text of the recipient Party B's adapter decodes from what Party A's
\* adapter built for request i.
Recipient(r, i) ==
    IF r.vm = "tendermint" THEN r.to[1]
    ELSE Plain(IF r.vm = "evm" THEN HexToAddress(r.to[1])
               ELSE IF MakesKey(r) THEN NewKey(i)
               ELSE IF r.call # "" THEN r.key1
               ELSE IF r.mint THEN AtaOf(r.to[1].of)
               ELSE IF r.to[1].of = Self THEN SystemKey
               ELSE r.to[1].of)

Builds(r, i) == r.vm # "none" /\ BuildUnsignedTx(r, i) # NoTx

\* What the analysis lets through is well formed or was reported, and a
\* mismatch it reports has its reason in the request.
WellFormed(r, mismatch) ==
    r.carried # "noTx" =>
        /\ r.value.kind \notin {"text", "trailing"} /\ r.carried # "otherBytes"
        /\ r.vm = "evm" => r.to[1].of # ZeroAddr /\ (r.to[1].form = "plain" \/ mismatch)
Differs(r) ==
    \/ r.vm = "solana" /\ (r.mint \/ r.call # "" \/ r.to[1].of = Self)
    \/ r.vm = "evm" /\ (r.to[1].form # "plain" \/ r.value.kind = "padded")

Fits(tx) ==
    /\ tx.vm = "solana" => tx.value \in 0..MaxUint64
    /\ tx.vm = "tendermint" => tx.value \in 0..MaxInt64

\* The recipient that was decoded is on the whitelist w.
Listed(r, i, w) == r.carried # "noTx" => ToLower(Recipient(r, i)) \in w

\* Request i with the record x, wherever it is, against w and the blockhash h.
AnalysisInv(x, i, w) ==
    /\ x.result.decision # "reject" => WellFormed(x.r, x.result.mismatch)
    /\ x.result.whitelisted => Listed(x.r, i, w)

SessionInv(x, i, w) ==
    /\ Fits(x.tx)
    /\ x.r.vm = "solana" /\ x.r.rpc => x.tx.blockhash >= x.since
    /\ x.by = "auto" => Listed(x.r, i, w)

ReqInv(x, i, w, h) ==
    /\ x.pc \in Places
    /\ x.pc \in Built \cup {"accepted"} => x.r \in Request
    /\ x.pc \in Built => Builds(x.r, i) /\ x.signable = ExtractSignableBytes(x.tx)
    /\ x.pc \in Built \ InSession => x.tx = BuildUnsignedTx(x.r, i)
    /\ x.result.mismatch => Differs(x.r)
    /\ x.pc = "analyzed" => AnalysisInv(x, i, w)
    /\ x.pc \in Passed => WellFormed(x.r, x.result.mismatch) /\ x.since \in Nat /\ x.since <= h
    /\ x.pc = "auto" => Listed(x.r, i, w)
    /\ x.pc \in InSession => SessionInv(x, i, w)
    /\ x.pc = "signed" => x.out = AssembleSignedTx(x.tx, x.signable)

\* A request that was whitelisted is recognised, and every text on the whitelist
\* is there for an account that was.
Recognised(r, w) ==
    MakesKey(r) \/ \A i \in Id : Whitelisted(r, Decoded(r, BuildUnsignedTx(r, i)), w)
TrustInv ==
    /\ \A e \in trusted : e.r \in Request /\ Recognised(e.r, whitelist)
    /\ \A text \in whitelist : \E a \in Vouched : text.of = Lower(a)

PInv ==
    /\ autoMode \in BOOLEAN /\ hash \in 0..MaxHash
    /\ req = [i \in Id |-> req[i]]
    /\ \A i \in Id : DOMAIN req[i] = Fields /\ ReqInv(req[i], i, whitelist, hash)
    /\ TrustInv

-----------------------------------------------------------------------------
(* What the adapters build and decode.                                     *)

\* The fields the adapters read, of any request.
LEMMA RequestFields ==
  ASSUME NEW r \in Request
  PROVE  /\ r.vm \in {"evm", "tendermint", "solana", "none"}
         /\ r.value \in Value /\ r.value.n \in Int
         /\ r.value.kind = "number" => r.value = Number(r.value.n)
         /\ r.value.kind = "empty" => r.value = Empty
         /\ r.mint \in BOOLEAN /\ r.rpc \in BOOLEAN /\ r.to \in Seq(Text)
         /\ r.to # <<>> => r.to[1] \in Text /\ 1 \in DOMAIN r.to
<1>1. r \in RequestType
  BY RequestAssumption
<1>2. r.value \in Value
  BY <1>1 DEF RequestType
<1>3. /\ r.value.n \in Int
      /\ r.value.kind = "number" => r.value = Number(r.value.n)
      /\ r.value.kind = "empty" => r.value = Empty
  <2>1. CASE r.value \in [kind : {"number", "trailing", "padded"}, n : Int]
    BY <2>1 DEF Number
  <2>2. CASE r.value \in {Empty, [kind |-> "text", n |-> 0]}
    BY <2>2 DEF Empty
  <2> QED
    BY <1>2, <2>1, <2>2 DEF Value
<1>4. /\ r.vm \in {"evm", "tendermint", "solana", "none"} /\ r.mint \in BOOLEAN
      /\ r.rpc \in BOOLEAN /\ r.to \in Seq(Text)
  BY <1>1 DEF RequestType
<1> QED
  BY <1>2, <1>3, <1>4

\* An EVM transaction decodes to its recipient and the amount's number.
LEMMA EvmForm ==
  ASSUME NEW r \in Request, NEW i, r.vm = "evm", Builds(r, i)
  PROVE  LET tx == BuildUnsignedTx(r, i) IN
         /\ DecodeTx(tx) = [to |-> <<Recipient(r, i)>>, value |-> Number(r.value.n)]
         /\ r.value.kind \in {"empty", "number", "padded"}
         /\ tx.vm = "evm" /\ Fits(tx)
<1>1. BuildUnsignedTx(r, i) = BuildEvm(r)
  BY DEF BuildUnsignedTx
<1>2. /\ r.value.kind \in {"empty", "number", "padded"}
      /\ BuildEvm(r) = [vm |-> "evm", to |-> HexToAddress(r.to[1]), value |-> r.value.n,
                        data |-> r.data, blockhash |-> 0]
  BY <1>1 DEF BuildEvm, Builds
<1>3. Recipient(r, i) = Plain(HexToAddress(r.to[1]))
  BY DEF Recipient
<1> QED
  BY <1>1, <1>2, <1>3 DEF DecodeTx, DecodeEvm, Fits

\* A Cosmos transaction carries the first address and the amount's text.
LEMMA TendermintForm ==
  ASSUME NEW r \in Request, NEW i, r.vm = "tendermint", Builds(r, i)
  PROVE  LET tx == BuildUnsignedTx(r, i) IN
         /\ DecodeTx(tx) = [to |-> <<Recipient(r, i)>>, value |-> r.value]
         /\ r.value.kind \in {"number", "padded"}
         /\ tx.vm = "tendermint" /\ Fits(tx)
<1>1. BuildUnsignedTx(r, i) = BuildTendermint(r)
  BY DEF BuildUnsignedTx
<1>2. /\ r.value.kind \in {"number", "padded"} /\ r.value.n >= 0 /\ r.value.n <= MaxInt64
      /\ BuildTendermint(r) =
           [vm |-> "tendermint", to |-> r.to[1], shown |-> r.value, value |-> r.value.n,
            pays |-> IF r.method = "redelegate" THEN <<r.to[1], r.to[2]>> ELSE <<r.to[1]>>,
            blockhash |-> 0]
  BY <1>1, RequestFields, LimitAssumption DEF BuildTendermint, Builds
<1>3. Recipient(r, i) = r.to[1]
  BY DEF Recipient
<1> QED
  BY <1>1, <1>2, <1>3, RequestFields, LimitAssumption DEF DecodeTx, DecodeTendermint, Fits

\* A Solana transaction names its first key after the payer's, and no amount.
LEMMA SolanaForm ==
  ASSUME NEW r \in Request, NEW i, r.vm = "solana", Builds(r, i)
  PROVE  LET tx == BuildUnsignedTx(r, i) IN
         /\ DecodeTx(tx) = [to |-> <<Recipient(r, i)>>, value |-> Empty]
         /\ tx = [vm |-> "solana", keys |-> tx.keys, value |-> tx.value, blockhash |-> 0]
         /\ Fits(tx)
<1>1. BuildUnsignedTx(r, i) = BuildSolana(r, i)
  BY DEF BuildUnsignedTx
<1>2. CASE r.call # ""
  <2> DEFINE key == IF MakesKey(r) THEN NewKey(i) ELSE r.key1
             tx == [vm |-> "solana", keys |-> <<Self, key>>, value |-> 0, blockhash |-> 0]
  <2>1. BuildSolana(r, i) = tx
    BY <1>1, <1>2 DEF BuildSolana, Builds, CallKeys
  <2>2. Recipient(r, i) = Plain(key)
    BY <1>2 DEF Recipient
  <2> HIDE DEF key
  <2>3. DecodeTx(tx) = DecodeSolana(tx)
    BY DEF DecodeTx
  <2>4. DecodeTx(tx) = [to |-> <<Recipient(r, i)>>, value |-> Empty]
    BY <2>2, <2>3 DEF DecodeSolana
  <2> QED
    BY <1>1, <2>1, <2>4, LimitAssumption DEF Fits
<1>3. CASE r.call = ""
  <2> DEFINE keys == TransferKeys(r)
  <2>1. /\ r.value.n >= 0 /\ r.value.n <= MaxUint64
        /\ BuildSolana(r, i) = [vm |-> "solana", keys |-> keys, value |-> r.value.n, blockhash |-> 0]
    <3>0. r.params # "bad"
      BY <1>1, Zenon DEF BuildSolana, Builds
    <3>1. r.value.n \in Int /\ MaxUint64 \in Int
      BY RequestFields, LimitAssumption
    <3>2. ~(\/ r.to = <<>> \/ r.to[1].form # "plain" \/ r.to[1].of = ZeroAddr
            \/ r.value.kind = "text"
            \/ r.value.n < 0 \/ r.value.n > MaxUint64)
      BY <1>1, <1>3, <3>0, Zenon DEF BuildSolana, Builds
    <3>3. r.value.n >= 0 /\ r.value.n <= MaxUint64
      BY <3>1, <3>2
    <3> QED
      BY <1>3, <3>0, <3>2, <3>3 DEF BuildSolana
  <2>2. Len(keys) > 1 /\ Plain(keys[2]) = Recipient(r, i) /\ ~MakesKey(r)
    <3>4. ~MakesKey(r)
      BY <1>3 DEF MakesKey
    <3>1. CASE r.mint
      <4>1. keys = <<Self, AtaOf(r.to[1].of)>>
        BY <3>1 DEF TransferKeys
      <4>2. Recipient(r, i) = Plain(AtaOf(r.to[1].of))
        BY <1>3, <3>1, <3>4 DEF Recipient
      <4> QED
        BY <3>4, <4>1, <4>2
    <3>2. CASE ~r.mint /\ r.to[1].of = Self
      <4>1. keys = <<Self, SystemKey>>
        BY <3>2 DEF TransferKeys
      <4>2. Recipient(r, i) = Plain(SystemKey)
        BY <1>3, <3>2, <3>4 DEF Recipient
      <4> QED
        BY <3>4, <4>1, <4>2
    <3>3. CASE ~r.mint /\ r.to[1].of # Self
      <4>1. keys = <<Self, r.to[1].of, SystemKey>>
        BY <3>3 DEF TransferKeys
      <4>2. Recipient(r, i) = Plain(r.to[1].of)
        BY <1>3, <3>3, <3>4 DEF Recipient
      <4> QED
        BY <3>4, <4>1, <4>2
    <3> QED
      BY <3>1, <3>2, <3>3, <3>4
  <2>3. r.value.n \in 0..MaxUint64
    BY <2>1, RequestFields, LimitAssumption
  <2> HIDE DEF keys
  <2> DEFINE tx == [vm |-> "solana", keys |-> keys, value |-> r.value.n, blockhash |-> 0]
  <2>4. DecodeTx(tx) = [to |-> <<Recipient(r, i)>>, value |-> Empty]
    <3>1. DecodeTx(tx) = DecodeSolana(tx)
      BY DEF DecodeTx
    <3> QED
      BY <2>2, <3>1 DEF DecodeSolana
  <2> QED
    BY <1>1, <2>1, <2>3, <2>4 DEF Fits
<1> QED
  BY <1>2, <1>3

\* Whatever the chain, one recipient is decoded, and it is the one the
\* whitelist is asked about.
LEMMA OneRecipient ==
  ASSUME NEW r \in Request, NEW i, Builds(r, i), r.carried # "noTx", NEW w
  PROVE  LET decoded == Decoded(r, BuildUnsignedTx(r, i)) IN
         /\ decoded = DecodeTx(BuildUnsignedTx(r, i)) /\ decoded.to = <<Recipient(r, i)>>
         /\ EffectiveTo(r, decoded) = <<Recipient(r, i)>>
         /\ Range(EffectiveTo(r, decoded)) = {Recipient(r, i)}
         /\ Whitelisted(r, decoded, w) <=> Listed(r, i, w)
<1> DEFINE decoded == Decoded(r, BuildUnsignedTx(r, i))
<1>1. decoded = DecodeTx(BuildUnsignedTx(r, i))
  BY DEF Decoded
<1>2. decoded.to = <<Recipient(r, i)>>
  BY <1>1, EvmForm, TendermintForm, SolanaForm, RequestFields DEF Builds
<1>3. EffectiveTo(r, decoded) = <<Recipient(r, i)>>
  BY <1>2 DEF EffectiveTo
<1>4. Range(<<Recipient(r, i)>>) = {Recipient(r, i)}
  BY DEF Range
<1> QED
  BY <1>1, <1>2, <1>3, <1>4 DEF Whitelisted, Listed

\* But for a key that is made up, what is built for a request does not depend
\* on when it is made.
LEMMA BuiltAgain ==
  ASSUME NEW r, ~MakesKey(r), NEW i, NEW j
  PROVE  BuildUnsignedTx(r, i) = BuildUnsignedTx(r, j)
<1>1. CallKeys(r, i) = CallKeys(r, j)
  BY DEF CallKeys
<1>2. BuildSolana(r, i) = BuildSolana(r, j)
  BY <1>1 DEF BuildSolana
<1> QED
  BY <1>2 DEF BuildUnsignedTx

-----------------------------------------------------------------------------
(* The analyzer.                                                           *)

\* An EVM recipient is written alike by client and decoder, up to case, if and
\* only if the client wrote a plain address.
LEMMA EvmTexts ==
  ASSUME NEW r \in Request, NEW i, r.vm = "evm", Builds(r, i)
  PROVE  /\ ToLower(Recipient(r, i)) = ToLower(r.to[1]) <=> r.to[1].form = "plain"
         /\ ToLower(Recipient(r, i)) = Plain(r.to[1].of)
<1>1. r.to # <<>>
  BY DEF Builds, BuildUnsignedTx, BuildEvm
<1>2. r.to[1].of \notin Twins
  BY <1>1, RequestFields, RequestAssumption
<1>3. Recipient(r, i) = Plain(r.to[1].of)
  BY DEF Recipient, HexToAddress
<1> QED
  BY <1>2, <1>3 DEF ToLower, Plain, Lower

\* What is not rejected is well formed or reported: the checks look at the
\* recipient and the amount that were decoded.
LEMMA ChecksReject ==
  ASSUME NEW r \in Request, NEW i, Builds(r, i), NEW signable, NEW wl, NEW answer,
         Analyze(r, BuildUnsignedTx(r, i), signable, wl, answer).decision # "reject"
  PROVE  WellFormed(r, Analyze(r, BuildUnsignedTx(r, i), signable, wl, answer).mismatch)
<1> SUFFICES ASSUME r.carried # "noTx"
             PROVE  WellFormed(r, Analyze(r, BuildUnsignedTx(r, i), signable, wl, answer).mismatch)
  BY DEF WellFormed
<1> DEFINE tx == BuildUnsignedTx(r, i)
           decoded == Decoded(r, tx)
           value == EffectiveValue(r, decoded)
           checks == DeterministicChecks(EffectiveTo(r, decoded), value)
           mismatch == Analyze(r, tx, signable, wl, answer).mismatch
<1>1. checks # "reject" /\ SignableBytesOK(r, tx, signable)
  BY DEF Analyze
<1>2. /\ \A t \in Range(EffectiveTo(r, decoded)) : ToLower(t) # Plain(ZeroAddr)
      /\ value.kind \notin {"text", "trailing"}
  BY <1>1 DEF DeterministicChecks
<1>3. ToLower(Recipient(r, i)) # Plain(ZeroAddr)
  BY <1>2, OneRecipient
<1>7. r.carried # "otherBytes"
  <2>1. ExtractSignableBytes(tx) # <<"other">>
    <3>1. tx.vm \in {"evm", "tendermint", "solana"}
      BY EvmForm, TendermintForm, SolanaForm, RequestFields DEF Builds
    <3> HIDE DEF tx
    <3>2. \E y : ExtractSignableBytes(tx) \in {<<"keccak256", y>>, <<"message", y>>}
          \/ \E z : ExtractSignableBytes(tx) = <<"sha256", y, z>>
      BY <3>1 DEF ExtractSignableBytes, SignableEvm, SignableTendermint, SignableSolana
    <3> QED
      BY <3>2
  <2> QED
    BY <1>1, <2>1 DEF SignableBytesOK
<1>8. mismatch = VerifyFields(r, decoded)
  BY DEF Analyze
<1>9. decoded.to = <<Recipient(r, i)>> /\ decoded = DecodeTx(tx)
  BY OneRecipient
<1> HIDE DEF mismatch
<1>4. CASE r.vm = "evm"
  <2>1. r.to[1].of # ZeroAddr
    BY <1>3, <1>4, EvmTexts
  <2>2. r.to # <<>>
    BY <1>4 DEF Builds, BuildUnsignedTx, BuildEvm
  <2>3. r.to[1].form = "plain" \/ mismatch
    BY <1>4, <1>8, <1>9, <2>2, EvmTexts DEF VerifyFields
  <2> QED
    BY <1>4, <1>7, <2>1, <2>3, EvmForm DEF WellFormed, mismatch
<1>5. CASE r.vm = "tendermint"
  BY <1>5, <1>7, TendermintForm DEF WellFormed
<1>6. CASE r.vm = "solana"
  <2>1. decoded.value = Empty
    BY <1>6, <1>9, SolanaForm
  <2>2. value = r.value
    BY <2>1 DEF EffectiveValue
  <2> QED
    BY <1>2, <1>6, <1>7, <2>2 DEF WellFormed
<1> QED
  BY <1>4, <1>5, <1>6, RequestFields DEF Builds

\* A mismatch is reported only where the claim and what was built from it are
\* written differently.
LEMMA MismatchDiffers ==
  ASSUME NEW r \in Request, NEW i, Builds(r, i),
         VerifyFields(r, Decoded(r, BuildUnsignedTx(r, i)))
  PROVE  Differs(r)
<1> DEFINE decoded == Decoded(r, BuildUnsignedTx(r, i))
<1>0. r.carried # "noTx"
  BY DEF VerifyFields, Decoded, Undecoded
<1>1. /\ decoded = DecodeTx(BuildUnsignedTx(r, i))
      /\ \/ r.to # <<>> /\ ToLower(Recipient(r, i)) # ToLower(r.to[1])
         \/ decoded.value # Empty /\ r.value # Empty /\ decoded.value # r.value
  <2>1. decoded.to = <<Recipient(r, i)>> /\ decoded = DecodeTx(BuildUnsignedTx(r, i))
    BY <1>0, OneRecipient
  <2> QED
    BY <2>1 DEF VerifyFields
<1>2. CASE r.vm = "evm"
  <2>1. decoded.value = Number(r.value.n)
    BY <1>1, <1>2, EvmForm
  <2>2. CASE ToLower(Recipient(r, i)) # ToLower(r.to[1])
    BY <1>2, <2>2, EvmTexts DEF Differs
  <2>3. CASE r.value # Empty /\ decoded.value # r.value
    <3>1. r.value.kind # "number"
      BY <2>1, <2>3, RequestFields
    <3>2. r.value.kind # "empty"
      BY <2>3, RequestFields
    <3> QED
      BY <1>2, <3>1, <3>2, EvmForm DEF Differs
  <2> QED
    BY <1>1, <2>2, <2>3
<1>3. CASE r.vm = "tendermint"
  <2>1. decoded.value = r.value
    BY <1>1, <1>3, TendermintForm
  <2>2. Recipient(r, i) = r.to[1]
    BY <1>3 DEF Recipient
  <2> QED
    BY <1>1, <2>1, <2>2
<1>4. CASE r.vm = "solana"
  <2>1. decoded.value = Empty
    BY <1>1, <1>4, SolanaForm
  <2>2. CASE r.call = "" /\ ~r.mint /\ r.to[1].of # Self
    <3>1. r.to[1].form = "plain" /\ ~MakesKey(r)
      <4>1. BuildSolana(r, i) # NoTx
        BY <1>4 DEF Builds, BuildUnsignedTx
      <4> QED
        BY <2>2, <4>1, Zenon DEF BuildSolana, MakesKey
    <3>2. Recipient(r, i) = Plain(r.to[1].of)
      BY <1>4, <2>2, <3>1 DEF Recipient
    <3>3. ToLower(Recipient(r, i)) = ToLower(r.to[1])
      BY <3>1, <3>2 DEF ToLower, Plain
    <3> QED
      BY <1>1, <2>1, <3>3
  <2> QED
    BY <1>4, <2>2 DEF Differs
<1> QED
  BY <1>2, <1>3, <1>4, RequestFields DEF Builds

-----------------------------------------------------------------------------
(* The steps.                                                              *)

\* The whitelist and the chain only grow, so a request that does not move
\* keeps its invariant.
LEMMA Waiting ==
  ASSUME NEW x, NEW i, NEW w, NEW v, NEW h \in Nat, NEW k \in Nat,
         ReqInv(x, i, w, h), w \subseteq v, h <= k
  PROVE  ReqInv(x, i, v, k)
<1>1. x.pc \in Passed => x.since \in Nat /\ x.since <= k
  BY DEF ReqInv
<1>2. x.pc = "analyzed" => AnalysisInv(x, i, v)
  BY DEF ReqInv, AnalysisInv, Listed
<1>3. x.pc \in InSession => SessionInv(x, i, v)
  BY DEF ReqInv, SessionInv, Listed
<1>4. x.pc = "auto" => Listed(x.r, i, v)
  BY DEF ReqInv, Listed
<1> QED
  BY <1>1, <1>2, <1>3, <1>4 DEF ReqInv

\* A step that moves request i to a good record x keeps the whole invariant.
LEMMA Moved ==
  ASSUME PInv, NEW i \in Id, NEW x, Put(i, x), DOMAIN x = Fields,
         ReqInv(x, i, whitelist', hash'),
         whitelist \subseteq whitelist', hash' \in 0..MaxHash, hash <= hash',
         autoMode' \in BOOLEAN,
         TrustInv' \/ UNCHANGED <<whitelist, trusted>>
  PROVE  PInv'
<1>1. /\ req' = [j \in Id |-> req'[j]] /\ req'[i] = x
      /\ \A j \in Id \ {i} : req'[j] = req[j]
  BY DEF PInv, Put
<1>2. hash \in Nat /\ hash' \in Nat
  BY HashAssumption DEF PInv
<1>3. ASSUME NEW j \in Id PROVE DOMAIN req'[j] = Fields /\ ReqInv(req'[j], j, whitelist', hash')
  <2>1. CASE j = i
    BY <1>1, <2>1
  <2>2. CASE j # i
    BY <1>1, <1>2, <2>2, Waiting DEF PInv
  <2> QED
    BY <2>1, <2>2
<1>4. TrustInv'
  BY DEF PInv, TrustInv, Vouched
<1> QED
  BY <1>1, <1>3, <1>4 DEF PInv

\* ... and in particular one that ends it.
LEMMA Ended ==
  ASSUME PInv, NEW i \in Id, NEW how \in {"error", "rejected"}, End(i, how),
         UNCHANGED <<whitelist, autoMode, hash, trusted>>
  PROVE  PInv'
<1> DEFINE x == [Absent EXCEPT !.pc = how]
<1>1. x.pc = how /\ DOMAIN x = Fields /\ ~x.result.mismatch
  BY DEF Absent, Fields, Routed
<1>2. ReqInv(x, i, whitelist', hash')
  BY <1>1 DEF ReqInv, Places, Built, Passed, InSession
<1> HIDE DEF x
<1>3. Put(i, x)
  BY DEF End, x
<1>4. hash' \in 0..MaxHash /\ hash <= hash'
  BY HashAssumption DEF PInv
<1> QED
  BY <1>1, <1>2, <1>3, <1>4, Moved DEF PInv
\* POST /sign.
LEMMA HandleSignKeeps == ASSUME PInv, NEW i \in Id, HandleSign(i) PROVE PInv'
<1>1. PICK r \in Request : IF Refused(r) THEN End(i, "error")
                           ELSE Put(i, [Absent EXCEPT !.pc = "accepted", !.r = r])
  BY DEF HandleSign
<1>2. UNCHANGED <<whitelist, autoMode, hash, trusted>> /\ hash' \in 0..MaxHash /\ hash <= hash'
  BY HashAssumption DEF HandleSign, PInv
<1>3. CASE Refused(r)
  BY <1>1, <1>2, <1>3, Ended
<1>4. CASE ~Refused(r)
  <2> DEFINE x == [Absent EXCEPT !.pc = "accepted", !.r = r]
  <2>1. x.pc = "accepted" /\ x.r = r /\ DOMAIN x = Fields /\ ~x.result.mismatch
    BY DEF Absent, Fields, Routed
  <2>2. Put(i, x)
    BY <1>1, <1>4
  <2> HIDE DEF x
  <2>3. ReqInv(x, i, whitelist', hash')
    BY <2>1 DEF ReqInv, Places, Built, Passed, InSession
  <2> QED
    BY <1>2, <2>1, <2>2, <2>3, Moved DEF PInv
<1> QED
  BY <1>3, <1>4

\* Party A's adapter.
LEMMA BuildTxKeeps == ASSUME PInv, NEW i \in Id, BuildTx(i) PROVE PInv'
<1> DEFINE r == req[i].r
           tx == BuildUnsignedTx(r, i)
           x == [req[i] EXCEPT !.pc = "sent", !.tx = tx, !.signable = ExtractSignableBytes(tx)]
<1>1. PICK fails \in RemoteFails(r) :
        IF r.vm = "none" \/ ~r.derived \/ fails \/ tx = NoTx THEN End(i, "error")
        ELSE Put(i, x)
  BY DEF BuildTx
<1>2. UNCHANGED <<whitelist, autoMode, hash, trusted>> /\ hash' \in 0..MaxHash /\ hash <= hash'
  BY HashAssumption DEF BuildTx, PInv
<1>3. CASE r.vm = "none" \/ ~r.derived \/ fails \/ tx = NoTx
  BY <1>1, <1>2, <1>3, Ended
<1>4. CASE ~(r.vm = "none" \/ ~r.derived \/ fails \/ tx = NoTx)
  <2>1. req[i].pc = "accepted" /\ DOMAIN req[i] = Fields /\ ReqInv(req[i], i, whitelist, hash)
    BY DEF BuildTx, PInv
  <2>2. r \in Request /\ (req[i].result.mismatch => Differs(r))
    BY <2>1 DEF ReqInv
  <2>3. /\ x.pc = "sent" /\ x.r = r /\ x.tx = tx /\ x.signable = ExtractSignableBytes(tx)
        /\ x.result = req[i].result /\ DOMAIN x = Fields
    BY <2>1 DEF Fields
  <2>4. Put(i, x)
    BY <1>1, <1>4
  <2>5. Builds(r, i)
    BY <1>4 DEF Builds
  <2> HIDE DEF x, tx
  <2>6. ReqInv(x, i, whitelist', hash')
    BY <2>2, <2>3, <2>5 DEF ReqInv, Places, Built, Passed, InSession, tx
  <2> QED
    BY <1>2, <2>3, <2>4, <2>6, Moved DEF PInv
<1> QED
  BY <1>3, <1>4

\* Party B's adapter and analyzer.
LEMMA AnalyzeTxKeeps == ASSUME PInv, NEW i \in Id, AnalyzeTx(i) PROVE PInv'
<1> DEFINE r == req[i].r
           y == req[i].tx
<1>1. PICK answer \in CallLLM, storeFails \in BOOLEAN :
        LET wl == ~storeFails /\ Whitelisted(r, Decoded(r, y), whitelist)
        IN  Put(i, [req[i] EXCEPT !.pc = "analyzed",
                          !.result = Analyze(r, y, req[i].signable, wl, answer)])
  BY DEF AnalyzeTx
<1> DEFINE wl == ~storeFails /\ Whitelisted(r, Decoded(r, y), whitelist)
           result == Analyze(r, y, req[i].signable, wl, answer)
           x == [req[i] EXCEPT !.pc = "analyzed", !.result = result]
<1>2. UNCHANGED <<whitelist, autoMode, hash, trusted>> /\ hash' \in 0..MaxHash /\ hash <= hash'
  BY HashAssumption DEF AnalyzeTx, PInv
<1>3. req[i].pc = "sent" /\ DOMAIN req[i] = Fields /\ ReqInv(req[i], i, whitelist, hash)
  BY DEF AnalyzeTx, PInv
<1>4. r \in Request /\ Builds(r, i) /\ y = BuildUnsignedTx(r, i) /\ req[i].signable = ExtractSignableBytes(y)
  BY <1>3 DEF ReqInv, Built, InSession
<1>5. /\ x.pc = "analyzed" /\ x.r = r /\ x.tx = y /\ x.signable = req[i].signable
      /\ x.result = result /\ DOMAIN x = Fields
  BY <1>3 DEF Fields
<1>6. Put(i, x)
  BY <1>1
<1>7. result.decision # "reject" => WellFormed(r, result.mismatch)
  BY <1>4, ChecksReject
<1>8. result.whitelisted => Listed(r, i, whitelist)
  <2>1. result.whitelisted = wl
    BY DEF Analyze
  <2>2. CASE r.carried # "noTx"
    BY <1>4, <2>1, <2>2, OneRecipient
  <2> QED
    BY <2>2 DEF Listed
<1>9. result.mismatch => Differs(r)
  <2>1. result.mismatch = VerifyFields(r, Decoded(r, y))
    BY DEF Analyze
  <2> QED
    BY <1>4, <2>1, MismatchDiffers
<1> HIDE DEF x, result
<1>10. ReqInv(x, i, whitelist', hash')
  <2>1. AnalysisInv(x, i, whitelist')
    BY <1>2, <1>5, <1>7, <1>8 DEF AnalysisInv
  <2> QED
    BY <1>4, <1>5, <1>9, <2>1 DEF ReqInv, Places, Built, Passed, InSession
<1> QED
  BY <1>2, <1>5, <1>6, <1>10, Moved DEF PInv
\* The routing of the decision.
LEMMA RouteKeeps == ASSUME PInv, NEW i \in Id, Route(i) PROVE PInv'
<1> DEFINE place == IF autoMode /\ req[i].result.whitelisted THEN "auto" ELSE "escalated"
           result == [Routed EXCEPT !.mismatch = req[i].result.mismatch]
           x == [req[i] EXCEPT !.pc = place, !.result = result, !.since = hash]
<1>1. IF req[i].result.decision = "reject" THEN End(i, "rejected") ELSE Put(i, x)
  BY DEF Route
<1>2. UNCHANGED <<whitelist, autoMode, hash, trusted>> /\ hash' \in 0..MaxHash /\ hash <= hash'
  BY HashAssumption DEF Route, PInv
<1>3. req[i].pc = "analyzed" /\ DOMAIN req[i] = Fields /\ ReqInv(req[i], i, whitelist, hash)
  BY DEF Route, PInv
<1>4. CASE req[i].result.decision = "reject"
  BY <1>1, <1>2, <1>4, Ended
<1>5. CASE req[i].result.decision # "reject"
  <2>1. Put(i, x)
    BY <1>1, <1>5
  <2>2. /\ x.pc = place /\ x.r = req[i].r /\ x.tx = req[i].tx /\ x.signable = req[i].signable
        /\ x.result.mismatch = req[i].result.mismatch /\ x.since = hash /\ DOMAIN x = Fields
    BY <1>3 DEF Fields, Routed
  <2>3. place \in {"auto", "escalated"} /\ (place = "auto" => req[i].result.whitelisted)
    OBVIOUS
  <2>4. /\ WellFormed(req[i].r, req[i].result.mismatch)
        /\ req[i].result.whitelisted => Listed(req[i].r, i, whitelist)
    BY <1>3, <1>5 DEF ReqInv, AnalysisInv
  <2>5. hash \in Nat
    BY HashAssumption DEF PInv
  <2> HIDE DEF x, place
  <2>6. ReqInv(x, i, whitelist', hash')
    BY <1>2, <1>3, <2>2, <2>3, <2>4, <2>5 DEF ReqInv, Places, Built, Passed, InSession
  <2> QED
    BY <1>2, <2>1, <2>2, <2>6, Moved DEF PInv
<1> QED
  BY <1>4, <1>5

\* A request the user approves.
LEMMA Approves ==
  ASSUME PInv, NEW i \in Id, req[i].pc = "escalated"
  PROVE  LET x == [req[i] EXCEPT !.pc = "approved", !.since = hash] IN
         DOMAIN x = Fields /\ ReqInv(x, i, whitelist, hash)
<1> DEFINE x == [req[i] EXCEPT !.pc = "approved", !.since = hash]
<1>1. DOMAIN req[i] = Fields /\ ReqInv(req[i], i, whitelist, hash) /\ hash \in Nat
  BY HashAssumption DEF PInv
<1>2. /\ x.pc = "approved" /\ x.r = req[i].r /\ x.tx = req[i].tx /\ x.signable = req[i].signable
      /\ x.result = req[i].result /\ x.since = hash /\ DOMAIN x = Fields
  BY <1>1 DEF Fields
<1> HIDE DEF x
<1>3. ReqInv(x, i, whitelist, hash)
  BY <1>1, <1>2 DEF ReqInv, Places, Built, Passed, InSession
<1> QED
  BY <1>2, <1>3 DEF x

\* Approve, reject or the timeout.
LEMMA DecideKeeps == ASSUME PInv, NEW i \in Id, Decide(i) PROVE PInv'
<1> DEFINE x == [req[i] EXCEPT !.pc = "approved", !.since = hash]
<1>1. Put(i, x) \/ End(i, "rejected")
  BY DEF Decide
<1>2. UNCHANGED <<whitelist, autoMode, hash, trusted>> /\ hash' \in 0..MaxHash /\ hash <= hash'
  BY HashAssumption DEF Decide, PInv
<1>3. CASE End(i, "rejected")
  BY <1>2, <1>3, Ended
<1>4. CASE Put(i, x)
  <2>1. DOMAIN x = Fields /\ ReqInv(x, i, whitelist, hash)
    BY Approves DEF Decide
  <2> HIDE DEF x
  <2> QED
    BY <1>2, <1>4, <2>1, Moved DEF PInv
<1> QED
  BY <1>1, <1>3, <1>4

\* Approve & Whitelist stores what the analysis of the next such request will
\* look up.
LEMMA WhitelistKeeps == ASSUME PInv, NEW i \in Id, WhitelistTx(i) PROVE PInv'
<1> DEFINE x == [req[i] EXCEPT !.pc = "approved", !.since = hash]
           r == req[i].r
           texts == EffectiveTo(r, Decoded(r, req[i].tx))
<1>1. Put(i, x) /\ UNCHANGED <<autoMode, hash>> /\ req[i].pc = "escalated"
  BY DEF WhitelistTx
<1>9. PICK stored \in SUBSET Range(texts) :
        /\ whitelist' = whitelist \cup {ToLower(t) : t \in stored}
        /\ trusted' = IF stored = {} THEN trusted ELSE trusted \cup {[r |-> r, to |-> stored]}
  BY DEF WhitelistTx
<1>2. hash' \in 0..MaxHash /\ hash <= hash' /\ hash \in Nat /\ hash' \in Nat
  BY <1>1, HashAssumption DEF PInv
<1>3. DOMAIN x = Fields /\ ReqInv(x, i, whitelist, hash)
  BY <1>1, Approves
<1>4. r \in Request /\ Builds(r, i) /\ req[i].tx = BuildUnsignedTx(r, i)
  BY <1>1 DEF PInv, ReqInv, Built, InSession
<1>6. whitelist \subseteq whitelist'
  BY <1>9
<1> HIDE DEF x
<1>7. ReqInv(x, i, whitelist', hash')
  BY <1>2, <1>3, <1>6, Waiting
<1>8. TrustInv'
  <2>1. ASSUME NEW q, Recognised(q, whitelist) PROVE Recognised(q, whitelist')
    BY <1>6, <2>1 DEF Recognised, Whitelisted
  <2>2. stored # {} => Recognised(r, whitelist')
    <3>1. SUFFICES ASSUME stored # {}, ~MakesKey(r), NEW j \in Id
                   PROVE  Whitelisted(r, Decoded(r, BuildUnsignedTx(r, j)), whitelist')
      BY DEF Recognised
    <3>2. texts = EffectiveTo(r, Decoded(r, BuildUnsignedTx(r, j)))
      BY <1>4, <3>1, BuiltAgain
    <3>3. PICK t \in stored : TRUE
      BY <3>1
    <3>4. t \in Range(texts) /\ ToLower(t) \in whitelist'
      BY <1>9, <3>3
    <3> QED
      BY <3>2, <3>4 DEF Whitelisted
  <2>3. \A e \in trusted' : e.r \in Request /\ Recognised(e.r, whitelist')
    <3>1. CASE stored = {}
      BY <1>9, <2>1, <3>1 DEF PInv, TrustInv
    <3>2. CASE stored # {}
      BY <1>4, <1>9, <2>1, <2>2, <3>2 DEF PInv, TrustInv
    <3> QED
      BY <3>1, <3>2
  <2>4. Vouched \subseteq Vouched' /\ \A t \in stored : t.of \in Vouched'
    <3>1. trusted \subseteq trusted'
      BY <1>9
    <3>2. stored # {} => \E e \in trusted' : e.to = stored
      <4> DEFINE e == [r |-> r, to |-> stored]
      <4>1. stored # {} => e \in trusted'
        BY <1>9
      <4>2. e.to = stored
        OBVIOUS
      <4> QED
        BY <4>1, <4>2
    <3> QED
      BY <3>1, <3>2 DEF Vouched
  <2>5. \A text \in whitelist' : \E a \in Vouched' : text.of = Lower(a)
    <3>1. ASSUME NEW text \in whitelist PROVE \E a \in Vouched' : text.of = Lower(a)
      BY <2>4 DEF PInv, TrustInv
    <3>2. ASSUME NEW t \in stored PROVE \E a \in Vouched' : ToLower(t).of = Lower(a)
      BY <2>4 DEF ToLower
    <3> QED
      BY <1>9, <3>1, <3>2
  <2> QED
    BY <2>3, <2>5 DEF TrustInv
<1>10. autoMode' \in BOOLEAN
  BY <1>1 DEF PInv
<1> QED
  BY <1>1, <1>2, <1>3, <1>6, <1>7, <1>8, <1>10, Moved

\* The blockhash is fetched, then the message is extracted.
LEMMA PrepareKeeps == ASSUME PInv, NEW i \in Id, PrepareSigning(i) PROVE PInv'
<1> DEFINE r == req[i].r
           fresh == r.vm = "solana" /\ r.rpc
           tx == IF fresh THEN InjectBlockhash(req[i].tx, hash) ELSE req[i].tx
           x == [req[i] EXCEPT !.pc = "signing", !.by = req[i].pc, !.tx = tx,
                               !.signable = ExtractSignableBytes(tx)]
<1>1. (Put(i, x) \/ (fresh /\ End(i, "error"))) /\ req[i].pc \in {"auto", "approved"}
  BY DEF PrepareSigning
<1>2. UNCHANGED <<whitelist, autoMode, hash, trusted>> /\ hash' \in 0..MaxHash /\ hash <= hash'
  BY HashAssumption DEF PrepareSigning, PInv
<1>3. CASE End(i, "error")
  BY <1>2, <1>3, Ended
<1>4. CASE Put(i, x)
  <2>1. DOMAIN req[i] = Fields /\ ReqInv(req[i], i, whitelist, hash) /\ hash \in Nat
    BY HashAssumption DEF PInv
  <2>2. /\ r \in Request /\ Builds(r, i) /\ req[i].tx = BuildUnsignedTx(r, i)
        /\ req[i].since \in Nat /\ req[i].since <= hash
    BY <1>1, <2>1 DEF ReqInv, Built, InSession, Passed
  <2>3. Fits(tx) /\ (fresh => tx.blockhash >= req[i].since)
    <3>1. CASE fresh
      <4> DEFINE b == BuildUnsignedTx(r, i)
      <4>1. b = [vm |-> "solana", keys |-> b.keys, value |-> b.value, blockhash |-> 0] /\ Fits(b)
        BY <2>2, <3>1, SolanaForm
      <4> HIDE DEF b
      <4>2. tx = [b EXCEPT !.blockhash = hash]
        BY <2>2, <3>1 DEF InjectBlockhash, b
      <4> HIDE DEF tx
      <4>3. tx.vm = "solana" /\ tx.value = b.value /\ tx.blockhash = hash
        BY <4>1, <4>2
      <4> QED
        BY <2>1, <2>2, <4>1, <4>3 DEF Fits
    <3>2. CASE ~fresh
      BY <2>2, <3>2, EvmForm, TendermintForm, SolanaForm, RequestFields DEF Builds
    <3> QED
      BY <3>1, <3>2
  <2> HIDE DEF tx
  <2>4. /\ x.pc = "signing" /\ x.r = r /\ x.tx = tx /\ x.signable = ExtractSignableBytes(tx)
        /\ x.result = req[i].result /\ x.since = req[i].since /\ x.by = req[i].pc
        /\ DOMAIN x = Fields
    BY <2>1 DEF Fields
  <2> HIDE DEF x
  <2>5. SessionInv(x, i, whitelist')
    BY <1>1, <1>2, <2>1, <2>3, <2>4 DEF SessionInv, ReqInv
  <2>6. ReqInv(x, i, whitelist', hash')
    BY <1>1, <1>2, <2>1, <2>2, <2>4, <2>5 DEF ReqInv, Places, Built, Passed, InSession
  <2> QED
    BY <1>2, <1>4, <2>4, <2>6, Moved DEF PInv
<1> QED
  BY <1>1, <1>3, <1>4

\* The signature is put into the transaction.
LEMMA AssembleKeeps == ASSUME PInv, NEW i \in Id, Assemble(i) PROVE PInv'
<1> DEFINE x == [req[i] EXCEPT !.pc = "signed", !.out = AssembleSignedTx(req[i].tx, req[i].signable)]
<1>1. Put(i, x) /\ req[i].pc = "signing" /\ UNCHANGED <<whitelist, autoMode, hash, trusted>>
  BY DEF Assemble
<1>2. hash' \in 0..MaxHash /\ hash <= hash'
  BY <1>1, HashAssumption DEF PInv
<1>3. DOMAIN req[i] = Fields /\ ReqInv(req[i], i, whitelist, hash)
  BY DEF PInv
<1>4. /\ x.pc = "signed" /\ x.r = req[i].r /\ x.tx = req[i].tx /\ x.signable = req[i].signable
      /\ x.result = req[i].result /\ x.since = req[i].since /\ x.by = req[i].by
      /\ x.out = AssembleSignedTx(x.tx, x.signable) /\ DOMAIN x = Fields
  BY <1>3 DEF Fields
<1> HIDE DEF x
<1>5. SessionInv(x, i, whitelist')
  BY <1>1, <1>3, <1>4 DEF SessionInv, ReqInv, InSession
<1>6. ReqInv(x, i, whitelist', hash')
  BY <1>1, <1>3, <1>4, <1>5 DEF ReqInv, Places, Built, Passed, InSession
<1> QED
  BY <1>1, <1>2, <1>4, <1>6, Moved DEF PInv

\* Every step keeps the invariant.
LEMMA PipelineStep == PInv /\ [Next]_vars => PInv'
<1> SUFFICES ASSUME PInv, [Next]_vars PROVE PInv'
  OBVIOUS
<1>1. CASE SetAutoMode
  BY <1>1 DEF SetAutoMode, PInv, TrustInv, Vouched
<1>2. CASE NewBlock
  <2>1. hash' \in 0..MaxHash /\ hash <= hash' /\ hash \in Nat /\ hash' \in Nat
    BY <1>2, HashAssumption DEF NewBlock, PInv
  <2>2. UNCHANGED <<whitelist, autoMode, req, trusted>>
    BY <1>2 DEF NewBlock
  <2> QED
    BY <2>1, <2>2, Waiting DEF PInv, TrustInv, Vouched
<1>3. CASE UNCHANGED vars
  BY <1>3 DEF vars, PInv, TrustInv, Vouched
<1> QED
  BY <1>1, <1>2, <1>3, HandleSignKeeps, BuildTxKeeps, AnalyzeTxKeeps, RouteKeeps,
     DecideKeeps, WhitelistKeeps, PrepareKeeps, AssembleKeeps DEF Next

-----------------------------------------------------------------------------
(* The theorems.                                                           *)

\* Every request keeps to what its place in the pipeline promises.
THEOREM PipelineInductive == Spec => []PInv
<1>1. Init => PInv
  <2> SUFFICES ASSUME Init PROVE PInv
    OBVIOUS
  <2>1. ASSUME NEW i \in Id PROVE DOMAIN req[i] = Fields /\ ReqInv(req[i], i, whitelist, hash)
    BY DEF Init, Absent, Fields, Routed, ReqInv, Places, Built, Passed, InSession
  <2> QED
    BY <2>1, HashAssumption DEF Init, PInv, TrustInv
<1> QED
  BY <1>1, PipelineStep, PTL DEF Spec

\* The state has its shape, and no transaction is built with an amount the
\* chain's integers do not hold (the adapters' BuildUnsignedTx).
THEOREM PipelineTypeCorrect == Spec => []PipelineTypeOK
<1>1. PInv => PipelineTypeOK
  <2> SUFFICES ASSUME PInv PROVE PipelineTypeOK
    OBVIOUS
  <2>1. ASSUME NEW i \in Id, req[i].pc \in Built PROVE Fits(req[i].tx)
    <3>1. CASE req[i].pc \in InSession
      BY <3>1 DEF PInv, ReqInv, SessionInv
    <3>2. CASE req[i].pc \notin InSession
      <4>1. req[i].r \in Request /\ Builds(req[i].r, i) /\ req[i].tx = BuildUnsignedTx(req[i].r, i)
        BY <2>1, <3>2 DEF PInv, ReqInv
      <4> QED
        BY <4>1, EvmForm, TendermintForm, SolanaForm, RequestFields DEF Builds
    <3> QED
      BY <3>1, <3>2
  <2> QED
    BY <2>1 DEF PInv, TrustInv, ReqInv, Places, PipelineTypeOK, Fits
<1> QED
  BY <1>1, PipelineInductive, PTL

\* Once a press of "Approve & Whitelist" has stored an address of a request, its
\* like is recognised ever after, on every chain, unless it is an Anchor call
\* that makes up a key (onTelegramWhitelist and Analyze).
THEOREM WhitelistEffective == Spec => []WhitelistTakesEffect
<1>1. PInv => WhitelistTakesEffect
  BY DEF PInv, TrustInv, Recognised, WhitelistTakesEffect
<1> QED
  BY <1>1, PipelineInductive, PTL

\* A transfer signed without review goes to an account that was whitelisted, the
\* one the client named; on Solana, to one whose address is written with the
\* same letters but for their case (Analyze, BuildUnsignedTx).
THEOREM AutoWhitelisted == Spec => []AutoApprovedIsWhitelisted
<1>1. PInv => AutoApprovedIsWhitelisted
  <2> SUFFICES ASSUME PInv, NEW i \in Id, req[i].pc \in {"signing", "signed"},
                      req[i].by = "auto", SimpleTransfer(req[i].r), req[i].r.carried # "noTx"
               PROVE  \/ Intended(req[i].r) \in Vouched
                      \/ /\ req[i].r.vm = "solana"
                         /\ \E a \in Vouched : Lower(a) = Lower(Intended(req[i].r))
    BY DEF AutoApprovedIsWhitelisted
  <2> DEFINE r == req[i].r
  <2>1. r \in Request /\ Builds(r, i) /\ ToLower(Recipient(r, i)) \in whitelist
    BY DEF PInv, ReqInv, SessionInv, Built, InSession, Listed
  <2>2. Recipient(r, i).of = Intended(r)
    BY <2>1, RequestFields DEF Recipient, Intended, SimpleTransfer, HexToAddress, MakesKey, Plain,
       Builds
  <2>3. PICK a \in Vouched : Lower(Intended(r)) = Lower(a)
    BY <2>1, <2>2 DEF PInv, TrustInv, ToLower
  <2>4. CASE r.vm \in {"evm", "tendermint"}
    <3>1. r.to # <<>>
      BY <2>1, <2>4 DEF Builds, BuildUnsignedTx, BuildEvm, BuildTendermint
    <3>2. r.to[1].of \notin Twins /\ r.to[1].of \in Addr \cup {ZeroAddr, Self}
      <4>1. r.to[1] \in Text /\ 1 \in DOMAIN r.to
        BY <2>1, <3>1, RequestFields
      <4> QED
        BY <2>1, <2>4, <4>1, RequestAssumption DEF Text
    <3>3. Intended(r) = r.to[1].of
      BY <2>4 DEF Intended
    <3>4. a = Intended(r)
      BY <2>3, <3>2, <3>3, AccountAssumption DEF Lower
    <3> QED
      BY <3>4
  <2>5. CASE r.vm = "solana"
    BY <2>3, <2>5
  <2> QED
    BY <2>1, <2>4, <2>5, RequestFields DEF Builds
<1> QED
  BY <1>1, PipelineInductive, PTL

\* Nothing malformed that can be decoded gets past the analysis unreported,
\* whoever approves it (runDeterministicChecks and verifyFields on the decoded
\* fields).
THEOREM MalformedStopped == Spec => []MalformedStoppedOrShown
<1>1. PInv => MalformedStoppedOrShown
  BY DEF PInv, ReqInv, Passed, WellFormed, MalformedStoppedOrShown
<1> QED
  BY <1>1, PipelineInductive, PTL

\* Every mismatch the review shows has one of the named reasons in the request
\* (verifyFields, DecodeTx).
THEOREM MismatchReal == Spec => []MismatchIsReal
<1>1. PInv => MismatchIsReal
  <2> SUFFICES ASSUME PInv, NEW i \in Id, req[i].result.mismatch PROVE Differs(req[i].r)
    BY DEF MismatchIsReal, Differs
  <2> QED
    BY DEF PInv, ReqInv
<1> QED
  BY <1>1, PipelineInductive, PTL

\* The signature is over the transaction that is returned, with a blockhash
\* fetched after the approval (runTSSSigning).
THEOREM SignedFresh == Spec => []SignedIsFresh
<1>1. PInv => SignedIsFresh
  <2> SUFFICES ASSUME PInv, NEW i \in Id, req[i].pc = "signed"
               PROVE  /\ req[i].out.signature = ExtractSignableBytes(req[i].out.tx)
                      /\ req[i].r.vm = "solana" /\ req[i].r.rpc =>
                           req[i].out.tx.blockhash >= req[i].since
    BY DEF SignedIsFresh
  <2>1. /\ req[i].signable = ExtractSignableBytes(req[i].tx) /\ SessionInv(req[i], i, whitelist)
        /\ req[i].out = AssembleSignedTx(req[i].tx, req[i].signable)
    BY DEF PInv, ReqInv, Built, InSession
  <2>2. req[i].out.tx = req[i].tx /\ req[i].out.signature = req[i].signable
    BY <2>1 DEF AssembleSignedTx
  <2> QED
    BY <2>1, <2>2 DEF SessionInv
<1> QED
  BY <1>1, PipelineInductive, PTL
=============================================================================

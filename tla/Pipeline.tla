------------------------------ MODULE Pipeline ------------------------------
(***************************************************************************)
(* What happens to the CONTENT of a request on its way from POST /sign to  *)
(* the signed transaction: the API's checks, the VM adapter that builds    *)
(* the transaction, Party B's adapter that decodes it again, the analyzer  *)
(* and its LLM, the routing of the decision, the whitelist the user grows, *)
(* the fresh blockhash and the assembly.  PartyB and PartyA model the      *)
(* goroutines, messages and failures of the same operations; here the two  *)
(* parties' steps on one request follow each other and requests interleave.*)
(***************************************************************************)
EXTENDS Integers, Sequences, FiniteSets, Functions

CONSTANTS Id,        \* requests in flight
          Request,   \* what clients ask for, see RequestType
          Addr,      \* accounts of recipients
          Twins,     \* those (on Solana) whose texts differ only in the letters' case
          Folded,    \* what lower-casing makes of the texts of Twins
          ZeroAddr,  \* the account 0x000...0
          Self,      \* the sender
          SystemKey, \* the system program's key
          MaxInt64, MaxUint64,  \* the limits of the chains' integers
          Threshold, \* 100e18, above which the analyzer escalates
          HasLLM,    \* an LLM provider is configured and AI not disabled
          MaxHash    \* bound: blockhashes seen

ASSUME HashAssumption == MaxHash \in Nat
ASSUME AccountAssumption ==
    /\ Twins \subseteq Addr /\ {ZeroAddr, Self, SystemKey, Folded} \cap Twins = {}
    /\ Folded \notin Addr \cup {ZeroAddr, Self}
ASSUME LimitAssumption ==
    /\ MaxInt64 \in Nat /\ MaxUint64 \in Nat /\ Threshold \in Nat
    /\ MaxInt64 < MaxUint64 /\ MaxUint64 < Threshold

VARIABLES whitelist, autoMode, hash, req, trusted

vars == <<whitelist, autoMode, hash, req, trusted>>

\* An amount is a text.  "12abc" has a number in front, "abc" has none; "007" is
\* a number in a notation no formatter produces.
Empty == [kind |-> "empty", n |-> 0]
Number(n) == [kind |-> "number", n |-> n]
Value == {Empty, [kind |-> "text", n |-> 0]}
         \cup [kind : {"number", "trailing", "padded"}, n : Int]

\* An address is a text that stands for an account: as the decoder prints it,
\* as bare hex without 0x, or as another text in which the parser finds bytes of
\* that account (hex that is too short or too long, or hex only in front). Texts
\* of one account that differ only in case are one text, as every comparison
\* lower-cases both sides.
Text == [form : {"plain", "bare", "odd"}, of : Addr \cup {ZeroAddr, Self}]
Plain(a) == [form |-> "plain", of |-> a]

\* strings.ToLower: base58 texts of different accounts may become one.
Lower(a) == IF a \in Twins THEN Folded ELSE a
ToLower(t) == [form |-> t.form, of |-> Lower(t.of)]

\* carried says what becomes of the transaction and the claimed bytes on their
\* way to Party B: Party B relies on neither, and reads both again.
RequestType ==
    [vm : {"evm", "tendermint", "solana", "none"}, derived : BOOLEAN, to : Seq(Text),
     value : Value, data : {"", "hex", "bad"}, method : {"", "delegate", "redelegate", "other"},
     params : {"ok", "bad"}, call : {"", "instructions", "anchor"},
     key1 : Addr \cup {SystemKey}, signers : BOOLEAN, mint : BOOLEAN, rpc : BOOLEAN,
     carried : {"same", "noTx", "noBytes", "otherBytes"}]

ASSUME RequestAssumption ==
    /\ Request \subseteq RequestType
    /\ \A r \in Request : r.vm # "solana" => \A k \in DOMAIN r.to : r.to[k].of \notin Twins

\* One request on its way: where it is, what was asked, the transaction, the
\* bytes to sign, the analysis (not looked at again once routed), who decided,
\* what is returned and, for the properties, the blockhash before the decision.
NoTx == [vm |-> "none"]
Routed == [decision |-> "", whitelisted |-> FALSE, mismatch |-> FALSE]
Absent == [pc |-> "idle", r |-> NoTx, tx |-> NoTx, signable |-> <<>>, result |-> Routed,
           since |-> 0, by |-> "", out |-> NoTx]

Init ==
    /\ whitelist = {}
    /\ autoMode \in BOOLEAN
    /\ hash = 0
    /\ req = [i \in Id |-> Absent]
    /\ trusted = {}

(***************************************************************************)
(* The adapters.  Each Build gives the unsigned transaction, or NoTx where *)
(* the code returns an error or panics (the router recovers: status 500).  *)
(***************************************************************************)
AtaOf(a) == <<"ata", a>>

\* common.HexToAddress never fails: 0x may be missing, and what is too short, too
\* long or not hex to its end gives the bytes that were read, padded or cut.
HexToAddress(t) == t.of

\* big.Int.SetString: all of the text is a number, and so are the gas price
\* and the chain id (params).  A negative amount passes here and fails in the
\* RLP encoder.
BuildEvm(r) ==
    IF \/ r.to = <<>> \/ r.value.kind \notin {"empty", "number", "padded"}
       \/ r.value.n < 0 \/ r.params = "bad"
    THEN NoTx
    ELSE [vm |-> "evm", to |-> HexToAddress(r.to[1]), value |-> r.value.n,
          data |-> r.data, blockhash |-> 0]

\* strconv.ParseInt: the amount is required and fits an int64; a negative one
\* panics in NewInt64Coin; the fee (params) is parsed alike.  Beside what is
\* signed the envelope carries the first address and the amount's text, for
\* Party B to show.
BuildTendermintUnbounded(r) ==
    IF r.to = <<>> \/ r.value.kind \notin {"number", "empty"} \/ r.method = "other"
    THEN NoTx
    ELSE [vm |-> "tendermint", to |-> r.to[1], shown |-> r.value, value |-> r.value.n,
          pays |-> <<r.to[1]>>, blockhash |-> 0]
BuildTendermint(r) ==
    IF \/ r.to = <<>> \/ r.value.kind \notin {"number", "padded"}
       \/ r.value.n < 0 \/ r.value.n > MaxInt64 \/ r.params = "bad"
       \/ r.method = "other" \/ (r.method = "redelegate" /\ Len(r.to) < 2)
    THEN NoTx
    ELSE [vm |-> "tendermint", to |-> r.to[1], shown |-> r.value, value |-> r.value.n,
          pays |-> IF r.method = "redelegate" THEN <<r.to[1], r.to[2]>> ELSE <<r.to[1]>>,
          blockhash |-> 0]

\* The message's keys after the payer's: writable accounts come first, in the
\* order of the instructions.  A transfer to oneself leaves the program.
TransferKeys(r) ==
    IF r.mint THEN <<Self, AtaOf(r.to[1].of)>>
    ELSE IF r.to[1].of = Self THEN <<Self, SystemKey>>
    ELSE <<Self, r.to[1].of, SystemKey>>

\* The keypair that BuildAnchorInstructions makes up for request i.
NewKey(i) == <<"new", i>>
MakesKey(r) == r.vm = "solana" /\ r.call = "anchor" /\ r.signers

\* Signers come first: an Anchor call with one beside the sender names a key that
\* is made anew each time, any other call the key its accounts put there.
CallKeys(r, i) == <<Self, IF MakesKey(r) THEN NewKey(i) ELSE r.key1>>

\* A mint or instruction that does not parse (params) panics or is an error.
BuildSolana(r, i) ==
    IF r.params = "bad" THEN NoTx
    ELSE IF r.call # "" THEN [vm |-> "solana", keys |-> CallKeys(r, i), value |-> 0, blockhash |-> 0]
    ELSE IF \/ r.to = <<>> \/ r.to[1].form # "plain" \/ r.to[1].of = ZeroAddr
            \/ r.value.kind = "text"
            \/ r.value.n < 0 \/ r.value.n > MaxUint64
         THEN NoTx
         ELSE [vm |-> "solana", keys |-> TransferKeys(r), value |-> r.value.n, blockhash |-> 0]

\* An Anchor call may fail for many reasons (module Anchor); a token transfer
\* asks the RPC node which token program owns the mint.
RemoteFails(r) ==
    IF r.vm = "solana" /\ (r.call = "anchor" \/ (r.call = "" /\ r.mint /\ r.rpc))
    THEN BOOLEAN ELSE {FALSE}

BuildUnsignedTx(r, i) ==
    CASE r.vm = "evm" -> BuildEvm(r)
      [] r.vm = "tendermint" -> BuildTendermint(r)
      [] r.vm = "solana" -> BuildSolana(r, i)
      [] r.vm = "none" -> NoTx

\* The decoded fields: the recipients and the amount, Empty if not decoded.
DecodeEvm(tx) == [to |-> <<Plain(tx.to)>>, value |-> Number(tx.value)]
DecodeTendermint(tx) == [to |-> <<tx.to>>, value |-> tx.shown]
DecodeSolana(tx) ==
    [to |-> IF Len(tx.keys) > 1 THEN <<Plain(tx.keys[2])>> ELSE <<>>, value |-> Empty]

DecodeTx(tx) ==
    CASE tx.vm = "evm" -> DecodeEvm(tx)
      [] tx.vm = "tendermint" -> DecodeTendermint(tx)
      [] tx.vm = "solana" -> DecodeSolana(tx)

\* What Party B decodes: nothing, with a warning, from what it cannot read.
Undecoded == [to |-> <<>>, value |-> Empty]
Decoded(r, tx) == IF r.carried = "noTx" THEN Undecoded ELSE DecodeTx(tx)

\* The bytes that are signed: a digest of the transaction's payload or of the
\* sign document, and on Solana the message itself.  Hashes are injective.
SignableEvm(tx) == <<"keccak256", tx>>
SignableTendermint(tx) == <<"sha256", tx.pays, tx.value>>
SignableSolana(tx) == <<"message", tx>>

ExtractSignableBytes(tx) ==
    CASE tx.vm = "evm" -> SignableEvm(tx)
      [] tx.vm = "tendermint" -> SignableTendermint(tx)
      [] tx.vm = "solana" -> SignableSolana(tx)
InjectBlockhash(tx, h) == [tx EXCEPT !.blockhash = h]
AssembleSignedTx(tx, message) == [tx |-> tx, signature |-> message]

(***************************************************************************)
(* The analyzer.                                                           *)
(***************************************************************************)
VerifyAllFields(r, decoded) ==
    \/ decoded.to # <<>> /\ r.to # <<>> /\ ToLower(decoded.to[1]) # ToLower(r.to[1])
    \/ decoded.value # Empty /\ decoded.value # r.value
\* Whether the analysis reports a mismatch: the texts of the fields are compared
\* when both sides have them.
VerifyFields(r, decoded) ==
    \/ decoded.to # <<>> /\ r.to # <<>> /\ ToLower(decoded.to[1]) # ToLower(r.to[1])
    \/ decoded.value # Empty /\ r.value # Empty /\ decoded.value # r.value

EffectiveTo(r, decoded) == IF decoded.to # <<>> THEN decoded.to ELSE r.to
EffectiveValue(r, decoded) == IF decoded.value # Empty THEN decoded.value ELSE r.value

WhitelistedEither(r, decoded, wl) ==
    \E t \in Range(decoded.to) \cup Range(r.to) : ToLower(t) \in wl
\* One whitelisted recipient is enough; an error of the store counts as no.
Whitelisted(r, decoded, wl) == \E t \in Range(EffectiveTo(r, decoded)) : ToLower(t) \in wl

\* "" where the checks decide nothing.
DeterministicChecksLenient(to, value) ==
    IF to = <<>> THEN "reject"
    ELSE IF value.kind = "text" THEN "reject"
    ELSE IF value.kind = "number" /\ value.n > Threshold THEN "escalate" ELSE ""
DeterministicChecks(to, value) ==
    IF to = <<>> \/ \E t \in Range(to) : ToLower(t) = Plain(ZeroAddr) THEN "reject"
    ELSE IF value.kind \in {"text", "trailing"} THEN "reject"
    ELSE IF value.kind \in {"number", "padded"} /\ value.n > Threshold THEN "escalate"
    ELSE ""

\* What comes back from the provider: an error, or a classification.
CallLLM == {"error", "malicious", "safe_sure", "safe_unsure", "suspicious"}
ClassificationToDecision(c) ==
    CASE c = "malicious" -> "reject" [] c = "safe_sure" -> "approve" [] OTHER -> "escalate"

WithoutLLM(wl) == IF wl THEN "approve" ELSE "escalate"

\* The claimed bytes are compared when Party B can read the transaction and them.
SignableBytesOK(r, tx, signable) ==
    r.carried \in {"same", "otherBytes"} =>
        ExtractSignableBytes(tx) = IF r.carried = "same" THEN signable ELSE <<"other">>

Analyze(r, tx, signable, wl, answer) ==
    LET decoded == Decoded(r, tx)
        checks == DeterministicChecks(EffectiveTo(r, decoded), EffectiveValue(r, decoded))
        decision == IF ~SignableBytesOK(r, tx, signable) THEN "reject"
                    ELSE IF checks # "" THEN checks
                    ELSE IF HasLLM /\ answer # "error" THEN ClassificationToDecision(answer)
                    ELSE WithoutLLM(wl)
    IN  [decision |-> decision, whitelisted |-> wl,
         mismatch |-> VerifyFields(r, decoded)]

(***************************************************************************)
(* Steps.                                                                  *)
(***************************************************************************)
Put(i, record) == req' = [req EXCEPT ![i] = record]
End(i, how) == Put(i, [Absent EXCEPT !.pc = how])

\* handleSign: what the API refuses with 400.
Refused(r) == (r.to = <<>> /\ r.call = "") \/ r.data = "bad"

HandleSign(i) ==
    /\ req[i].pc = "idle"
    /\ \E r \in Request :
          IF Refused(r) THEN End(i, "error")
          ELSE Put(i, [Absent EXCEPT !.pc = "accepted", !.r = r])
    /\ UNCHANGED <<whitelist, autoMode, hash, trusted>>

\* Service.Sign up to the request it sends: adapter, key, transaction, bytes.
BuildTx(i) ==
    /\ req[i].pc = "accepted"
    /\ \E fails \in RemoteFails(req[i].r) :
       LET tx == BuildUnsignedTx(req[i].r, i) IN
       IF req[i].r.vm = "none" \/ ~req[i].r.derived \/ fails \/ tx = NoTx
       THEN End(i, "error")
       ELSE Put(i, [req[i] EXCEPT !.pc = "sent", !.tx = tx,
                                  !.signable = ExtractSignableBytes(tx)])
    /\ UNCHANGED <<whitelist, autoMode, hash, trusted>>

\* Party B's HandleSignRequest as far as the analysis.
AnalyzeTx(i) ==
    /\ req[i].pc = "sent"
    /\ \E answer \in CallLLM, storeFails \in BOOLEAN :
       LET wl == ~storeFails /\ Whitelisted(req[i].r, Decoded(req[i].r, req[i].tx), whitelist)
       IN  Put(i, [req[i] EXCEPT !.pc = "analyzed",
                   !.result = Analyze(req[i].r, req[i].tx, req[i].signable, wl, answer)])
    /\ UNCHANGED <<whitelist, autoMode, hash, trusted>>

\* ... and the routing of the decision.
Route(i) ==
    /\ req[i].pc = "analyzed"
    /\ IF req[i].result.decision = "reject" THEN End(i, "rejected")
       ELSE Put(i, [req[i] EXCEPT
                    !.pc = IF autoMode /\ req[i].result.whitelisted THEN "auto" ELSE "escalated",
                    !.result = [Routed EXCEPT !.mismatch = req[i].result.mismatch],
                    !.since = hash])
    /\ UNCHANGED <<whitelist, autoMode, hash, trusted>>

\* The user's answer, or the timeout.
Decide(i) ==
    /\ req[i].pc = "escalated"
    /\ \/ Put(i, [req[i] EXCEPT !.pc = "approved", !.since = hash])
       \/ End(i, "rejected")
    /\ UNCHANGED <<whitelist, autoMode, hash, trusted>>

WhitelistClaimed(i) ==
    /\ req[i].pc = "escalated"
    /\ \E stored \in SUBSET Range(req[i].r.to) :
          /\ whitelist' = whitelist \cup {ToLower(t) : t \in stored}
          /\ trusted' = IF stored = {} THEN trusted ELSE trusted \cup {[r |-> req[i].r, to |-> stored]}
    /\ Put(i, [req[i] EXCEPT !.pc = "approved", !.since = hash])
    /\ UNCHANGED <<autoMode, hash>>
\* "Approve & Whitelist" stores the decoded recipients if there are any, and
\* approves.  A press that comes before the request is cached stores nothing,
\* and an insert that fails is only logged.
WhitelistTx(i) ==
    /\ req[i].pc = "escalated"
    /\ \E stored \in SUBSET Range(EffectiveTo(req[i].r, Decoded(req[i].r, req[i].tx))) :
          /\ whitelist' = whitelist \cup {ToLower(t) : t \in stored}
          /\ trusted' = IF stored = {} THEN trusted ELSE trusted \cup {[r |-> req[i].r, to |-> stored]}
    /\ Put(i, [req[i] EXCEPT !.pc = "approved", !.since = hash])
    /\ UNCHANGED <<autoMode, hash>>

SetAutoMode ==
    /\ autoMode' = ~autoMode
    /\ UNCHANGED <<whitelist, hash, req, trusted>>

\* The chain moves on: an older blockhash expires in the end.
NewBlock ==
    /\ hash < MaxHash
    /\ hash' = hash + 1
    /\ UNCHANGED <<whitelist, autoMode, req, trusted>>

\* runTSSSigning up to the message both parties sign: the blockhash is fetched
\* and injected before the bytes are extracted.
PrepareWithoutFetch(i) ==
    /\ req[i].pc \in {"auto", "approved"}
    /\ Put(i, [req[i] EXCEPT !.pc = "signing", !.by = req[i].pc])
    /\ UNCHANGED <<whitelist, autoMode, hash, trusted>>
PrepareSigning(i) ==
    /\ req[i].pc \in {"auto", "approved"}
    /\ LET fresh == req[i].r.vm = "solana" /\ req[i].r.rpc
           tx == IF fresh THEN InjectBlockhash(req[i].tx, hash) ELSE req[i].tx
       IN  \/ Put(i, [req[i] EXCEPT !.pc = "signing", !.by = req[i].pc, !.tx = tx,
                                      !.signable = ExtractSignableBytes(tx)])
           \/ fresh /\ End(i, "error")
    /\ UNCHANGED <<whitelist, autoMode, hash, trusted>>

\* The session's signature is over the prepared message.
Assemble(i) ==
    /\ req[i].pc = "signing"
    /\ Put(i, [req[i] EXCEPT !.pc = "signed",
                             !.out = AssembleSignedTx(req[i].tx, req[i].signable)])
    /\ UNCHANGED <<whitelist, autoMode, hash, trusted>>

Next ==
    \/ SetAutoMode \/ NewBlock
    \/ \E i \in Id :
          \/ HandleSign(i) \/ BuildTx(i) \/ AnalyzeTx(i) \/ Route(i) \/ Decide(i)
          \/ WhitelistTx(i) \/ PrepareSigning(i) \/ Assemble(i)

Spec == Init /\ [][Next]_vars

(***************************************************************************)
(* Properties.                                                             *)
(***************************************************************************)

\* Where a request has its transaction.
Built == {"sent", "analyzed", "auto", "escalated", "approved", "signing", "signed"}

\* The state has its shape, and every built transaction has an amount that
\* fits the chain's integers.
PipelineTypeOK ==
    /\ autoMode \in BOOLEAN /\ hash \in 0..MaxHash
    /\ \A e \in trusted : e.r \in Request
    /\ \A i \in Id :
         /\ req[i].pc \in {"idle", "accepted", "error", "sent", "analyzed", "rejected",
                           "auto", "escalated", "approved", "signing", "signed"}
         /\ req[i].pc \in Built =>
              /\ req[i].tx.vm = "solana" => req[i].tx.value \in 0..MaxUint64
              /\ req[i].tx.vm = "tendermint" => req[i].tx.value \in 0..MaxInt64

\* A request the user approved with "Approve & Whitelist" is recognised when
\* it comes again, once the press has stored an address: what is stored is what
\* the next analysis will look up, on every chain.  Only an Anchor call that
\* makes up a key of its own is not (onTelegramWhitelist, Analyze).
WhitelistTakesEffect ==
    \A e \in trusted, i \in Id :
        \/ MakesKey(e.r)
        \/ Whitelisted(e.r, Decoded(e.r, BuildUnsignedTx(e.r, i)), whitelist)

\* The recipient the client named, as the chain sees it, and the accounts whose
\* addresses the user's presses stored.
Intended(r) == IF r.vm = "solana" /\ r.mint THEN AtaOf(r.to[1].of) ELSE r.to[1].of
SimpleTransfer(r) ==
    r.call = "" /\ r.method # "redelegate" /\ ~(r.vm = "solana" /\ r.to[1].of = Self)
Vouched == {t.of : t \in UNION {e.to : e \in trusted}}

\* A transfer that Party B could decode, signed without the user's review, goes
\* to an account the user once whitelisted, although the check accepts any one
\* of the addresses and Party A builds the transaction from the first (Analyze,
\* BuildUnsignedTx).  On Solana it may be one whose text differs in case.
AutoApprovedIsWhitelisted ==
    \A i \in Id :
        LET r == req[i].r IN
        req[i].pc \in {"signing", "signed"} /\ req[i].by = "auto" =>
            (SimpleTransfer(r) /\ r.carried # "noTx" =>
               \/ Intended(r) \in Vouched
               \/ r.vm = "solana" /\ \E a \in Vouched : Lower(a) = Lower(Intended(r)))

\* Past the analysis.
Passed == {"auto", "escalated", "approved", "signing", "signed"}

\* What Party A's parsers let through by mistake is stopped by Party B or shown
\* to the user, if Party B can decode the transaction: an amount followed by
\* other text and an EVM recipient that becomes the zero address are rejected,
\* any other EVM text that is not a plain address is reported as a mismatch.
\* Bytes that are not the transaction's are always rejected.
MalformedStoppedOrShown ==
    \A i \in Id :
        LET r == req[i].r IN
        req[i].pc \in Passed /\ r.carried # "noTx" =>
            /\ r.value.kind \notin {"text", "trailing"} /\ r.carried # "otherBytes"
            /\ r.vm = "evm" => /\ r.to[1].of # ZeroAddr
                               /\ r.to[1].form = "plain" \/ req[i].result.mismatch

\* The review shows no mismatch for an EVM or Cosmos request or a plain SOL
\* transfer that Party A built from the very fields it claims, unless an EVM
\* address or amount was not written as the decoder writes it: an address
\* without 0x is enough (verifyFields compares texts, DecodeTx).
MismatchIsReal ==
    \A i \in Id : req[i].result.mismatch =>
        LET r == req[i].r IN
        \/ r.vm = "solana" /\ (r.mint \/ r.call # "" \/ r.to[1].of = Self)
        \/ r.vm = "evm" /\ (r.to[1].form # "plain" \/ r.value.kind = "padded")

\* The signature is over the very transaction that is returned, and a Solana
\* transaction with an RPC URL carries a blockhash no older than its approval,
\* however long the review took (runTSSSigning).
SignedIsFresh ==
    \A i \in Id : req[i].pc = "signed" =>
        /\ req[i].out.signature = ExtractSignableBytes(req[i].out.tx)
        /\ req[i].r.vm = "solana" /\ req[i].r.rpc => req[i].out.tx.blockhash >= req[i].since
=============================================================================

---------------------------- MODULE SigningProofs ----------------------------
(***************************************************************************)
(* Theorems about Signing: joined with Party A and the connection, Party B *)
(* is still the Party B of PartyBProofs, so everything proved there holds  *)
(* of the whole system; Party A's state is well typed; what a client is    *)
(* given as signed was authorised and is on record; and what it was told   *)
(* is rejected it is never given.                                          *)
(***************************************************************************)
EXTENDS Signing, TLAPS

BP == INSTANCE PartyBProofs

Elems(q) == {q[i] : i \in 1..Len(q)}

\* Party B's answer to a poll, and what a poll of Party A's holds.
StatusReply == [status : Statuses, payload : {"nil", "sigJSON"}]
PollReply   == [status : Statuses, payload : Payload]
AnswerType  == [status : (Statuses \ {"none"}) \cup {"error", "notFound"}, payload : Payload]

\* What travels to Party B and to Party A.
BMsg == [kind : {"derive"}, tx : Path, arg : {None}]
        \cup [kind : {"sign", "status"}, tx : Tx, arg : {None}]
        \cup [kind : {"ready", "round"}, tx : Tx, arg : Bytes]
AMsg == [kind : {"ack", "approved"}, tx : Tx, arg : {None}]
        \cup [kind : {"response"}, tx : Tx, arg : {"approve", "reject", "escalate"}]
        \cup [kind : {"statusResp"}, tx : Tx, arg : StatusReply]
        \cup [kind : {"round"}, tx : Tx, arg : Bytes]

WireInv == toB \in Seq(BMsg) /\ toA \in Seq(AMsg)

\* The shape of Party A's state; ATypeOK's bound on the results handed out
\* comes from CallInv.
AShape ==
    /\ aKeys \subseteq Path
    /\ calls \in [Tx -> {"idle", "sent", "approve", "reject", "escalate",
                         "saving", "signing", "done"}]
    /\ qStatus \in [Tx -> Statuses] /\ qTx \in [Tx -> Payload]
    /\ aStatus \in [Tx -> {"none", "pending_review", "signed"}] /\ aTx \in [Tx -> Payload]
    /\ run \in [Tx -> {"none", "pushed", "ignored", "start", "waitAck", "tss",
                       "signed", "failed", "storing", "ended"}]
    /\ aMsg \in [Tx -> Bytes \cup {None}]
    /\ aGot \in [Tx -> 0..Rounds]
    /\ incoming \in Seq(ARound) /\ Len(incoming) <= IncomingCap
    /\ polls \in [Tx -> {"idle", "querying", "replied", "fetched"}]
    /\ asked \in [Tx -> 0..MaxPolls]
    /\ reply \in [Tx -> PollReply]
    /\ handed \in [Tx -> Nat]
    /\ answers \in [Tx -> SUBSET AnswerType]

\* Runs that have not computed their final bytes.
Fresh == {"none", "pushed", "ignored", "start"}

\* Party A's call, run and poll of a transaction against each other and
\* against Party B's reply.
CallInv(t) ==
    /\ calls[t] \in {"approve", "reject", "escalate"} => resp[t] = calls[t]
    /\ run[t] # "none" => \/ resp[t] = "escalate"
                          \/ (resp[t] = "approve" /\ calls[t] \in {"signing", "done"})
    /\ run[t] \in Fresh => aMsg[t] = None /\ aGot[t] = 0
    /\ run[t] \in {"waitAck", "tss"} => aMsg[t] \in Bytes /\ aGot[t] < Rounds
    /\ polls[t] \in {"querying", "replied"} => qStatus[t] # "none"
    /\ polls[t] = "fetched" => reply[t].status # "none"
    /\ handed[t] + (IF polls[t] = "idle" THEN 0 ELSE 1)
         <= asked[t] + (IF calls[t] = "done" THEN 1 ELSE 0)

\* What is under way between the parties is true of the one that sent it, and
\* stays so.
MessageInv ==
    /\ \A m \in Elems(toA) :
         /\ m.kind = "response" => m.arg = resp[m.tx]
         /\ m.kind = "approved" => resp[m.tx] = "escalate"
         /\ m.kind = "statusResp" /\ m.arg.status = "rejected" => status[m.tx] = "rejected"
    /\ \A m \in Elems(toB) : m.kind \in {"ready", "round"} => m.arg = aMsg[m.tx]
    /\ \A t \in Tx : reply[t].status = "rejected" => status[t] = "rejected"

\* Every byte string Party B holds for a transaction is the one Party A signs.
ByteInv ==
    /\ \A f \in feeding : f.round.bytes = aMsg[f.round.tx]
    /\ \A r \in handing : r.bytes = aMsg[r.tx]
    /\ \A t \in Tx : \A r \in Elems(inbox[t]) : r.bytes = aMsg[r.tx]
    /\ \A t \in Tx : readyCh[t] \in {None, aMsg[t]} /\ msg[t] \in {None, aMsg[t]}

\* Nothing at Party A, on the wire or in the table says that t is signed or can
\* make it so.
NoEvidence(t) ==
    /\ status[t] # "signed"
    /\ \A m \in Elems(toA) :
         m.tx = t => m.kind # "round" /\ ~(m.kind = "statusResp" /\ m.arg.status = "signed")
    /\ \A r \in Elems(incoming) : r.tx # t
    /\ aGot[t] = 0 /\ run[t] \notin {"signed", "storing"}
    /\ qStatus[t] # "signed" /\ aStatus[t] # "signed" /\ reply[t].status # "signed"
    /\ \A a \in answers[t] : a.status # "signed"

\* Party B's session of t has not sent a round, or it failed undisturbed and
\* therefore before it sent one.
Lost(t) == sess[t] \in BP!Unbegun \/ (Undisturbed(t) /\ BP!Beaten(t))

EvidenceInv(t) == Lost(t) => NoEvidence(t)

\* The run of t has produced the signed transaction.
Succeeded(t) ==
    \/ run[t] \in {"signed", "storing"}
    \/ qTx[t] = "tx" \/ aTx[t] = "tx" \/ reply[t].payload = "tx"
    \/ Given(t, "signed", "tx")

\* A rejection that a client was told, or will be told from the queue, is Party
\* B's, or that of a run that ended without success.
RejectInv(t) ==
    /\ run[t] \notin {"signed", "storing", "ended"} => ~Succeeded(t)
    /\ (qStatus[t] = "rejected" /\ qTx[t] = "nil") \/ Given(t, "rejected", "nil")
         => \/ status[t] = "rejected"
            \/ resp[t] = "reject"
            \/ (run[t] = "ended" /\ ~Succeeded(t))

BInv == BP!TypeOK /\ BP!IndInv /\ \A t \in Tx : BP!RecordInv(t)

Inv ==
    /\ BInv /\ WireInv /\ AShape
    /\ \A t \in Tx : CallInv(t)
    /\ MessageInv
    /\ ByteInv
    /\ \A t \in Tx : EvidenceInv(t) /\ RejectInv(t)
-----------------------------------------------------------------------------

\* The tuples of variables are always written out.
USE DEF aVars, outVars, callVars, queueVars, runVars, pollVars, bVars, wires,
        B!storeVars, B!tableVars, B!botVars, B!chatVars, B!reqVars, B!mapVars, B!chanVars,
        B!sessVars, B!loopVars, B!routeVars, BP!storeVars, BP!tableVars, BP!botVars, BP!chatVars,
        BP!reqVars, BP!mapVars, BP!chanVars, BP!sessVars, BP!loopVars, BP!routeVars

\* Party B's assumptions on its constants are among Signing's.
LEMMA BAssumption == BP!PartyBAssumption
  BY PartyAAssumption, SigningAssumption DEF BP!PartyBAssumption

\* What is in a queue after something is put in, taken out, or all is lost.
LEMMA ElemsAppend ==
  ASSUME NEW S, NEW q \in Seq(S), NEW x \in S
  PROVE  Append(q, x) \in Seq(S) /\ Elems(Append(q, x)) = Elems(q) \cup {x}
<1>1. /\ Append(q, x) \in Seq(S) /\ Len(Append(q, x)) = Len(q) + 1 /\ Len(q) \in Nat
      /\ \A i \in 1..Len(q) : Append(q, x)[i] = q[i]
      /\ Append(q, x)[Len(q) + 1] = x
  OBVIOUS
<1> QED
  BY <1>1 DEF Elems

LEMMA ElemsTail ==
  ASSUME NEW S, NEW q \in Seq(S), q # <<>>
  PROVE  /\ Head(q) \in S /\ Head(q) \in Elems(q)
         /\ Tail(q) \in Seq(S) /\ Elems(Tail(q)) \subseteq Elems(q)
         /\ Len(Tail(q)) = Len(q) - 1
<1>1. /\ Head(q) = q[1] /\ Len(q) \in Nat \ {0} /\ Tail(q) \in Seq(S)
      /\ Len(Tail(q)) = Len(q) - 1 /\ \A i \in 1..Len(Tail(q)) : Tail(q)[i] = q[i + 1]
  OBVIOUS
<1>2. Head(q) \in Elems(q)
  BY <1>1 DEF Elems
<1>3. ASSUME NEW e \in Elems(Tail(q)) PROVE e \in Elems(q)
  <2>1. PICK i \in 1..Len(Tail(q)) : e = Tail(q)[i]
    BY <1>3 DEF Elems
  <2>2. i + 1 \in 1..Len(q) /\ e = q[i + 1]
    BY <1>1, <2>1
  <2> QED
    BY <2>2 DEF Elems
<1> QED
  BY <1>1, <1>2, <1>3

LEMMA ElemsEmpty == Elems(<<>>) = {}
  BY DEF Elems

LEMMA ElemsTyped ==
  ASSUME NEW S, NEW q \in Seq(S)
  PROVE  Elems(q) \subseteq S
  BY DEF Elems

\* Party B's own steps, through the instance that carries its theorems.
LEMMA BSteps ==
  ASSUME BInv, [BP!Next]_(BP!vars)
  PROVE  BInv' /\ \A t \in Tx : BP!Moves(t)
<1>1. BP!TypeOK'
  BY BAssumption, BP!TypeStep DEF BInv
<1>2. BP!IndInv'
  BY <1>1, BAssumption, BP!IndStep DEF BInv
<1>3. \A t \in Tx : BP!Moves(t) /\ BP!RecordInv(t)'
  BY <1>1, BAssumption, BP!MovesStep DEF BInv
<1> QED
  BY <1>1, <1>2, <1>3 DEF BInv

LEMMA BInitial == Init => BInv
<1>1. B!Init => BP!Init
  BY DEF B!Init, BP!Init, B!Seeds, BP!Seeds
<1> QED
  BY <1>1, BAssumption, BP!TypeInit, BP!IndInit, BP!RecordInit DEF Init, BInv

-----------------------------------------------------------------------------
(* The steps of Party B's side.                                            *)

BSide ==
    \/ BReceives \/ (\E f \in feeding : BFeeds(f)) \/ (\E r \in handing : BHandsReady(r))
    \/ BBotStep \/ BOwner \/ BRestarts
    \/ \E t \in Tx : BStep(t) \/ BTelegramStep(t) \/ BTssError(t)

\* The kinds of message tell their fields apart.
LEMMA BMsgFields ==
  ASSUME NEW m \in BMsg
  PROVE  /\ m = Msg(m.kind, m.tx, m.arg)
         /\ m.kind \in {"derive", "sign", "status", "ready", "round"}
         /\ m.kind = "derive" => m.tx \in Path
         /\ m.kind # "derive" => m.tx \in Tx
         /\ m.kind \in {"ready", "round"} => m.arg \in Bytes
  BY DEF BMsg, Msg

LEMMA AMsgFields ==
  ASSUME NEW m \in AMsg
  PROVE  /\ m.tx \in Tx
         /\ m.kind = "response" => m.arg \in {"approve", "reject", "escalate"}
         /\ m.kind = "statusResp" => m.arg \in StatusReply
         /\ m.kind = "round" => m.arg \in Bytes
  BY DEF AMsg

\* Every step of Party B's side is a step of PartyB: the read loop hands it only
\* messages of the right kind, and what the composition adds only restricts it.
LEMMA BSideIsPartyB == ASSUME WireInv, BSide PROVE [BP!Next]_(BP!vars)
<1>1. CASE BReceives
  <2> DEFINE m == Head(toB)
  <2>1. m \in BMsg
    BY <1>1, ElemsTail DEF BReceives, WireInv
  <2>2. m = Msg(m.kind, m.tx, m.arg)
    BY <2>1, BMsgFields
  <2>3. CASE m.kind = "sign" /\ B!ReceiveSignRequest(m.tx)
    <3>1. m.tx \in Tx
      BY <2>1, <2>3, BMsgFields
    <3>2. BP!ReceiveSignRequest(m.tx)
      BY <2>3 DEF B!ReceiveSignRequest, BP!ReceiveSignRequest
    <3> QED
      BY <3>1, <3>2 DEF BP!Next
  <2>4. CASE m.kind = "ready" /\ B!HandleSignReady(m.tx, m.arg)
    <3>1. m.tx \in Tx /\ m.arg \in Bytes
      BY <2>1, <2>4, BMsgFields
    <3>2. BP!HandleSignReady(m.tx, m.arg)
      BY <2>4 DEF B!HandleSignReady, BP!HandleSignReady, B!Cardinality, BP!Cardinality
    <3> QED
      BY <3>1, <3>2 DEF BP!Next
  <2>5. CASE m.kind = "round" /\ B!HandleTSSRound([tx |-> m.tx, bytes |-> m.arg])
    <3>1. [tx |-> m.tx, bytes |-> m.arg] \in BP!Round
      BY <2>1, <2>5, BMsgFields DEF BP!Round
    <3>2. BP!HandleTSSRound([tx |-> m.tx, bytes |-> m.arg])
      BY <2>5 DEF B!HandleTSSRound, BP!HandleTSSRound, B!Cardinality, BP!Cardinality
    <3> QED
      BY <3>1, <3>2 DEF BP!Next
  <2>6. CASE m.kind = "derive" /\ B!HandleDeriveRequest(m.tx)
    <3>1. m.tx \in Path
      BY <2>1, <2>6, BMsgFields
    <3>2. BP!HandleDeriveRequest(m.tx)
      BY <2>6 DEF B!HandleDeriveRequest, BP!HandleDeriveRequest
    <3> QED
      BY <3>1, <3>2 DEF BP!Next
  <2>7. CASE UNCHANGED bVars
    BY <2>7 DEF BP!vars
  <2> QED
    BY <1>1, <2>3, <2>4, <2>5, <2>6, <2>7 DEF BReceives
<1>2. ASSUME NEW f \in feeding, BFeeds(f) PROVE BP!Next
  <2>1. ASSUME B!FeedMessage(f) PROVE BP!Next
    <3>1. BP!FeedMessage(f)
      BY <2>1 DEF B!FeedMessage, BP!FeedMessage
    <3> QED
      BY <3>1 DEF BP!Next
  <2> QED
    BY <1>2, <2>1 DEF BFeeds
<1>3. ASSUME NEW t \in Tx, BReplies(t) PROVE BP!Next
  <2>1. ASSUME B!Reply(t) PROVE BP!Next
    <3>1. BP!Reply(t)
      BY <2>1 DEF B!Reply, BP!Reply
    <3> QED
      BY <3>1 DEF BP!Next, BP!RequestStep
  <2> QED
    BY <1>3, <2>1 DEF BReplies
<1>4. ASSUME NEW t \in Tx, BPushes(t) PROVE BP!Next
  <2>1. ASSUME B!PushApproved(t) PROVE BP!Next
    <3>1. BP!PushApproved(t)
      BY <2>1 DEF B!PushApproved, BP!PushApproved
    <3> QED
      BY <3>1 DEF BP!Next, BP!EscalationStep
  <2> QED
    BY <1>4, <2>1 DEF BPushes
<1>5. ASSUME NEW t \in Tx, BBeginsTss(t) PROVE BP!Next
  <2>1. ASSUME B!LoadKey(t) PROVE BP!Next
    <3>1. BP!LoadKey(t)
      BY <2>1 DEF B!LoadKey, BP!LoadKey
    <3> QED
      BY <3>1 DEF BP!Next, BP!SessionStep
  <2> QED
    BY <1>5, <2>1 DEF BBeginsTss
<1>6. ASSUME NEW t \in Tx, BTakesRound(t) PROVE BP!Next
  <2>1. ASSUME B!RoundAccepted(t) PROVE BP!Next
    <3>1. BP!RoundAccepted(t)
      BY <2>1 DEF B!RoundAccepted, BP!RoundAccepted, B!SignReturns, BP!SignReturns
    <3> QED
      BY <3>1 DEF BP!Next, BP!SessionStep
  <2> QED
    BY <1>6, <2>1 DEF BTakesRound
<1>7. ASSUME NEW t \in Tx, BRequestStep(t) PROVE BP!Next
  <2>1. ASSUME B!AnalyzeReject(t) PROVE BP!Next
    <3>1. BP!AnalyzeReject(t)
      BY <2>1 DEF B!AnalyzeReject, BP!AnalyzeReject, B!WriteStatus, BP!WriteStatus
    <3> QED
      BY <3>1 DEF BP!Next, BP!RequestStep
  <2>2. ASSUME B!AnalyzePass(t) PROVE BP!Next
    <3>1. BP!AnalyzePass(t)
      BY <2>2 DEF B!AnalyzePass, BP!AnalyzePass
    <3> QED
      BY <3>1 DEF BP!Next, BP!RequestStep
  <2>3. ASSUME B!RouteAuto(t) PROVE BP!Next
    <3>1. BP!RouteAuto(t)
      BY <2>3 DEF B!RouteAuto, BP!RouteAuto, B!AutoApproves, BP!AutoApproves, B!WriteStatus,
         BP!WriteStatus
    <3> QED
      BY <3>1 DEF BP!Next, BP!RequestStep
  <2>4. ASSUME B!StartAuto(t) PROVE BP!Next
    <3>1. BP!StartAuto(t)
      BY <2>4 DEF B!StartAuto, BP!StartAuto, B!StartSigning, BP!StartSigning
    <3> QED
      BY <3>1 DEF BP!Next, BP!RequestStep
  <2>5. ASSUME B!EscalateNotify(t) PROVE BP!Next
    <3>1. BP!EscalateNotify(t)
      BY <2>5 DEF B!EscalateNotify, BP!EscalateNotify, B!Analyzed, BP!Analyzed, B!AutoApproves,
         BP!AutoApproves
    <3> QED
      BY <3>1 DEF BP!Next, BP!RequestStep
  <2>7. ASSUME B!RegisterPending(t) PROVE BP!Next
    <3>1. BP!RegisterPending(t)
      BY <2>7 DEF B!RegisterPending, BP!RegisterPending
    <3> QED
      BY <3>1 DEF BP!Next, BP!RequestStep
  <2>8. ASSUME B!RegisterRequest(t) PROVE BP!Next
    <3>1. BP!RegisterRequest(t)
      BY <2>8 DEF B!RegisterRequest, BP!RegisterRequest
    <3> QED
      BY <3>1 DEF BP!Next, BP!RequestStep
  <2> QED
    BY <1>7, <2>1, <2>2, <2>3, <2>4, <2>5, <2>7, <2>8 DEF BRequestStep
<1>8. ASSUME NEW t \in Tx, BEscalationStep(t) PROVE BP!Next
  <2>1. ASSUME B!DecideApprove(t) PROVE BP!Next
    <3>1. BP!DecideApprove(t)
      BY <2>1 DEF B!DecideApprove, BP!DecideApprove, B!WriteStatus, BP!WriteStatus
    <3> QED
      BY <3>1 DEF BP!Next, BP!EscalationStep
  <2>2. ASSUME B!DecideReject(t) PROVE BP!Next
    <3>1. BP!DecideReject(t)
      BY <2>2 DEF B!DecideReject, BP!DecideReject, B!WriteStatus, BP!WriteStatus
    <3> QED
      BY <3>1 DEF BP!Next, BP!EscalationStep
  <2>3. ASSUME B!EscalationTimeout(t) PROVE BP!Next
    <3>1. BP!EscalationTimeout(t)
      BY <2>3 DEF B!EscalationTimeout, BP!EscalationTimeout, B!WriteStatus, BP!WriteStatus
    <3> QED
      BY <3>1 DEF BP!Next, BP!EscalationStep
  <2>4. ASSUME B!StartEscalated(t) PROVE BP!Next
    <3>1. BP!StartEscalated(t)
      BY <2>4 DEF B!StartEscalated, BP!StartEscalated, B!StartSigning, BP!StartSigning
    <3> QED
      BY <3>1 DEF BP!Next, BP!EscalationStep
  <2>5. ASSUME B!Unpend(t) PROVE BP!Next
    <3>1. BP!Unpend(t)
      BY <2>5 DEF B!Unpend, BP!Unpend
    <3> QED
      BY <3>1 DEF BP!Next, BP!EscalationStep
  <2>6. ASSUME B!Uncache(t) PROVE BP!Next
    <3>1. BP!Uncache(t)
      BY <2>6 DEF B!Uncache, BP!Uncache
    <3> QED
      BY <3>1 DEF BP!Next, BP!EscalationStep
  <2> QED
    BY <1>8, <2>1, <2>2, <2>3, <2>4, <2>5, <2>6 DEF BEscalationStep
<1>9. ASSUME NEW t \in Tx, BSessionStep(t) PROVE BP!Next
  <2>1. ASSUME B!AwaitReady(t) PROVE BP!Next
    <3>1. BP!AwaitReady(t)
      BY <2>1 DEF B!AwaitReady, BP!AwaitReady
    <3> QED
      BY <3>1 DEF BP!Next, BP!SessionStep
  <2>2. ASSUME B!TakeReady(t) PROVE BP!Next
    <3>1. BP!TakeReady(t)
      BY <2>2 DEF B!TakeReady, BP!TakeReady
    <3> QED
      BY <3>1 DEF BP!Next, BP!SessionStep
  <2>3. ASSUME B!KeyMissing(t) PROVE BP!Next
    <3>1. BP!KeyMissing(t)
      BY <2>3 DEF B!KeyMissing, BP!KeyMissing, B!SignReturns, BP!SignReturns
    <3> QED
      BY <3>1 DEF BP!Next, BP!SessionStep
  <2>4. ASSUME B!RoundForeign(t) PROVE BP!Next
    <3>1. BP!RoundForeign(t)
      BY <2>4 DEF B!RoundForeign, BP!RoundForeign, B!SignReturns, BP!SignReturns
    <3> QED
      BY <3>1 DEF BP!Next, BP!SessionStep
  <2>5. ASSUME B!StoreOutcome(t) PROVE BP!Next
    <3>1. BP!StoreOutcome(t)
      BY <2>5 DEF B!StoreOutcome, BP!StoreOutcome, B!WriteStatus, BP!WriteStatus
    <3> QED
      BY <3>1 DEF BP!Next, BP!SessionStep
  <2>6. ASSUME B!CloseSession(t) PROVE BP!Next
    <3>1. BP!CloseSession(t)
      BY <2>6 DEF B!CloseSession, BP!CloseSession
    <3> QED
      BY <3>1 DEF BP!Next, BP!SessionStep
  <2>7. ASSUME B!ReadyTimeout(t) PROVE BP!Next
    <3>1. BP!ReadyTimeout(t)
      BY <2>7 DEF B!ReadyTimeout, BP!ReadyTimeout, B!SignReturns, BP!SignReturns
    <3> QED
      BY <3>1 DEF BP!Next, BP!SessionStep
  <2> QED
    BY <1>9, <2>1, <2>2, <2>3, <2>4, <2>5, <2>6, <2>7 DEF BSessionStep
<1>10. ASSUME NEW t \in Tx, BTssError(t) PROVE BP!Next
  <2>1. ASSUME B!TssError(t) PROVE BP!Next
    <3>1. BP!TssError(t)
      BY <2>1 DEF B!TssError, BP!TssError, B!SignReturns, BP!SignReturns
    <3> QED
      BY <3>1 DEF BP!Next
  <2> QED
    BY <1>10, <2>1 DEF BTssError
<1>11. ASSUME BBotStep PROVE BP!Next
  <2>1. ASSUME B!WhitelistAddrs PROVE BP!Next
    <3>1. BP!WhitelistAddrs
      BY <2>1 DEF B!WhitelistAddrs, BP!WhitelistAddrs
    <3> QED
      BY <3>1 DEF BP!Next, BP!BotStep
  <2>2. ASSUME B!LookupDecision PROVE BP!Next
    <3>1. BP!LookupDecision
      BY <2>2 DEF B!LookupDecision, BP!LookupDecision, B!BotReturns, BP!BotReturns
    <3> QED
      BY <3>1 DEF BP!Next, BP!BotStep
  <2>3. ASSUME B!SendDecision PROVE BP!Next
    <3>1. BP!SendDecision
      BY <2>3 DEF B!SendDecision, BP!SendDecision, B!BotReturns, BP!BotReturns
    <3> QED
      BY <3>1 DEF BP!Next, BP!BotStep
  <2> QED
    BY <1>11, <2>1, <2>2, <2>3 DEF BBotStep, B!BotStep
<1>12. ASSUME NEW t \in Tx, NEW k \in Buttons, B!Press(t, k) PROVE BP!Next
  <2>1. ASSUME B!Press(t, k) PROVE BP!Next
    <3>1. BP!Press(t, k)
      BY <2>1 DEF B!Press, BP!Press
    <3> QED
      BY <3>1 DEF BP!Next
  <2> QED
    BY <1>12, <2>1 DEF BOwner
<1>13. ASSUME NEW v \in BOOLEAN, B!SetAutoMode(v) PROVE BP!Next
  <2>1. ASSUME B!SetAutoMode(v) PROVE BP!Next
    <3>1. BP!SetAutoMode(v)
      BY <2>1 DEF B!SetAutoMode, BP!SetAutoMode
    <3> QED
      BY <3>1 DEF BP!Next
  <2> QED
    BY <1>13, <2>1 DEF BOwner
<1>14. ASSUME BRestarts PROVE BP!Next
  <2>1. ASSUME B!Restart PROVE BP!Next
    <3>1. BP!Restart
      BY <2>1 DEF B!Restart, BP!Restart, B!BotReturns, BP!BotReturns, B!Seeds, BP!Seeds
    <3> QED
      BY <3>1 DEF BP!Next
  <2> QED
    BY <1>14, <2>1 DEF BRestarts
<1>15. ASSUME NEW r \in handing, BHandsReady(r) PROVE BP!Next
  <2>1. ASSUME B!HandReady(r) PROVE BP!Next
    <3>1. BP!HandReady(r)
      BY <2>1 DEF B!HandReady, BP!HandReady
    <3> QED
      BY <3>1 DEF BP!Next
  <2> QED
    BY <1>15, <2>1 DEF BHandsReady
<1>16. ASSUME NEW t \in Tx, BTelegramStep(t) PROVE BP!Next
  <2>1. ASSUME B!AutoNotified(t) PROVE BP!Next
    <3>1. BP!AutoNotified(t)
      BY <2>1 DEF B!AutoNotified, BP!AutoNotified
    <3> QED
      BY <3>1 DEF BP!Next, BP!TelegramStep
  <2>2. ASSUME B!NotifySent(t) PROVE BP!Next
    <3>1. BP!NotifySent(t)
      BY <2>2 DEF B!NotifySent, BP!NotifySent
    <3> QED
      BY <3>1 DEF BP!Next, BP!TelegramStep
  <2>3. ASSUME B!EscalateFail(t) PROVE BP!Next
    <3>1. BP!EscalateFail(t)
      BY <2>3 DEF B!EscalateFail, BP!EscalateFail, B!Analyzed, BP!Analyzed, B!AutoApproves,
         BP!AutoApproves, B!Refuse, BP!Refuse, B!WriteStatus, BP!WriteStatus
    <3> QED
      BY <3>1 DEF BP!Next, BP!TelegramStep
  <2> QED
    BY <1>16, <2>1, <2>2, <2>3 DEF BTelegramStep, B!TelegramStep
<1> QED
  BY <1>1, <1>2, <1>3, <1>4, <1>5, <1>6, <1>7, <1>8, <1>9, <1>10, <1>11, <1>12, <1>13,
     <1>14, <1>15, <1>16 DEF BSide, BStep, BOwner

\* A message that Party B sends is true when it is sent.
Honest(m) ==
    /\ m.kind = "response" => m.arg = resp'[m.tx]
    /\ m.kind = "approved" => resp'[m.tx] = "escalate"
    /\ m.kind = "statusResp" => m.arg.status \in {status'[m.tx], "none"}
    /\ m.kind = "round" => sess'[m.tx] = "tss"

\* The connection after a step: what was under way, less what was read, and
\* what was sent now.
Carried == /\ WireInv'
           /\ Elems(toB') \subseteq Elems(toB)
           /\ \A m \in Elems(toA') : m \in Elems(toA) \/ Honest(m)

\* Sending one true and well-typed message.
LEMMA BSends ==
  ASSUME WireInv, NEW m \in AMsg, Honest(m), toA' = Append(toA, m),
         toB' = toB \/ (toB # <<>> /\ toB' = Tail(toB))
  PROVE  Carried
<1>1. toA' \in Seq(AMsg) /\ Elems(toA') = Elems(toA) \cup {m}
  BY ElemsAppend DEF WireInv
<1>2. toB' \in Seq(BMsg) /\ Elems(toB') \subseteq Elems(toB)
  BY ElemsTail DEF WireInv
<1> QED
  BY <1>1, <1>2 DEF Carried, WireInv

\* Sending nothing.
LEMMA BQuiet ==
  ASSUME WireInv, toA' = toA, toB' = toB \/ (toB # <<>> /\ toB' = Tail(toB))
  PROVE  Carried
<1>1. toB' \in Seq(BMsg) /\ Elems(toB') \subseteq Elems(toB)
  BY ElemsTail DEF WireInv
<1> QED
  BY <1>1 DEF Carried, WireInv

\* Losing the connection.
LEMMA Cut ==
  ASSUME toA' = <<>>, toB' = <<>>
  PROVE  WireInv' /\ Elems(toA') = {} /\ Elems(toB') = {}
  BY ElemsEmpty DEF WireInv

\* Party B's side leaves Party A alone and sends only what is true.
LEMMA BWires == ASSUME BInv, WireInv, BSide PROVE UNCHANGED aVars /\ Carried
<1>0. /\ BP!TypeOK
      /\ \A t \in Tx : BP!RequestInv(t) /\ BP!RecordInv(t)
  BY DEF BInv, BP!IndInv
<1>1. CASE BReceives
  <2> DEFINE m == Head(toB)
  <2>1. m \in BMsg /\ toB # <<>> /\ toB' = Tail(toB) /\ UNCHANGED aVars
    BY <1>1, ElemsTail DEF BReceives, WireInv
  <2>2. CASE toA' = toA
    BY <2>1, <2>2, BQuiet
  <2>3. CASE m.kind = "ready" /\ toA' = Append(toA, Msg("ack", m.tx, None))
    <3>1. Msg("ack", m.tx, None) \in AMsg
      BY <2>1, <2>3, BMsgFields DEF AMsg, Msg
    <3>2. Honest(Msg("ack", m.tx, None))
      BY DEF Honest, Msg
    <3> QED
      BY <2>1, <2>3, <3>1, <3>2, BSends
  <2>4. ASSUME m.kind = "status", UNCHANGED bVars,
               NEW a \in B!TxStatuses(m.tx), toA' = Append(toA, Msg("statusResp", m.tx, a))
        PROVE  Carried
    <3>1. m.tx \in Tx
      BY <2>1, <2>4, BMsgFields
    <3>2. a \in StatusReply /\ a.status \in {status[m.tx], "none"}
      BY <1>0, <2>4, <3>1 DEF B!TxStatuses, StatusReply, Statuses, BP!TypeOK, BP!Status
    <3>3. Msg("statusResp", m.tx, a) \in AMsg
      BY <3>1, <3>2 DEF AMsg, Msg
    <3>4. Honest(Msg("statusResp", m.tx, a))
      BY <2>4, <3>2 DEF Honest, Msg
    <3> QED
      BY <2>1, <2>4, <3>3, <3>4, BSends
  <2> QED
    BY <1>1, <2>1, <2>2, <2>3, <2>4 DEF BReceives
<1>2. ASSUME NEW f \in feeding, BFeeds(f) PROVE UNCHANGED aVars /\ Carried
  BY <1>2, BQuiet DEF BFeeds
<1>3. ASSUME NEW t \in Tx, BReplies(t) PROVE UNCHANGED aVars /\ Carried
  <2>1. handler[t] = "reply" /\ resp' = resp
    BY <1>3 DEF BReplies, B!Reply
  <2>2. resp[t] \in {"approve", "reject", "escalate"}
    BY <1>0, <2>1 DEF BP!RequestInv, BP!TypeOK
  <2>3. Msg("response", t, resp[t]) \in AMsg /\ Honest(Msg("response", t, resp[t]))
    BY <2>1, <2>2 DEF AMsg, Msg, Honest
  <2>4. CASE toA' = toA
    BY <1>3, <2>4, BQuiet DEF BReplies
  <2>5. CASE toA' = Append(toA, Msg("response", t, resp[t]))
    BY <1>3, <2>3, <2>5, BSends DEF BReplies
  <2> QED
    BY <1>3, <2>4, <2>5 DEF BReplies
<1>4. ASSUME NEW t \in Tx, BPushes(t) PROVE UNCHANGED aVars /\ Carried
  <2>1. resp'[t] = "escalate"
    BY <1>0, <1>4 DEF BPushes, B!PushApproved, BP!RequestInv
  <2>2. Msg("approved", t, None) \in AMsg /\ Honest(Msg("approved", t, None))
    BY <2>1 DEF AMsg, Msg, Honest
  <2> QED
    BY <1>4, <2>2, BSends DEF BPushes, ToA
<1>5. ASSUME NEW t \in Tx, BBeginsTss(t) PROVE UNCHANGED aVars /\ Carried
  <2>1. sess[t] = "ready" /\ sess'[t] = "tss"
    BY <1>0, <1>5 DEF BBeginsTss, B!LoadKey, BP!TypeOK
  <2>2. msg[t] \in Bytes
    BY <1>0, <2>1 DEF BP!RecordInv, BP!TypeOK
  <2>3. Msg("round", t, msg[t]) \in AMsg /\ Honest(Msg("round", t, msg[t]))
    BY <2>1, <2>2 DEF AMsg, Msg, Honest
  <2> QED
    BY <1>5, <2>3, BSends DEF BBeginsTss, ToA
<1>6. ASSUME NEW t \in Tx, BTakesRound(t) PROVE UNCHANGED aVars /\ Carried
  <2>1. sess[t] = "tss" /\ got'[t] = got[t] + 1
    BY <1>0, <1>6 DEF BTakesRound, B!RoundAccepted, BP!TypeOK
  <2>2. msg[t] \in Bytes
    BY <1>0, <2>1 DEF BP!RecordInv, BP!TypeOK
  <2>3. CASE got'[t] < Rounds
    <3>1. sess'[t] = "tss"
      BY <1>6, <2>1, <2>3, PartyAAssumption DEF BTakesRound, B!RoundAccepted
    <3>2. Msg("round", t, msg[t]) \in AMsg /\ Honest(Msg("round", t, msg[t]))
      BY <2>2, <3>1 DEF AMsg, Msg, Honest
    <3> QED
      BY <1>6, <2>3, <3>2, BSends DEF BTakesRound
  <2>4. CASE ~(got'[t] < Rounds)
    BY <1>6, <2>4, BQuiet DEF BTakesRound
  <2> QED
    BY <2>3, <2>4
<1>7. ASSUME NEW t \in Tx,
             BRequestStep(t) \/ BEscalationStep(t) \/ BSessionStep(t) \/ BTssError(t)
      PROVE  UNCHANGED aVars /\ Carried
  BY <1>7, BQuiet DEF BRequestStep, BEscalationStep, BSessionStep, BTssError
<1>8. CASE BBotStep \/ BOwner
  BY <1>8, BQuiet DEF BBotStep, BOwner
<1>9. CASE BRestarts
  BY <1>9, Cut DEF BRestarts, Carried
<1>10. ASSUME NEW r \in handing, BHandsReady(r) PROVE UNCHANGED aVars /\ Carried
  <2>1. r.tx \in Tx
    BY <1>0 DEF BP!TypeOK, BP!Ready
  <2>2. Msg("ack", r.tx, None) \in AMsg /\ Honest(Msg("ack", r.tx, None))
    BY <2>1 DEF AMsg, Msg, Honest
  <2>3. CASE toA' = toA
    BY <1>10, <2>3, BQuiet DEF BHandsReady
  <2>4. CASE toA' = Append(toA, Msg("ack", r.tx, None))
    BY <1>10, <2>2, <2>4, BSends DEF BHandsReady
  <2> QED
    BY <1>10, <2>3, <2>4 DEF BHandsReady
<1>11. ASSUME NEW t \in Tx, BTelegramStep(t) PROVE UNCHANGED aVars /\ Carried
  BY <1>11, BQuiet DEF BTelegramStep
<1> QED
  BY <1>1, <1>2, <1>3, <1>4, <1>5, <1>6, <1>7, <1>8, <1>9, <1>10, <1>11 DEF BSide, BStep

\* Party B only ever holds the bytes Party A sent it, and hands a session only
\* rounds that were sent.
LEMMA BBytes == ASSUME BInv, WireInv, MessageInv, ByteInv, BSide PROVE ByteInv'
<1>0. BP!TypeOK /\ aMsg' = aMsg
  BY BWires DEF BInv
<1> DEFINE still == UNCHANGED <<aMsg, feeding, handing, inbox, readyCh, msg>>
<1>1. ASSUME still PROVE ByteInv'
  BY <1>1 DEF ByteInv
<1> HIDE DEF still
<1>2. CASE BReceives
  <2> DEFINE m == Head(toB)
  <2>1. m \in BMsg /\ m \in Elems(toB)
    BY <1>2, ElemsTail DEF BReceives, WireInv
  <2>2. m.kind \in {"ready", "round"} => m.arg = aMsg[m.tx] /\ m.tx \in Tx
    BY <2>1, BMsgFields DEF MessageInv
  <2>3. CASE m.kind = "sign" /\ B!ReceiveSignRequest(m.tx)
    BY <1>0, <1>1, <2>3 DEF B!ReceiveSignRequest, still
  <2>4. CASE m.kind = "ready" /\ B!HandleSignReady(m.tx, m.arg)
    <3>1. /\ UNCHANGED <<feeding, inbox, readyCh, msg>>
          /\ \A r \in handing' : r \in handing \/ r = [tx |-> m.tx, bytes |-> m.arg]
      BY <2>4 DEF B!HandleSignReady
    <3> QED
      BY <1>0, <2>2, <2>4, <3>1 DEF ByteInv
  <2>5. CASE m.kind = "round" /\ B!HandleTSSRound([tx |-> m.tx, bytes |-> m.arg])
    <3>1. /\ UNCHANGED <<handing, inbox, readyCh, msg>>
          /\ \A f \in feeding' : f \in feeding \/ f.round = [tx |-> m.tx, bytes |-> m.arg]
      BY <2>5 DEF B!HandleTSSRound
    <3> QED
      BY <1>0, <2>2, <2>5, <3>1 DEF ByteInv
  <2>6. CASE m.kind = "derive" /\ B!HandleDeriveRequest(m.tx)
    BY <1>0, <1>1, <2>6 DEF B!HandleDeriveRequest, still
  <2>7. CASE UNCHANGED bVars
    BY <1>0, <1>1, <2>7 DEF still
  <2> QED
    BY <1>2, <2>3, <2>4, <2>5, <2>6, <2>7 DEF BReceives
<1>3. ASSUME NEW f \in feeding, BFeeds(f) PROVE ByteInv'
  <2>1. f.to \in Tx /\ f.round \in BP!Round /\ inbox[f.to] \in Seq(BP!Round)
    BY <1>0 DEF BP!TypeOK, BP!Feed
  <2>2. Elems(Append(inbox[f.to], f.round)) = Elems(inbox[f.to]) \cup {f.round}
    BY <2>1, ElemsAppend
  <2>3. /\ inbox' = [inbox EXCEPT ![f.to] = Append(@, f.round)]
        /\ feeding' \subseteq feeding /\ UNCHANGED <<handing, readyCh, msg>>
    BY <1>3 DEF BFeeds, B!FeedMessage
  <2>4. ASSUME NEW u \in Tx, NEW r \in Elems(inbox'[u]) PROVE r.bytes = aMsg[r.tx]
    BY <1>0, <2>1, <2>2, <2>3, <2>4 DEF ByteInv, BP!TypeOK
  <2> QED
    BY <1>0, <2>3, <2>4 DEF ByteInv
<1>4. ASSUME NEW t \in Tx, B!RoundAccepted(t) \/ B!RoundForeign(t) PROVE ByteInv'
  <2>1. inbox[t] \in Seq(BP!Round) /\ inbox[t] # <<>>
    BY <1>0, <1>4 DEF BP!TypeOK, B!RoundAccepted, B!RoundForeign
  <2>2. Elems(Tail(inbox[t])) \subseteq Elems(inbox[t])
    BY <2>1, ElemsTail
  <2>3. /\ inbox' = [inbox EXCEPT ![t] = Tail(@)] /\ UNCHANGED <<feeding, handing, msg>>
        /\ readyCh' \in {readyCh, [readyCh EXCEPT ![t] = None]}
    BY <1>4 DEF B!RoundAccepted, B!RoundForeign, B!SignReturns
  <2>4. ASSUME NEW u \in Tx, NEW r \in Elems(inbox'[u]) PROVE r.bytes = aMsg[r.tx]
    BY <1>0, <2>2, <2>3, <2>4 DEF ByteInv, BP!TypeOK
  <2> QED
    BY <1>0, <2>3, <2>4 DEF ByteInv, BP!TypeOK
<1>5. ASSUME NEW t \in Tx, BReplies(t) \/ BPushes(t) \/ BBeginsTss(t) PROVE ByteInv'
  BY <1>0, <1>1, <1>5 DEF BReplies, BPushes, BBeginsTss, B!Reply, B!PushApproved, B!LoadKey,
     still
<1>6. ASSUME NEW t \in Tx, BRequestStep(t) PROVE ByteInv'
  BY <1>0, <1>1, <1>6 DEF BRequestStep, B!AnalyzeReject, B!AnalyzePass, B!RouteAuto,
     B!StartAuto, B!StartSigning, B!EscalateNotify,
     B!RegisterPending, B!RegisterRequest, still
<1>7. ASSUME NEW t \in Tx, BEscalationStep(t) PROVE ByteInv'
  BY <1>0, <1>1, <1>7 DEF BEscalationStep, B!DecideApprove, B!DecideReject,
     B!EscalationTimeout, B!StartEscalated, B!StartSigning, B!Unpend, B!Uncache, still
<1>8. ASSUME NEW t \in Tx, B!AwaitReady(t) \/ B!StoreOutcome(t) PROVE ByteInv'
  BY <1>0, <1>1, <1>8 DEF B!AwaitReady, B!StoreOutcome, still
<1>9. ASSUME NEW t \in Tx,
             \/ B!TakeReady(t) \/ B!KeyMissing(t) \/ B!CloseSession(t)
             \/ B!ReadyTimeout(t) \/ B!TssError(t)
      PROVE  ByteInv'
  <2>1. /\ UNCHANGED <<feeding, handing, inbox>>
        /\ readyCh' \in {readyCh, [readyCh EXCEPT ![t] = None]}
        /\ msg' \in {msg, [msg EXCEPT ![t] = None], [msg EXCEPT ![t] = readyCh[t]]}
    BY <1>9 DEF B!TakeReady, B!KeyMissing, B!CloseSession, B!ReadyTimeout, B!TssError,
       B!SignReturns
  <2> QED
    BY ZenonT(30), <1>0, <2>1 DEF ByteInv, BP!TypeOK
<1>10. CASE BBotStep \/ BOwner
  BY <1>0, <1>1, <1>10 DEF BBotStep, BOwner, B!BotStep, B!WhitelistAddrs, B!LookupDecision,
     B!SendDecision, B!Press, B!SetAutoMode, still
<1>11. CASE BRestarts
  BY <1>0, <1>11, ElemsEmpty DEF BRestarts, B!Restart, ByteInv
<1>12. ASSUME NEW r \in handing, BHandsReady(r) PROVE ByteInv'
  <2>1. r.tx \in Tx /\ r.bytes = aMsg[r.tx]
    BY <1>0 DEF BP!TypeOK, BP!Ready, ByteInv
  <2>2. /\ readyCh' = [readyCh EXCEPT ![r.tx] = r.bytes]
        /\ handing' \subseteq handing /\ UNCHANGED <<feeding, inbox, msg>>
    BY <1>12 DEF BHandsReady, B!HandReady
  <2> QED
    BY <1>0, <2>1, <2>2 DEF ByteInv, BP!TypeOK
<1>13. ASSUME NEW t \in Tx, BTelegramStep(t) PROVE ByteInv'
  BY <1>0, <1>1, <1>13 DEF BTelegramStep, B!TelegramStep, B!AutoNotified, B!NotifySent,
     B!EscalateFail, B!Refuse, still
<1> QED
  BY <1>2, <1>3, <1>4, <1>5, <1>6, <1>7, <1>8, <1>9, <1>10, <1>11, <1>12, <1>13
     DEF BSide, BStep, BTakesRound, BSessionStep, BTssError

\* A session that takes rounds and is undisturbed does not fail: every round it
\* is handed is its own and about its own bytes.
LEMMA BCannotFail ==
  ASSUME BInv, ByteInv, AShape, \A u \in Tx : CallInv(u), BSide,
         NEW t \in Tx, Undisturbed(t), sess[t] = "tss"
  PROVE  sess'[t] # "failed"
<1>0. BP!TypeOK /\ BP!RecordInv(t)
  BY DEF BInv
<1>1. ASSUME NEW u \in Tx, NEW x, x # "failed", sess' = [sess EXCEPT ![u] = x]
      PROVE  sess'[t] # "failed"
  BY <1>0, <1>1 DEF BP!TypeOK
<1>2. ASSUME sess' = sess PROVE sess'[t] # "failed"
  BY <1>2
<1>3. ASSUME NEW u \in Tx, B!RoundForeign(u) PROVE sess'[t] # "failed"
  <2>1. CASE u # t
    BY <1>0, <1>3, <2>1 DEF B!RoundForeign, B!SignReturns, BP!TypeOK
  <2>2. CASE u = t
    <3>1. inbox[t] \in Seq(BP!Round) /\ inbox[t] # <<>>
      BY <1>0, <1>3, <2>2 DEF B!RoundForeign, BP!TypeOK
    <3> DEFINE r == Head(inbox[t])
    <3>2. r \in BP!Round /\ r \in Elems(inbox[t])
      BY <3>1, ElemsTail
    <3>3. r.tx \in Tx /\ r.bytes \in Bytes /\ r.bytes = aMsg[r.tx]
      BY <3>2 DEF BP!Round, ByteInv
    <3>4. run[r.tx] # "none"
      BY <3>3, PartyAAssumption DEF CallInv, Fresh
    <3>5. r.tx = t
      BY <3>3, <3>4 DEF Undisturbed
    <3>6. msg[t] = aMsg[t]
      BY <1>0 DEF BP!RecordInv, ByteInv
    <3>7. r = [tx |-> t, bytes |-> msg[t]]
      BY <3>2, <3>3, <3>5, <3>6 DEF BP!Round
    <3> QED
      BY <1>3, <2>2, <3>7 DEF B!RoundForeign
  <2> QED
    BY <2>1, <2>2
<1>4. CASE BReceives
  BY <1>2, <1>4 DEF BReceives, B!ReceiveSignRequest, B!HandleSignReady, B!HandleTSSRound,
     B!HandleDeriveRequest
<1>5. ASSUME NEW f \in feeding, BFeeds(f) PROVE sess'[t] # "failed"
  BY <1>2, <1>5 DEF BFeeds, B!FeedMessage
<1>6. ASSUME NEW u \in Tx, BReplies(u) \/ BPushes(u) PROVE sess'[t] # "failed"
  BY <1>2, <1>6 DEF BReplies, BPushes, B!Reply, B!PushApproved
<1>7. ASSUME NEW u \in Tx, BBeginsTss(u) \/ BTakesRound(u) PROVE sess'[t] # "failed"
  <2>1. \/ sess' = sess \/ sess' = [sess EXCEPT ![u] = "tss"]
        \/ sess' = [sess EXCEPT ![u] = "signed"]
    BY <1>7 DEF BBeginsTss, BTakesRound, B!LoadKey, B!RoundAccepted, B!SignReturns
  <2> QED
    BY <1>1, <1>2, <2>1
<1>8. ASSUME NEW u \in Tx, BRequestStep(u) \/ BEscalationStep(u) PROVE sess'[t] # "failed"
  <2>1. sess' = sess \/ sess' = [sess EXCEPT ![u] = "spawned"]
    BY <1>8 DEF BRequestStep, B!AnalyzeReject, B!AnalyzePass, B!RouteAuto,
       B!StartAuto, B!StartSigning, B!EscalateNotify,
       B!RegisterPending, B!RegisterRequest, BEscalationStep, B!DecideApprove, B!DecideReject,
       B!EscalationTimeout, B!StartEscalated, B!Unpend, B!Uncache
  <2> QED
    BY <1>1, <1>2, <2>1
<1>9. ASSUME NEW u \in Tx, BSessionStep(u), ~B!RoundForeign(u) PROVE sess'[t] # "failed"
  <2>1. \/ sess' = [sess EXCEPT ![u] = "waiting"] \/ sess' = [sess EXCEPT ![u] = "ready"]
        \/ sess' = [sess EXCEPT ![u] = "closing"] \/ sess' = [sess EXCEPT ![u] = "ended"]
        \/ (sess[u] \in {"ready", "waiting"} /\ sess' = [sess EXCEPT ![u] = "failed"])
    BY <1>9 DEF BSessionStep, B!AwaitReady, B!TakeReady, B!KeyMissing, B!StoreOutcome,
       B!CloseSession, B!ReadyTimeout, B!SignReturns
  <2>2. CASE sess[u] \in {"ready", "waiting"} /\ sess' = [sess EXCEPT ![u] = "failed"]
    BY <1>0, <2>2 DEF BP!TypeOK
  <2> QED
    BY <1>1, <2>1, <2>2
<1>10. ASSUME NEW u \in Tx, BTssError(u) PROVE sess'[t] # "failed"
  BY <1>10 DEF BTssError, Undisturbed
<1>11. CASE BBotStep \/ BOwner
  BY <1>2, <1>11 DEF BBotStep, BOwner, B!BotStep, B!WhitelistAddrs, B!LookupDecision,
     B!SendDecision, B!Press, B!SetAutoMode
<1>12. CASE BRestarts
  BY <1>12 DEF BRestarts, B!Restart
<1>13. ASSUME NEW r \in handing, BHandsReady(r) PROVE sess'[t] # "failed"
  BY <1>2, <1>13 DEF BHandsReady, B!HandReady
<1>14. ASSUME NEW u \in Tx, BTelegramStep(u) PROVE sess'[t] # "failed"
  BY <1>2, <1>14 DEF BTelegramStep, B!TelegramStep, B!AutoNotified, B!NotifySent,
     B!EscalateFail, B!Refuse
<1> QED
  BY <1>3, <1>4, <1>5, <1>6, <1>7, <1>8, <1>9, <1>10, <1>11, <1>12, <1>13, <1>14
     DEF BSide, BStep

\* Party B's side keeps the invariant of the whole.
LEMMA BPreserves == ASSUME Inv, BSide PROVE Inv'
<1>0. /\ BInv /\ WireInv /\ AShape /\ MessageInv /\ ByteInv
      /\ \A t \in Tx : CallInv(t) /\ EvidenceInv(t) /\ RejectInv(t)
  BY DEF Inv
<1>1. BInv' /\ \A t \in Tx : BP!Moves(t)
  BY <1>0, BSideIsPartyB, BSteps
<1>2. UNCHANGED aVars /\ Carried
  BY <1>0, BWires
<1>3. ByteInv'
  BY <1>0, BBytes
<1>4. AShape'
  BY <1>0, <1>2 DEF AShape
<1>5. ASSUME NEW t \in Tx PROVE CallInv(t)'
  BY <1>0, <1>1, <1>2 DEF CallInv, BP!Moves
<1>6. MessageInv'
  <2>1. ASSUME NEW m \in Elems(toA')
        PROVE  /\ m.kind = "response" => m.arg = resp'[m.tx]
               /\ m.kind = "approved" => resp'[m.tx] = "escalate"
               /\ m.kind = "statusResp" /\ m.arg.status = "rejected" => status'[m.tx] = "rejected"
    <3>1. CASE Honest(m)
      BY <3>1 DEF Honest
    <3>2. CASE m \in Elems(toA)
      <4>1. m \in AMsg
        BY <1>0, <3>2, ElemsTyped DEF WireInv
      <4>2. m.tx \in Tx /\ BP!Moves(m.tx)
        BY <1>1, <4>1, AMsgFields
      <4>3. m.kind = "response" => m.arg \in {"approve", "reject", "escalate"}
        BY <4>1, AMsgFields
      <4> QED
        BY <1>0, <3>2, <4>2, <4>3 DEF MessageInv, BP!Moves
    <3> QED
      BY <1>2, <2>1, <3>1, <3>2 DEF Carried
  <2>2. \A m \in Elems(toB') : m.kind \in {"ready", "round"} => m.arg = aMsg'[m.tx]
    BY <1>0, <1>2 DEF Carried, MessageInv
  <2>3. \A t \in Tx : reply'[t].status = "rejected" => status'[t] = "rejected"
    BY <1>0, <1>1, <1>2 DEF MessageInv, BP!Moves
  <2> QED
    BY <2>1, <2>2, <2>3 DEF MessageInv
<1>7. ASSUME NEW t \in Tx PROVE EvidenceInv(t)'
  <2> SUFFICES ASSUME Lost(t)' PROVE NoEvidence(t)'
    BY DEF EvidenceInv
  <2>1. BP!Moves(t) /\ (Undisturbed(t)' => Undisturbed(t))
    BY <1>1, <1>2 DEF Undisturbed
  <2>2. Undisturbed(t) /\ sess[t] = "tss" => sess'[t] # "failed"
    BY <1>0, BCannotFail
  <2>3. Lost(t)
    BY <2>1, <2>2 DEF Lost, BP!Moves
  <2>4. NoEvidence(t)
    BY <1>0, <2>3 DEF EvidenceInv
  <2>5. status'[t] # "signed"
    BY <2>1, <2>3, <2>4 DEF NoEvidence, Lost, BP!Moves, BP!Unbegun, BP!Beaten
  <2>6. sess'[t] # "tss"
    BY DEF Lost, BP!Unbegun, BP!Beaten
  <2>7. ASSUME NEW m \in Elems(toA'), m.tx = t
        PROVE  m.kind # "round" /\ ~(m.kind = "statusResp" /\ m.arg.status = "signed")
    BY <1>2, <2>4, <2>5, <2>6, <2>7 DEF Carried, Honest, NoEvidence
  <2> QED
    BY <1>2, <2>4, <2>5, <2>7 DEF NoEvidence
<1>8. ASSUME NEW t \in Tx PROVE RejectInv(t)'
  BY <1>0, <1>1, <1>2 DEF RejectInv, Succeeded, Given, BP!Moves
<1> QED
  BY <1>1, <1>2, <1>3, <1>4, <1>5, <1>6, <1>7, <1>8 DEF Inv, Carried

-----------------------------------------------------------------------------
(* The steps of Party A's side.                                            *)

\* The connection after a step of Party A's: what was under way, less what was
\* read, and what was sent now.
Posted == /\ WireInv'
          /\ Elems(toA') \subseteq Elems(toA)
          /\ \A m \in Elems(toB') : \/ m \in Elems(toB)
                                    \/ (m.kind \in {"ready", "round"} => m.arg = aMsg'[m.tx])

LEMMA APosts ==
  ASSUME WireInv, toA' = toA \/ (toA # <<>> /\ toA' = Tail(toA)),
         NEW m \in BMsg, m.kind \in {"ready", "round"} => m.arg = aMsg'[m.tx],
         toB' = toB \/ toB' = Append(toB, m)
  PROVE  Posted
<1>1. toA' \in Seq(AMsg) /\ Elems(toA') \subseteq Elems(toA)
  BY ElemsTail DEF WireInv
<1>2. toB' = toB \/ (toB' \in Seq(BMsg) /\ Elems(toB') = Elems(toB) \cup {m})
  <2>1. toB \in Seq(BMsg)
    BY DEF WireInv
  <2>2. Append(toB, m) \in Seq(BMsg) /\ Elems(Append(toB, m)) = Elems(toB) \cup {m}
    BY <2>1, ElemsAppend
  <2> QED
    BY <2>2
<1> QED
  BY <1>1, <1>2 DEF Posted, WireInv

LEMMA AReads ==
  ASSUME WireInv, toA' = toA \/ (toA # <<>> /\ toA' = Tail(toA)), toB' = toB
  PROVE  Posted
<1>1. toA' \in Seq(AMsg) /\ Elems(toA') \subseteq Elems(toA)
  BY ElemsTail DEF WireInv
<1> QED
  BY <1>1 DEF Posted, WireInv

\* A step of Party A's neither takes a run back nor invents a rejection of
\* Party B's; it changes the final bytes only where there were none.
Forward ==
    \A u \in Tx : /\ run'[u] = "none" => run[u] = "none"
                  /\ aMsg'[u] = aMsg[u] \/ aMsg[u] = None
                  /\ reply'[u].status = "rejected" => status[u] = "rejected"

\* What is left to show of a step of Party A's, transaction by transaction.
Advances(u) ==
    /\ CallInv(u)'
    /\ NoEvidence(u) => NoEvidence(u)'
    /\ RejectInv(u)'

LEMMA AKeeps ==
  ASSUME Inv, UNCHANGED bVars, Posted, AShape', Forward, \A u \in Tx : Advances(u)
  PROVE  Inv'
<1>0. /\ BInv /\ WireInv /\ AShape /\ MessageInv /\ ByteInv
      /\ \A t \in Tx : CallInv(t) /\ EvidenceInv(t) /\ RejectInv(t)
  BY DEF Inv
<1>1. BInv'
  BY <1>0, BSteps DEF BP!vars
<1>2. MessageInv'
  <2>1. ASSUME NEW m \in Elems(toB'), m.kind \in {"ready", "round"} PROVE m.arg = aMsg'[m.tx]
    <3>1. CASE m \in Elems(toB)
      <4>1. m \in BMsg
        BY <1>0, <3>1, ElemsTyped DEF WireInv
      <4>2. m.tx \in Tx /\ m.arg \in Bytes
        BY <2>1, <4>1, BMsgFields
      <4>3. m.arg = aMsg[m.tx]
        BY <1>0, <2>1, <3>1 DEF MessageInv
      <4> QED
        BY <4>2, <4>3, PartyAAssumption DEF Forward
    <3>2. CASE m \notin Elems(toB)
      BY <2>1, <3>2 DEF Posted
    <3> QED
      BY <3>1, <3>2
  <2>2. ASSUME NEW m \in Elems(toA')
        PROVE  /\ m.kind = "response" => m.arg = resp'[m.tx]
               /\ m.kind = "approved" => resp'[m.tx] = "escalate"
               /\ m.kind = "statusResp" /\ m.arg.status = "rejected" => status'[m.tx] = "rejected"
    BY <1>0, <2>2 DEF Posted, MessageInv
  <2> QED
    BY <2>1, <2>2 DEF MessageInv, Forward
<1>3. ByteInv'
  <2>0. BP!TypeOK
    BY <1>0 DEF BInv
  <2>1. ASSUME NEW f \in feeding PROVE f.round.bytes = aMsg'[f.round.tx]
    <3>1. f.round.tx \in Tx /\ f.round.bytes \in Bytes
      BY <2>0 DEF BP!TypeOK, BP!Feed, BP!Round
    <3> QED
      BY <1>0, <3>1, PartyAAssumption DEF ByteInv, Forward
  <2>2. ASSUME NEW t \in Tx, NEW r \in Elems(inbox[t]) PROVE r.bytes = aMsg'[r.tx]
    <3>1. r \in BP!Round
      BY <2>0, <2>2, ElemsTyped DEF BP!TypeOK
    <3>2. r.tx \in Tx /\ r.bytes \in Bytes
      BY <3>1 DEF BP!Round
    <3> QED
      BY <1>0, <2>2, <3>2, PartyAAssumption DEF ByteInv, Forward
  <2>3. ASSUME NEW t \in Tx PROVE readyCh[t] \in {None, aMsg'[t]} /\ msg[t] \in {None, aMsg'[t]}
    BY <1>0 DEF ByteInv, Forward
  <2>4. ASSUME NEW r \in handing PROVE r.bytes = aMsg'[r.tx]
    <3>1. r.tx \in Tx /\ r.bytes \in Bytes
      BY <2>0 DEF BP!TypeOK, BP!Ready
    <3> QED
      BY <1>0, <3>1, PartyAAssumption DEF ByteInv, Forward
  <2> QED
    BY <2>1, <2>2, <2>3, <2>4 DEF ByteInv
<1>4. ASSUME NEW t \in Tx PROVE EvidenceInv(t)'
  <2>1. Lost(t)' => Lost(t)
    BY DEF Lost, Forward, Undisturbed, BP!Beaten
  <2> QED
    BY <1>0, <2>1 DEF EvidenceInv, Advances
<1> QED
  BY <1>1, <1>2, <1>3, <1>4 DEF Inv, Posted, Advances

\* What the invariant says of Party A's variables.
LEMMA AFacts ==
  ASSUME Inv
  PROVE  /\ WireInv /\ AShape /\ BP!TypeOK /\ MessageInv
         /\ \A u \in Tx : CallInv(u) /\ RejectInv(u) /\ BP!RequestInv(u)
  BY DEF Inv, BInv, BP!IndInv

\* A result of the right kind keeps the history well typed.
LEMMA Responds ==
  ASSUME AShape, NEW t \in Tx, NEW a \in AnswerType, Respond(t, a)
  PROVE  handed' \in [Tx -> Nat] /\ answers' \in [Tx -> SUBSET AnswerType]
  BY DEF AShape, Respond

\* Only that result is new.
LEMMA Given1 ==
  ASSUME AShape, NEW t \in Tx, NEW a, NEW u \in Tx, NEW x \in answers'[u],
         answers' = [answers EXCEPT ![t] = @ \cup {a}]
  PROVE  x \in answers[u] \/ x = a
<1>1. answers'[u] = IF u = t THEN answers[u] \cup {a} ELSE answers[u]
  BY DEF AShape
<1> QED
  BY <1>1

\* So does an update of the queue, and an answer from it.
LEMMA Queues ==
  ASSUME AShape, NEW t \in Tx, NEW s \in Statuses, NEW p \in Payload, UpdateQueue(t, s, p)
  PROVE  qStatus' \in [Tx -> Statuses] /\ qTx' \in [Tx -> Payload]
<1>0. qStatus \in [Tx -> Statuses] /\ qTx \in [Tx -> Payload]
  BY DEF AShape
<1>1. CASE UNCHANGED queueVars
  BY <1>0, <1>1
<1>2. CASE qStatus' = [qStatus EXCEPT ![t] = s] /\ qTx' = qTx
  BY <1>0, <1>2
<1>3. CASE qStatus' = [qStatus EXCEPT ![t] = s] /\ qTx' = [qTx EXCEPT ![t] = p]
  BY <1>0, <1>3
<1> QED
  BY <1>1, <1>2, <1>3 DEF UpdateQueue

LEMMA AnswersFromQueue ==
  ASSUME AShape, NEW t \in Tx, qStatus[t] # "none", AnswerFromQueue(t)
  PROVE  /\ qStatus' \in [Tx -> Statuses] /\ qTx' \in [Tx -> Payload]
         /\ handed' \in [Tx -> Nat] /\ answers' \in [Tx -> SUBSET AnswerType]
<1>1. Answer(qStatus[t], qTx[t]) \in AnswerType
  BY DEF AShape, AnswerType, Answer
<1>2. handed' \in [Tx -> Nat] /\ answers' \in [Tx -> SUBSET AnswerType]
  BY <1>1, Responds DEF AnswerFromQueue
<1>3. qStatus' \in [Tx -> Statuses] /\ qTx' \in [Tx -> Payload]
  BY ZenonT(30) DEF AShape, AnswerFromQueue, Statuses, Payload
<1> QED
  BY <1>2, <1>3

\* Party A's side keeps the invariant: one step per action.
LEMMA APreserves ==
  ASSUME Inv
  PROVE  /\ \A p \in Path : ADerives(p) => Inv'
         /\ \A t \in Tx : \/ ASendsRequest(t) \/ ASendsQuery(t) \/ AStep(t)
                          \/ AEnvironmentStep(t)
                          => Inv'
<1>0. /\ WireInv /\ AShape /\ BP!TypeOK /\ MessageInv
      /\ \A u \in Tx : CallInv(u) /\ RejectInv(u) /\ BP!RequestInv(u)
  BY AFacts
<1> USE <1>0, PartyAAssumption
<1> USE DEF Statuses, Payload, Answer, NoReply
<1>1. ASSUME NEW p \in Path, ADerives(p) PROVE Inv'
  <2>1. UNCHANGED bVars /\ Posted
    <3>1. Msg("derive", p, None) \in BMsg
      BY DEF BMsg, Msg
    <3> QED
      BY <1>1, <3>1, APosts DEF ADerives, ToB, Msg
  <2>2. AShape'
    BY <1>1 DEF ADerives, Derive, AShape, AnswerType, PollReply
  <2>3. Forward
    BY <1>1 DEF ADerives, Derive, Forward, AShape, MessageInv, CallInv, Fresh
  <2>4. ASSUME NEW u \in Tx PROVE Advances(u)
    <3>1. CallInv(u)'
      BY <1>1 DEF ADerives, Derive, AShape, CallInv, Fresh
    <3>2. NoEvidence(u) => NoEvidence(u)'
      BY <1>1, <2>1 DEF ADerives, Derive, AShape, NoEvidence, Posted
    <3>3. RejectInv(u)'
      BY <1>1 DEF ADerives, Derive, AShape, RejectInv, Succeeded, Given
    <3> QED
      BY <3>1, <3>2, <3>3 DEF Advances
  <2> QED
    BY <2>1, <2>2, <2>3, <2>4, AKeeps
<1>2. ASSUME NEW t \in Tx, ASendsRequest(t) PROVE Inv'
  <2>1. UNCHANGED bVars /\ Posted
    <3>1. Msg("sign", t, None) \in BMsg
      BY DEF BMsg, Msg
    <3> QED
      BY <1>2, <3>1, APosts DEF ASendsRequest, ToB, Msg
  <2>2. AShape'
    BY <1>2 DEF ASendsRequest, RequestSign, AShape, AnswerType, PollReply
  <2>3. Forward
    BY <1>2 DEF ASendsRequest, RequestSign, Forward, AShape, MessageInv, CallInv, Fresh
  <2>4. ASSUME NEW u \in Tx PROVE Advances(u)
    <3>1. CallInv(u)'
      BY <1>2 DEF ASendsRequest, RequestSign, AShape, CallInv, Fresh
    <3>2. NoEvidence(u) => NoEvidence(u)'
      BY <1>2, <2>1 DEF ASendsRequest, RequestSign, AShape, NoEvidence, Posted
    <3>3. RejectInv(u)'
      BY <1>2 DEF ASendsRequest, RequestSign, AShape, RejectInv, Succeeded, Given
    <3> QED
      BY <3>1, <3>2, <3>3 DEF Advances
  <2> QED
    BY <2>1, <2>2, <2>3, <2>4, AKeeps
<1>3. ASSUME NEW t \in Tx, ASendsQuery(t) PROVE Inv'
  <2>1. UNCHANGED bVars /\ Posted
    <3>1. Msg("status", t, None) \in BMsg
      BY DEF BMsg, Msg
    <3> QED
      BY <1>3, <3>1, APosts DEF ASendsQuery, ToB, Msg
  <2>2. AShape'
    BY <1>3 DEF ASendsQuery, PollQuery, AShape, AnswerType, PollReply
  <2>3. Forward
    BY <1>3 DEF ASendsQuery, PollQuery, Forward, AShape, MessageInv, CallInv, Fresh
  <2>4. ASSUME NEW u \in Tx PROVE Advances(u)
    <3>1. CallInv(u)'
      BY <1>3 DEF ASendsQuery, PollQuery, AShape, CallInv, Fresh
    <3>2. NoEvidence(u) => NoEvidence(u)'
      BY <1>3, <2>1 DEF ASendsQuery, PollQuery, AShape, NoEvidence, Posted
    <3>3. RejectInv(u)'
      BY <1>3 DEF ASendsQuery, PollQuery, AShape, RejectInv, Succeeded, Given
    <3> QED
      BY <3>1, <3>2, <3>3 DEF Advances
  <2> QED
    BY <2>1, <2>2, <2>3, <2>4, AKeeps
<1>4. ASSUME NEW t \in Tx, NEW b \in Bytes, SendReady(t, b), ToB(Msg("ready", t, b)),
             UNCHANGED bVars
      PROVE  Inv'
  <2>1. UNCHANGED bVars /\ Posted
    <3>1. Msg("ready", t, b) \in BMsg /\ aMsg'[t] = b
      BY <1>4 DEF BMsg, Msg, SendReady, AShape
    <3> QED
      BY <1>4, <3>1, APosts DEF ToB, Msg
  <2>2. AShape'
    BY <1>4 DEF SendReady, AShape, AnswerType, PollReply
  <2>3. Forward
    BY <1>4 DEF SendReady, Forward, AShape, MessageInv, CallInv, Fresh
  <2>4. ASSUME NEW u \in Tx PROVE Advances(u)
    <3>1. CallInv(u)'
      BY <1>4 DEF SendReady, AShape, CallInv, Fresh
    <3>2. NoEvidence(u) => NoEvidence(u)'
      BY <1>4, <2>1 DEF SendReady, AShape, NoEvidence, Posted
    <3>3. RejectInv(u)'
      BY <1>4 DEF SendReady, AShape, RejectInv, Succeeded, Given
    <3> QED
      BY <3>1, <3>2, <3>3 DEF Advances
  <2> QED
    BY <2>1, <2>2, <2>3, <2>4, AKeeps
<1>5. ASSUME NEW t \in Tx, AReceivesAck(t) PROVE Inv'
  <2>1. UNCHANGED bVars /\ Posted
    <3>1. CASE run[t] = "waitAck"
      <4>1. Msg("round", t, aMsg[t]) \in BMsg /\ aMsg' = aMsg
        BY <1>5, <3>1 DEF BMsg, Msg, AReceivesAck, DeliverAck, CallInv
      <4> QED
        BY <1>5, <3>1, <4>1, APosts DEF AReceivesAck, Msg
    <3>2. CASE run[t] # "waitAck"
      BY <1>5, <3>2, AReads DEF AReceivesAck
    <3> QED
      BY <3>1, <3>2
  <2>2. AShape'
    <3>1. run' = run \/ run' = [run EXCEPT ![t] = "tss"]
      BY <1>5 DEF AReceivesAck, DeliverAck
    <3>2. run' \in [Tx -> {"none", "pushed", "ignored", "start", "waitAck", "tss",
                           "signed", "failed", "storing", "ended"}]
      <4>1. CASE run' = run
        BY <4>1 DEF AShape
      <4>2. CASE run' = [run EXCEPT ![t] = "tss"]
        BY <4>2 DEF AShape
      <4> QED
        BY <3>1, <4>1, <4>2
    <3> QED
      BY <1>5, <3>2 DEF AReceivesAck, DeliverAck, AShape
  <2>3. Forward
    BY <1>5 DEF AReceivesAck, DeliverAck, Forward, AShape, MessageInv, CallInv, Fresh
  <2>4. ASSUME NEW u \in Tx PROVE Advances(u)
    <3>1. CallInv(u)'
      BY <1>5 DEF AReceivesAck, DeliverAck, AShape, CallInv, Fresh
    <3>2. NoEvidence(u) => NoEvidence(u)'
      BY <1>5, <2>1 DEF AReceivesAck, DeliverAck, AShape, NoEvidence, Posted
    <3>3. RejectInv(u)'
      BY ZenonT(30), <1>5 DEF AReceivesAck, DeliverAck, AShape, RejectInv, Succeeded, Given
    <3> QED
      BY <3>1, <3>2, <3>3 DEF Advances
  <2> QED
    BY <2>1, <2>2, <2>3, <2>4, AKeeps
<1>6. ASSUME NEW t \in Tx, ATakesRound(t) PROVE Inv'
  <2>a. /\ Head(incoming) \in ARound /\ Head(incoming) \in Elems(incoming)
        /\ Tail(incoming) \in Seq(ARound) /\ Elems(Tail(incoming)) \subseteq Elems(incoming)
        /\ Len(Tail(incoming)) <= IncomingCap
    BY <1>6, ElemsTail DEF ATakesRound, TakeRound, AShape
  <2>1. UNCHANGED bVars /\ Posted
    <3>1. Msg("round", t, aMsg[t]) \in BMsg /\ aMsg' = aMsg
      BY <1>6 DEF BMsg, Msg, ATakesRound, TakeRound, CallInv
    <3> QED
      BY <1>6, <3>1, APosts DEF ATakesRound, Msg
  <2>2. AShape'
    <3>1. incoming' \in Seq(ARound) /\ Len(incoming') <= IncomingCap
      BY <1>6, <2>a DEF ATakesRound, TakeRound
    <3>2. /\ aGot' = aGot \/ aGot' = [aGot EXCEPT ![t] = aGot[t] + 1]
          /\ run' = run \/ run' = [run EXCEPT ![t] = "signed"] \/ run' = [run EXCEPT ![t] = "failed"]
      BY <1>6 DEF ATakesRound, TakeRound
    <3>3. aGot[t] + 1 \in 0..Rounds
      BY <1>6 DEF ATakesRound, TakeRound, CallInv, AShape
    <3>4. aGot' \in [Tx -> 0..Rounds]
      <4>1. CASE aGot' = aGot
        BY <4>1 DEF AShape
      <4>2. CASE aGot' = [aGot EXCEPT ![t] = aGot[t] + 1]
        BY <3>3, <4>2 DEF AShape
      <4> QED
        BY <3>2, <4>1, <4>2
    <3>5. run' \in [Tx -> {"none", "pushed", "ignored", "start", "waitAck", "tss",
                           "signed", "failed", "storing", "ended"}]
      <4>1. CASE run' = run
        BY <4>1 DEF AShape
      <4>2. CASE run' = [run EXCEPT ![t] = "signed"]
        BY <4>2 DEF AShape
      <4>3. CASE run' = [run EXCEPT ![t] = "failed"]
        BY <4>3 DEF AShape
      <4> QED
        BY <3>2, <4>1, <4>2, <4>3
    <3> QED
      BY <1>6, <3>1, <3>4, <3>5 DEF ATakesRound, TakeRound, AShape
  <2>3. Forward
    BY SMTT(30), <1>6, <2>a DEF ATakesRound, TakeRound, Forward, AShape, MessageInv, CallInv, Fresh
  <2>4. ASSUME NEW u \in Tx PROVE Advances(u)
    <3>1. CallInv(u)'
      <4>1. UNCHANGED <<calls, resp, aMsg, polls, qStatus, reply, handed, asked>>
        BY <1>6 DEF ATakesRound, TakeRound
      <4>2. CASE u # t
        <5>1. run'[u] = run[u] /\ aGot'[u] = aGot[u]
          BY <1>6, <4>2 DEF ATakesRound, TakeRound, AShape
        <5> QED
          BY <4>1, <5>1 DEF CallInv
      <4>3. CASE u = t
        <5>1. run[t] = "tss" /\ aGot[t] \in Nat /\ aGot[t] < Rounds /\ Rounds \in Nat
          BY <1>6 DEF ATakesRound, TakeRound, CallInv, AShape
        <5>2. \/ run'[t] \in {"signed", "failed"}
              \/ run'[t] = "tss" /\ aGot'[t] < Rounds
          BY SMTT(60), <1>6, <5>1 DEF ATakesRound, TakeRound, AShape
        <5> QED
          BY <4>1, <4>3, <5>1, <5>2 DEF CallInv, Fresh
      <4> QED
        BY <4>2, <4>3
    <3>2. NoEvidence(u) => NoEvidence(u)'
      BY SMTT(30), <1>6, <2>a, <2>1 DEF ATakesRound, TakeRound, AShape, NoEvidence, Posted
    <3>3. RejectInv(u)'
      BY SMTT(30), <1>6, <2>a DEF ATakesRound, TakeRound, AShape, RejectInv, Succeeded, Given
    <3> QED
      BY <3>1, <3>2, <3>3 DEF Advances
  <2> QED
    BY <2>1, <2>2, <2>3, <2>4, AKeeps
<1>7. ASSUME NEW t \in Tx, toA # <<>>, Head(toA).tx = t, toA' = Tail(toA),
             UNCHANGED <<bVars, toB, serving, breaks>>,
             Head(toA).kind = "response", DeliverSignResponse(t, Head(toA).arg) PROVE Inv'
  <2>a. Head(toA) \in AMsg /\ Head(toA) \in Elems(toA)
    BY <1>7, ElemsTail DEF WireInv
  <2>b. Head(toA).arg \in {"approve", "reject", "escalate"} /\ Head(toA).arg = resp[t]
    BY <1>7, <2>a, AMsgFields DEF MessageInv, StatusReply, ARound
  <2>1. UNCHANGED bVars /\ Posted
    BY <1>7, <2>b, AReads DEF DeliverSignResponse
  <2>2. AShape'
    <3>1. calls' = calls \/ calls' = [calls EXCEPT ![t] = Head(toA).arg]
      BY <1>7 DEF DeliverSignResponse
    <3>2. calls' \in [Tx -> {"idle", "sent", "approve", "reject", "escalate",
                            "saving", "signing", "done"}]
      <4>1. CASE calls' = calls
        BY <4>1 DEF AShape
      <4>2. CASE calls' = [calls EXCEPT ![t] = Head(toA).arg]
        <5> DEFINE d == Head(toA).arg
        <5>1. d \in {"approve", "reject", "escalate"} /\ calls' = [calls EXCEPT ![t] = d]
          BY <2>b, <4>2
        <5> HIDE DEF d
        <5> QED
          BY <5>1 DEF AShape
      <4> QED
        BY <3>1, <4>1, <4>2
    <3> QED
      BY <1>7, <3>2 DEF DeliverSignResponse, AShape
  <2>3. Forward
    BY <1>7, <2>b DEF DeliverSignResponse, Forward, AShape, MessageInv, CallInv, Fresh
  <2>4. ASSUME NEW u \in Tx PROVE Advances(u)
    <3>1. CallInv(u)'
      BY <1>7, <2>b DEF DeliverSignResponse, AShape, CallInv, Fresh
    <3>2. NoEvidence(u) => NoEvidence(u)'
      BY <1>7, <2>b, <2>1 DEF DeliverSignResponse, AShape, NoEvidence, Posted
    <3>3. RejectInv(u)'
      BY <1>7, <2>b DEF DeliverSignResponse, AShape, RejectInv, Succeeded, Given
    <3> QED
      BY <3>1, <3>2, <3>3 DEF Advances
  <2> QED
    BY <2>1, <2>2, <2>3, <2>4, AKeeps
<1>8. ASSUME NEW t \in Tx, toA # <<>>, Head(toA).tx = t, toA' = Tail(toA),
             UNCHANGED <<bVars, toB, serving, breaks>>,
             Head(toA).kind = "statusResp", DeliverStatus(t, Head(toA).arg) PROVE Inv'
  <2>a. Head(toA) \in AMsg /\ Head(toA) \in Elems(toA)
    BY <1>8, ElemsTail DEF WireInv
  <2>b. /\ Head(toA).arg \in StatusReply
        /\ Head(toA).arg.status = "rejected" => status[t] = "rejected"
    BY <1>8, <2>a, AMsgFields DEF MessageInv, StatusReply, ARound
  <2>1. UNCHANGED bVars /\ Posted
    BY <1>8, <2>a, <2>b, AReads DEF DeliverStatus
  <2>2. AShape'
    <3>1. reply' = reply \/ reply' = [reply EXCEPT ![t] = Head(toA).arg]
      BY <1>8 DEF DeliverStatus
    <3>2. reply' \in [Tx -> PollReply]
      <4>1. Head(toA).arg \in PollReply
        BY <2>b DEF StatusReply, PollReply
      <4> QED
        BY ZenonT(30), <3>1, <4>1 DEF AShape
    <3>3. polls' \in [Tx -> {"idle", "querying", "replied", "fetched"}]
      <4>1. CASE polls' = polls
        BY <4>1 DEF AShape
      <4>2. CASE polls' = [polls EXCEPT ![t] = "replied"]
        BY <4>2 DEF AShape
      <4> QED
        BY <1>8, <4>1, <4>2 DEF DeliverStatus
    <3> QED
      BY <1>8, <3>2, <3>3 DEF DeliverStatus, AShape
  <2>3. Forward
    <3>1. reply' = reply \/ reply' = [reply EXCEPT ![t] = Head(toA).arg]
      BY <1>8 DEF DeliverStatus
    <3>2. ASSUME NEW u \in Tx, reply'[u].status = "rejected" PROVE status[u] = "rejected"
      <4>1. CASE reply' = reply
        BY <3>2, <4>1 DEF MessageInv
      <4>2. CASE reply' = [reply EXCEPT ![t] = Head(toA).arg]
        <5>1. reply'[u] = IF u = t THEN Head(toA).arg ELSE reply[u]
          BY <4>2 DEF AShape
        <5> QED
          BY <2>b, <3>2, <5>1 DEF MessageInv
      <4> QED
        BY <3>1, <4>1, <4>2
    <3> QED
      BY <1>8, <3>2 DEF DeliverStatus, Forward
  <2>4. ASSUME NEW u \in Tx PROVE Advances(u)
    <3>1. CallInv(u)'
      BY <1>8, <2>a, <2>b DEF DeliverStatus, AShape, CallInv, Fresh
    <3>2. NoEvidence(u) => NoEvidence(u)'
      <4> SUFFICES ASSUME NoEvidence(u) PROVE NoEvidence(u)'
        OBVIOUS
      <4>1. reply' = reply \/ reply' = [reply EXCEPT ![t] = Head(toA).arg]
        BY <1>8 DEF DeliverStatus
      <4>2. u = t => Head(toA).arg.status # "signed"
        BY <1>8, <2>a DEF NoEvidence
      <4>3. reply'[u].status # "signed"
        BY <4>1, <4>2 DEF NoEvidence, AShape
      <4> QED
        BY <1>8, <2>1, <4>3 DEF DeliverStatus, NoEvidence, Posted
    <3>3. RejectInv(u)'
      <4>1. reply' = reply \/ reply' = [reply EXCEPT ![t] = Head(toA).arg]
        BY <1>8 DEF DeliverStatus
      <4>2. Head(toA).arg.payload # "tx"
        BY <2>b DEF StatusReply
      <4>3. reply'[u].payload = "tx" => reply[u].payload = "tx"
        BY ZenonT(60), <4>1, <4>2 DEF AShape
      <4> QED
        BY <1>8, <4>3 DEF DeliverStatus, RejectInv, Succeeded, Given
    <3> QED
      BY <3>1, <3>2, <3>3 DEF Advances
  <2> QED
    BY <2>1, <2>2, <2>3, <2>4, AKeeps
<1>9. ASSUME NEW t \in Tx, toA # <<>>, Head(toA).tx = t, toA' = Tail(toA),
             UNCHANGED <<bVars, toB, serving, breaks>>,
             Head(toA).kind = "approved", SpawnSignApproved(t) PROVE Inv'
  <2>a. Head(toA) \in AMsg /\ Head(toA) \in Elems(toA)
    BY <1>9, ElemsTail DEF WireInv
  <2>b. resp[t] = "escalate"
    BY <1>9, <2>a, AMsgFields DEF MessageInv, StatusReply, ARound
  <2>1. UNCHANGED bVars /\ Posted
    BY <1>9, <2>b, AReads DEF SpawnSignApproved
  <2>2. AShape'
    BY <1>9, <2>b DEF SpawnSignApproved, AShape, AnswerType, PollReply
  <2>3. Forward
    BY <1>9, <2>b DEF SpawnSignApproved, Forward, AShape, MessageInv, CallInv, Fresh
  <2>4. ASSUME NEW u \in Tx PROVE Advances(u)
    <3>1. CallInv(u)'
      BY <1>9, <2>b DEF SpawnSignApproved, AShape, CallInv, Fresh
    <3>2. NoEvidence(u) => NoEvidence(u)'
      BY <1>9, <2>b, <2>1 DEF SpawnSignApproved, AShape, NoEvidence, Posted
    <3>3. RejectInv(u)'
      BY <1>9, <2>b DEF SpawnSignApproved, AShape, RejectInv, Succeeded, Given
    <3> QED
      BY <3>1, <3>2, <3>3 DEF Advances
  <2> QED
    BY <2>1, <2>2, <2>3, <2>4, AKeeps
<1>10. ASSUME NEW t \in Tx, toA # <<>>, Head(toA).tx = t, toA' = Tail(toA),
             UNCHANGED <<bVars, toB, serving, breaks>>,
             Head(toA).kind = "round", DeliverRound([tx |-> t, bytes |-> Head(toA).arg]) PROVE Inv'
  <2>a. Head(toA) \in AMsg /\ Head(toA) \in Elems(toA)
    BY <1>10, ElemsTail DEF WireInv
  <2>b. [tx |-> t, bytes |-> Head(toA).arg] \in ARound
    BY <1>10, <2>a, AMsgFields DEF MessageInv, StatusReply, ARound
  <2>c. /\ incoming' \in Seq(ARound) /\ Len(incoming') <= IncomingCap
        /\ Elems(incoming') \subseteq Elems(incoming) \cup {[tx |-> t, bytes |-> Head(toA).arg]}
    BY <1>10, <2>b, ElemsAppend DEF DeliverRound, AShape
  <2>1. UNCHANGED bVars /\ Posted
    BY <1>10, <2>a, <2>c, AReads DEF DeliverRound
  <2>2. AShape'
    BY <1>10, <2>a, <2>c DEF DeliverRound, AShape, AnswerType, PollReply
  <2>3. Forward
    BY <1>10, <2>a, <2>c DEF DeliverRound, Forward, AShape, MessageInv, CallInv, Fresh
  <2>4. ASSUME NEW u \in Tx PROVE Advances(u)
    <3>1. CallInv(u)'
      BY <1>10, <2>a, <2>c DEF DeliverRound, AShape, CallInv, Fresh
    <3>2. NoEvidence(u) => NoEvidence(u)'
      <4> SUFFICES ASSUME NoEvidence(u) PROVE NoEvidence(u)'
        OBVIOUS
      <4>1. u # t
        BY <1>10, <2>a DEF NoEvidence
      <4>2. \A r \in Elems(incoming') : r.tx # u
        BY <2>c, <4>1 DEF NoEvidence
      <4> QED
        BY <1>10, <2>1, <4>2 DEF DeliverRound, NoEvidence, Posted
    <3>3. RejectInv(u)'
      BY <1>10, <2>a, <2>c DEF DeliverRound, AShape, RejectInv, Succeeded, Given
    <3> QED
      BY <3>1, <3>2, <3>3 DEF Advances
  <2> QED
    BY <2>1, <2>2, <2>3, <2>4, AKeeps
<1>11. ASSUME NEW t \in Tx, OnApprove(t), UNCHANGED <<bVars, wires>> PROVE Inv'
  <2>1. UNCHANGED bVars /\ Posted
    BY <1>11, AReads DEF OnApprove
  <2>2. AShape'
    BY <1>11 DEF OnApprove, AShape, AnswerType, PollReply
  <2>3. Forward
    BY <1>11 DEF OnApprove, Forward, AShape, MessageInv, CallInv, Fresh
  <2>4. ASSUME NEW u \in Tx PROVE Advances(u)
    <3>1. CallInv(u)'
      BY <1>11 DEF OnApprove, AShape, CallInv, Fresh
    <3>2. NoEvidence(u) => NoEvidence(u)'
      BY <1>11, <2>1 DEF OnApprove, AShape, NoEvidence, Posted
    <3>3. RejectInv(u)'
      <4>1. run[t] = "none"
        BY <1>11 DEF OnApprove, CallInv
      <4>2. run'[u] = IF u = t THEN "start" ELSE run[u]
        BY <1>11 DEF OnApprove, AShape
      <4> QED
        BY <1>11, <4>1, <4>2 DEF OnApprove, RejectInv, Succeeded, Given
    <3> QED
      BY <3>1, <3>2, <3>3 DEF Advances
  <2> QED
    BY <2>1, <2>2, <2>3, <2>4, AKeeps
<1>12. ASSUME NEW t \in Tx, OnReject(t), UNCHANGED <<bVars, wires>> PROVE Inv'
  <2>1. UNCHANGED bVars /\ Posted
    BY <1>12, AReads DEF OnReject
  <2>2. AShape'
    BY <1>12 DEF OnReject, Respond, AShape, AnswerType, PollReply
  <2>3. Forward
    BY <1>12 DEF OnReject, Respond, Forward, AShape, MessageInv, CallInv, Fresh
  <2>4. ASSUME NEW u \in Tx PROVE Advances(u)
    <3>1. CallInv(u)'
      BY <1>12 DEF OnReject, Respond, AShape, CallInv, Fresh
    <3>2. NoEvidence(u) => NoEvidence(u)'
      BY <1>12, <2>1 DEF OnReject, Respond, AShape, NoEvidence, Posted
    <3>3. RejectInv(u)'
      BY <1>12 DEF OnReject, Respond, AShape, RejectInv, Succeeded, Given, CallInv
    <3> QED
      BY <3>1, <3>2, <3>3 DEF Advances
  <2> QED
    BY <2>1, <2>2, <2>3, <2>4, AKeeps
<1>13. ASSUME NEW t \in Tx, OnEscalate(t), UNCHANGED <<bVars, wires>> PROVE Inv'
  <2>1. UNCHANGED bVars /\ Posted
    BY <1>13, AReads DEF OnEscalate
  <2>2. AShape'
    BY <1>13 DEF OnEscalate, AShape, AnswerType, PollReply
  <2>3. Forward
    BY <1>13 DEF OnEscalate, Forward, AShape, MessageInv, CallInv, Fresh
  <2>4. ASSUME NEW u \in Tx PROVE Advances(u)
    <3>1. CallInv(u)'
      BY <1>13 DEF OnEscalate, AShape, CallInv, Fresh
    <3>2. NoEvidence(u) => NoEvidence(u)'
      BY <1>13, <2>1 DEF OnEscalate, AShape, NoEvidence, Posted
    <3>3. RejectInv(u)'
      BY <1>13 DEF OnEscalate, AShape, RejectInv, Succeeded, Given
    <3> QED
      BY <3>1, <3>2, <3>3 DEF Advances
  <2> QED
    BY <2>1, <2>2, <2>3, <2>4, AKeeps
<1>14. ASSUME NEW t \in Tx, SavePending(t), UNCHANGED <<bVars, wires>> PROVE Inv'
  <2>1. UNCHANGED bVars /\ Posted
    BY <1>14, AReads DEF SavePending
  <2>2. AShape'
    <3>1. Answer("pending_review", "nil") \in AnswerType /\ Answer("error", "nil") \in AnswerType
      BY DEF AnswerType
    <3>2. handed' \in [Tx -> Nat] /\ answers' \in [Tx -> SUBSET AnswerType]
      BY <1>14, <3>1, Responds DEF SavePending
    <3>3. /\ aStatus' \in [Tx -> {"none", "pending_review", "signed"}] /\ aTx' \in [Tx -> Payload]
          /\ calls' \in [Tx -> {"idle", "sent", "approve", "reject", "escalate",
                                "saving", "signing", "done"}]
      BY ZenonT(30), <1>14 DEF SavePending, AShape
    <3> QED
      BY <1>14, <3>2, <3>3 DEF SavePending, AShape
  <2>3. Forward
    BY <1>14 DEF SavePending, Respond, Forward, AShape, MessageInv, CallInv, Fresh
  <2>4. ASSUME NEW u \in Tx PROVE Advances(u)
    <3>1. CallInv(u)'
      BY <1>14 DEF SavePending, Respond, AShape, CallInv, Fresh
    <3>2. NoEvidence(u) => NoEvidence(u)'
      <4>1. \/ aStatus' = [aStatus EXCEPT ![t] = "pending_review"] \/ aStatus' = aStatus
        BY <1>14 DEF SavePending
      <4>2. aStatus'[u] = "signed" => aStatus[u] = "signed"
        BY <4>1 DEF AShape
      <4>3. \/ answers' = [answers EXCEPT ![t] = @ \cup {Answer("pending_review", "nil")}]
            \/ answers' = [answers EXCEPT ![t] = @ \cup {Answer("error", "nil")}]
        BY <1>14 DEF SavePending, Respond
      <4>4. \A a \in answers'[u] : a.status = "signed" => a \in answers[u]
        <5>1. CASE answers' = [answers EXCEPT ![t] = @ \cup {Answer("pending_review", "nil")}]
          BY <5>1 DEF AShape
        <5>2. CASE answers' = [answers EXCEPT ![t] = @ \cup {Answer("error", "nil")}]
          BY <5>2 DEF AShape
        <5> QED
          BY <4>3, <5>1, <5>2
      <4> QED
        BY <1>14, <2>1, <4>2, <4>4 DEF SavePending, NoEvidence, Posted
    <3>3. RejectInv(u)'
      <4>1. /\ UNCHANGED <<run, qStatus, qTx, reply, status, resp>>
            /\ aTx'[u] = "tx" => aTx[u] = "tx"
        BY <1>14 DEF SavePending, AShape
      <4>2. \/ answers' = [answers EXCEPT ![t] = @ \cup {Answer("pending_review", "nil")}]
            \/ answers' = [answers EXCEPT ![t] = @ \cup {Answer("error", "nil")}]
        BY <1>14 DEF SavePending, Respond
      <4>3. /\ Given(u, "signed", "tx")' => Given(u, "signed", "tx")
            /\ Given(u, "rejected", "nil")' => Given(u, "rejected", "nil")
        <5>1. \A x \in answers'[u] : x \in answers[u] \/ x.status \in {"pending_review", "error"}
          BY SMTT(60), <4>2, Given1
        <5> QED
          BY <5>1 DEF Given
      <4> QED
        BY <4>1, <4>3 DEF RejectInv, Succeeded
    <3> QED
      BY <3>1, <3>2, <3>3 DEF Advances
  <2> QED
    BY <2>1, <2>2, <2>3, <2>4, AKeeps
<1>15. ASSUME NEW t \in Tx, LookupPushed(t), UNCHANGED <<bVars, wires>> PROVE Inv'
  <2>1. UNCHANGED bVars /\ Posted
    BY <1>15, AReads DEF LookupPushed
  <2>2. AShape'
    BY <1>15 DEF LookupPushed, AShape, AnswerType, PollReply
  <2>3. Forward
    BY <1>15 DEF LookupPushed, Forward, AShape, MessageInv, CallInv, Fresh
  <2>4. ASSUME NEW u \in Tx PROVE Advances(u)
    <3>1. CallInv(u)'
      BY <1>15 DEF LookupPushed, AShape, CallInv, Fresh
    <3>2. NoEvidence(u) => NoEvidence(u)'
      BY <1>15, <2>1 DEF LookupPushed, AShape, NoEvidence, Posted
    <3>3. RejectInv(u)'
      BY <1>15 DEF LookupPushed, AShape, RejectInv, Succeeded, Given
    <3> QED
      BY <3>1, <3>2, <3>3 DEF Advances
  <2> QED
    BY <2>1, <2>2, <2>3, <2>4, AKeeps
<1>16. ASSUME NEW t \in Tx, ReturnRun(t), UNCHANGED <<bVars, wires>> PROVE Inv'
  <2>1. UNCHANGED bVars /\ Posted
    BY <1>16, AReads DEF ReturnRun
  <2>2. AShape'
    BY <1>16 DEF ReturnRun, Respond, AShape, AnswerType, PollReply
  <2>3. Forward
    BY <1>16 DEF ReturnRun, Respond, Forward, AShape, MessageInv, CallInv, Fresh
  <2>4. ASSUME NEW u \in Tx PROVE Advances(u)
    <3>1. CallInv(u)'
      BY SMTT(30), <1>16 DEF ReturnRun, Respond, AShape, CallInv, Fresh
    <3>2. NoEvidence(u) => NoEvidence(u)'
      BY <1>16, <2>1 DEF ReturnRun, Respond, AShape, NoEvidence, Posted
    <3>3. RejectInv(u)'
      BY <1>16 DEF ReturnRun, Respond, AShape, RejectInv, Succeeded, Given
    <3> QED
      BY <3>1, <3>2, <3>3 DEF Advances
  <2> QED
    BY <2>1, <2>2, <2>3, <2>4, AKeeps
<1>17. ASSUME NEW t \in Tx, QueueOutcome(t), UNCHANGED <<bVars, wires>> PROVE Inv'
  <2>1. UNCHANGED bVars /\ Posted
    BY <1>17, AReads DEF QueueOutcome
  <2>2. AShape'
    <3>1. qStatus' \in [Tx -> Statuses] /\ qTx' \in [Tx -> Payload]
      BY <1>17, Queues DEF QueueOutcome
    <3>2. run' = [run EXCEPT ![t] = "storing"] \/ run' = [run EXCEPT ![t] = "ended"]
      BY <1>17 DEF QueueOutcome
    <3>3. run' \in [Tx -> {"none", "pushed", "ignored", "start", "waitAck", "tss",
                           "signed", "failed", "storing", "ended"}]
      BY ZenonT(30), <3>2 DEF AShape
    <3> QED
      BY <1>17, <3>1, <3>3 DEF QueueOutcome, AShape
  <2>3. Forward
    BY <1>17 DEF QueueOutcome, UpdateQueue, Forward, AShape, MessageInv, CallInv, Fresh
  <2>4. ASSUME NEW u \in Tx PROVE Advances(u)
    <3>1. CallInv(u)'
      BY <1>17 DEF QueueOutcome, UpdateQueue, AShape, CallInv, Fresh
    <3>2. NoEvidence(u) => NoEvidence(u)'
      BY <1>17, <2>1 DEF QueueOutcome, UpdateQueue, AShape, NoEvidence, Posted
    <3>3. RejectInv(u)'
      <4>1. UNCHANGED <<aTx, reply, answers, status, resp>>
        BY <1>17 DEF QueueOutcome
      <4>2. CASE u # t
        <5>1. run'[u] = run[u] /\ qStatus'[u] = qStatus[u] /\ qTx'[u] = qTx[u]
          BY <1>17, <4>2 DEF QueueOutcome, UpdateQueue, AShape
        <5> QED
          BY <4>1, <5>1 DEF RejectInv, Succeeded, Given
      <4>3. CASE u = t /\ run[t] = "signed"
        <5>1. run'[t] = "storing"
          BY <1>17, <4>3 DEF QueueOutcome, UpdateQueue, AShape
        <5>2. qStatus'[t] # "rejected"
          BY <1>17, <4>3 DEF QueueOutcome, UpdateQueue, AShape
        <5> QED
          BY <4>1, <4>3, <5>1, <5>2 DEF RejectInv, Succeeded, Given
      <4>4. CASE u = t /\ run[t] = "failed"
        <5>1. run'[t] = "ended" /\ qTx' = qTx
          BY <1>17, <4>4 DEF QueueOutcome, UpdateQueue, AShape
        <5> QED
          BY <4>1, <4>4, <5>1 DEF RejectInv, Succeeded, Given
      <4> QED
        BY <1>17, <4>2, <4>3, <4>4 DEF QueueOutcome
    <3> QED
      BY <3>1, <3>2, <3>3 DEF Advances
  <2> QED
    BY <2>1, <2>2, <2>3, <2>4, AKeeps
<1>18. ASSUME NEW t \in Tx, StoreSigned(t), UNCHANGED <<bVars, wires>> PROVE Inv'
  <2>1. UNCHANGED bVars /\ Posted
    BY <1>18, AReads DEF StoreSigned
  <2>2. AShape'
    BY ZenonT(30), <1>18 DEF StoreSigned, AShape, AnswerType, PollReply
  <2>3. Forward
    BY <1>18 DEF StoreSigned, Forward, AShape, MessageInv, CallInv, Fresh
  <2>4. ASSUME NEW u \in Tx PROVE Advances(u)
    <3>1. CallInv(u)'
      BY <1>18 DEF StoreSigned, AShape, CallInv, Fresh
    <3>2. NoEvidence(u) => NoEvidence(u)'
      BY <1>18, <2>1 DEF StoreSigned, AShape, NoEvidence, Posted
    <3>3. RejectInv(u)'
      BY <1>18 DEF StoreSigned, AShape, RejectInv, Succeeded, Given
    <3> QED
      BY <3>1, <3>2, <3>3 DEF Advances
  <2> QED
    BY <2>1, <2>2, <2>3, <2>4, AKeeps
<1>19. ASSUME NEW t \in Tx, ApplyStatus(t), UNCHANGED <<bVars, wires>> PROVE Inv'
  <2>1. UNCHANGED bVars /\ Posted
    BY <1>19, AReads DEF ApplyStatus
  <2>2. AShape'
    <3>1. reply[t] \in PollReply /\ reply[t].status # "none"
      BY <1>19 DEF ApplyStatus, AShape
    <3>2. reply[t] \in AnswerType /\ reply[t].status \in Statuses /\ reply[t].payload \in Payload
      BY <3>1 DEF PollReply, AnswerType
    <3>3. handed' \in [Tx -> Nat] /\ answers' \in [Tx -> SUBSET AnswerType]
      BY <1>19, <3>2, Responds DEF ApplyStatus
    <3>4. qStatus' \in [Tx -> Statuses] /\ qTx' \in [Tx -> Payload]
      <4>1. CASE UpdateQueue(t, reply[t].status, reply[t].payload)
        BY <3>2, <4>1, Queues
      <4>2. CASE ~UpdateQueue(t, reply[t].status, reply[t].payload)
        BY ZenonT(30), <1>19, <4>2 DEF ApplyStatus, AShape
      <4> QED
        BY <4>1, <4>2
    <3>5. reply' \in [Tx -> PollReply] /\ polls' \in [Tx -> {"idle", "querying", "replied", "fetched"}]
      BY <1>19 DEF ApplyStatus, AShape, PollReply
    <3> QED
      BY <1>19, <3>3, <3>4, <3>5 DEF ApplyStatus, AShape
  <2>3. Forward
    BY <1>19 DEF ApplyStatus, Respond, UpdateQueue, Forward, AShape, MessageInv, CallInv, Fresh
  <2>4. ASSUME NEW u \in Tx PROVE Advances(u)
    <3>1. CallInv(u)'
      BY <1>19 DEF ApplyStatus, Respond, UpdateQueue, AShape, CallInv, Fresh
    <3>2. NoEvidence(u) => NoEvidence(u)'
      BY <1>19, <2>1 DEF ApplyStatus, Respond, UpdateQueue, AShape, NoEvidence, Posted
    <3>3. RejectInv(u)'
      <4>1. reply[t] \in PollReply /\ (reply[t].status = "rejected" => status[t] = "rejected")
        BY DEF AShape, MessageInv
      <4>2. reply'[t].payload # "tx"
        BY <1>19 DEF ApplyStatus, AShape
      <4>3. CASE u # t
        BY <1>19, <4>3 DEF ApplyStatus, Respond, UpdateQueue, AShape, RejectInv, Succeeded, Given
      <4>4. CASE u = t
        <5>1. /\ qTx'[u] = "tx" => qTx[u] = "tx" \/ reply[u].payload = "tx"
              /\ qStatus'[u] = "rejected" => status[u] = "rejected" \/ qStatus'[u] = qStatus[u]
          BY <1>19, <4>1, <4>2, <4>4 DEF ApplyStatus, UpdateQueue, AShape
        <5>2. /\ Given(u, "signed", "tx")' => Given(u, "signed", "tx") \/ reply[u].payload = "tx"
              /\ Given(u, "rejected", "nil")' => Given(u, "rejected", "nil") \/ status[u] = "rejected"
          BY <1>19, <4>1, <4>2, <4>4 DEF ApplyStatus, Respond, Given, AShape
        <5>3. qStatus'[u] = "rejected" =>
                status[u] = "rejected" \/ (qTx'[u] = qTx[u] /\ qStatus[u] = "rejected")
          BY <1>19, <4>1, <4>4 DEF ApplyStatus, UpdateQueue, AShape
        <5>4. UNCHANGED <<run, aTx, status, resp>>
          BY <1>19 DEF ApplyStatus
        <5> QED
          BY <4>2, <4>4, <5>1, <5>2, <5>3, <5>4 DEF RejectInv, Succeeded
      <4> QED
        BY <4>3, <4>4
    <3> QED
      BY <3>1, <3>2, <3>3 DEF Advances
  <2> QED
    BY <2>1, <2>2, <2>3, <2>4, AKeeps
<1>20. ASSUME NEW t \in Tx, PollUnknown(t), UNCHANGED <<bVars, wires>> PROVE Inv'
  <2>1. UNCHANGED bVars /\ Posted
    BY <1>20, AReads DEF PollUnknown
  <2>2. AShape'
    <3>1. qStatus[t] # "none"
      BY <1>20 DEF PollUnknown, CallInv
    <3>2. /\ qStatus' \in [Tx -> Statuses] /\ qTx' \in [Tx -> Payload]
          /\ handed' \in [Tx -> Nat] /\ answers' \in [Tx -> SUBSET AnswerType]
      BY <1>20, <3>1, AnswersFromQueue DEF PollUnknown
    <3>3. reply' \in [Tx -> PollReply] /\ polls' \in [Tx -> {"idle", "querying", "replied", "fetched"}]
      BY <1>20 DEF PollUnknown, AShape, PollReply
    <3> QED
      BY <1>20, <3>2, <3>3 DEF PollUnknown, AShape
  <2>3. Forward
    BY <1>20 DEF PollUnknown, AnswerFromQueue, Respond, Forward, AShape, MessageInv, CallInv,
       Fresh
  <2>4. ASSUME NEW u \in Tx PROVE Advances(u)
    <3>1. CallInv(u)'
      BY <1>20 DEF PollUnknown, AnswerFromQueue, Respond, AShape, CallInv, Fresh
    <3>2. NoEvidence(u) => NoEvidence(u)'
      BY <1>20, <2>1 DEF PollUnknown, AnswerFromQueue, Respond, AShape, NoEvidence, Posted
    <3>3. RejectInv(u)'
      BY <1>20 DEF PollUnknown, AnswerFromQueue, Respond, AShape, RejectInv, Succeeded, Given
    <3> QED
      BY <3>1, <3>2, <3>3 DEF Advances
  <2> QED
    BY <2>1, <2>2, <2>3, <2>4, AKeeps
<1>21. ASSUME NEW t \in Tx, CallFails(t), UNCHANGED <<bVars, wires>> PROVE Inv'
  <2>1. UNCHANGED bVars /\ Posted
    BY <1>21, AReads DEF CallFails
  <2>2. AShape'
    BY <1>21 DEF CallFails, Respond, AShape, AnswerType, PollReply
  <2>3. Forward
    BY <1>21 DEF CallFails, Respond, Forward, AShape, MessageInv, CallInv, Fresh
  <2>4. ASSUME NEW u \in Tx PROVE Advances(u)
    <3>1. CallInv(u)'
      BY <1>21 DEF CallFails, Respond, AShape, CallInv, Fresh
    <3>2. NoEvidence(u) => NoEvidence(u)'
      BY <1>21, <2>1 DEF CallFails, Respond, AShape, NoEvidence, Posted
    <3>3. RejectInv(u)'
      BY <1>21 DEF CallFails, Respond, AShape, RejectInv, Succeeded, Given
    <3> QED
      BY <3>1, <3>2, <3>3 DEF Advances
  <2> QED
    BY <2>1, <2>2, <2>3, <2>4, AKeeps
<1>22. ASSUME NEW t \in Tx, RunFails(t), UNCHANGED <<bVars, wires>> PROVE Inv'
  <2>1. UNCHANGED bVars /\ Posted
    BY <1>22, AReads DEF RunFails
  <2>2. AShape'
    BY <1>22 DEF RunFails, AShape, AnswerType, PollReply
  <2>3. Forward
    BY <1>22 DEF RunFails, Forward, AShape, MessageInv, CallInv, Fresh
  <2>4. ASSUME NEW u \in Tx PROVE Advances(u)
    <3>1. CallInv(u)'
      BY <1>22 DEF RunFails, AShape, CallInv, Fresh
    <3>2. NoEvidence(u) => NoEvidence(u)'
      BY <1>22, <2>1 DEF RunFails, AShape, NoEvidence, Posted
    <3>3. RejectInv(u)'
      BY <1>22 DEF RunFails, AShape, RejectInv, Succeeded, Given
    <3> QED
      BY <3>1, <3>2, <3>3 DEF Advances
  <2> QED
    BY <2>1, <2>2, <2>3, <2>4, AKeeps
<1>23. ASSUME NEW t \in Tx, PollQueue(t), UNCHANGED <<bVars, wires>> PROVE Inv'
  <2>1. UNCHANGED bVars /\ Posted
    BY <1>23, AReads DEF PollQueue
  <2>2. AShape'
    <3>1. /\ qStatus' \in [Tx -> Statuses] /\ qTx' \in [Tx -> Payload]
          /\ handed' \in [Tx -> Nat] /\ answers' \in [Tx -> SUBSET AnswerType]
      BY <1>23, AnswersFromQueue DEF PollQueue
    <3>2. asked' \in [Tx -> 0..MaxPolls]
      BY <1>23 DEF PollQueue, AShape
    <3> QED
      BY <1>23, <3>1, <3>2 DEF PollQueue, AShape
  <2>3. Forward
    BY <1>23 DEF PollQueue, AnswerFromQueue, Respond, Forward, AShape, MessageInv, CallInv, Fresh
  <2>4. ASSUME NEW u \in Tx PROVE Advances(u)
    <3>1. CallInv(u)'
      BY SMTT(30), <1>23 DEF PollQueue, AnswerFromQueue, Respond, AShape, CallInv, Fresh
    <3>2. NoEvidence(u) => NoEvidence(u)'
      BY <1>23, <2>1 DEF PollQueue, AnswerFromQueue, Respond, AShape, NoEvidence, Posted
    <3>3. RejectInv(u)'
      BY <1>23 DEF PollQueue, AnswerFromQueue, Respond, AShape, RejectInv, Succeeded, Given
    <3> QED
      BY <3>1, <3>2, <3>3 DEF Advances
  <2> QED
    BY <2>1, <2>2, <2>3, <2>4, AKeeps
<1>24. ASSUME NEW t \in Tx, PollStore(t), UNCHANGED <<bVars, wires>> PROVE Inv'
  <2>1. UNCHANGED bVars /\ Posted
    BY <1>24, AReads DEF PollStore
  <2>2. AShape'
    <3>1. Answer("notFound", "nil") \in AnswerType
      BY DEF AnswerType
    <3>2. handed' \in [Tx -> Nat] /\ answers' \in [Tx -> SUBSET AnswerType]
      BY <1>24, <3>1, Responds DEF PollStore, AShape
    <3>3. asked' \in [Tx -> 0..MaxPolls]
      BY <1>24 DEF PollStore, AShape
    <3>4. Answer(aStatus[t], aTx[t]) \in PollReply
      BY DEF AShape, PollReply
    <3>5. /\ reply' \in [Tx -> PollReply]
          /\ polls' \in [Tx -> {"idle", "querying", "replied", "fetched"}]
      <4>1. CASE reply' = reply /\ polls' = polls
        BY <4>1 DEF AShape
      <4>2. CASE /\ reply' = [reply EXCEPT ![t] = Answer(aStatus[t], aTx[t])]
                 /\ polls' = [polls EXCEPT ![t] = "fetched"]
        BY ZenonT(30), <3>4, <4>2 DEF AShape
      <4> QED
        BY <1>24, <4>1, <4>2 DEF PollStore
    <3> QED
      BY <1>24, <3>2, <3>3, <3>5 DEF PollStore, AShape
  <2>a. /\ UNCHANGED <<calls, qStatus, qTx, run, aMsg, aGot, aStatus, aTx, incoming>>
        /\ \/ /\ polls' = [polls EXCEPT ![t] = "fetched"]
              /\ reply' = [reply EXCEPT ![t] = Answer(aStatus[t], aTx[t])]
              /\ aStatus[t] # "none" /\ UNCHANGED <<answers, handed>>
           \/ /\ UNCHANGED <<polls, reply, handed>>
              /\ answers' = [answers EXCEPT ![t] = @ \cup {Answer("notFound", "nil")}]
    BY <1>24 DEF PollStore, Respond
  <2>b. /\ polls[t] = "idle" /\ asked' = [asked EXCEPT ![t] = @ + 1]
        /\ aStatus[t] \in {"none", "pending_review", "signed"}
    BY <1>24 DEF PollStore, AShape
  <2>c. ASSUME NEW u \in Tx
        PROVE  /\ reply'[u].status \in {reply[u].status, aStatus[u]}
               /\ reply'[u].payload \in {reply[u].payload, aTx[u]}
    <3>1. CASE reply' = reply
      BY <3>1
    <3>2. ASSUME NEW x, x.status = aStatus[t], x.payload = aTx[t],
                 reply' = [reply EXCEPT ![t] = x]
          PROVE  /\ reply'[u].status \in {reply[u].status, aStatus[u]}
                 /\ reply'[u].payload \in {reply[u].payload, aTx[u]}
      <4>1. reply'[u] = IF u = t THEN x ELSE reply[u]
        BY <3>2 DEF AShape
      <4> QED
        BY <3>2, <4>1
    <3> QED
      BY <2>a, <3>1, <3>2
  <2>d. ASSUME NEW u \in Tx, NEW x \in answers'[u]
        PROVE  x \in answers[u] \/ x.status = "notFound"
    <3>1. CASE answers' = answers
      BY <2>d, <3>1
    <3>2. ASSUME NEW y, y.status = "notFound", answers' = [answers EXCEPT ![t] = @ \cup {y}]
          PROVE  x \in answers[u] \/ x.status = "notFound"
      BY <2>d, <3>2, Given1
    <3> DEFINE y == Answer("notFound", "nil")
    <3>3. y.status = "notFound"
      OBVIOUS
    <3>4. answers' = answers \/ answers' = [answers EXCEPT ![t] = @ \cup {y}]
      BY <2>a
    <3> HIDE DEF y
    <3> QED
      BY <3>1, <3>2, <3>3, <3>4
  <2>3. Forward
    <3>1. ASSUME NEW u \in Tx, reply'[u].status = "rejected" PROVE status[u] = "rejected"
      <4>1. reply'[u].status \in {reply[u].status, aStatus[u]}
        BY <2>c
      <4>2. aStatus[u] # "rejected"
        BY DEF AShape
      <4> QED
        BY <3>1, <4>1, <4>2 DEF MessageInv
    <3> QED
      BY <2>a, <3>1 DEF Forward
  <2>4. ASSUME NEW u \in Tx PROVE Advances(u)
    <3>1. CallInv(u)'
      <4>1. UNCHANGED resp
        BY <2>1
      <4>2. CASE u # t
        <5>1. /\ polls'[u] = polls[u] /\ reply'[u] = reply[u]
              /\ asked'[u] = asked[u] /\ handed'[u] = handed[u]
          BY <2>a, <2>b, <4>2 DEF AShape
        <5> QED
          BY <2>a, <4>1, <5>1 DEF CallInv
      <4>3. CASE u = t
        <5>1. handed'[t] = handed[t] /\ asked'[t] = asked[t] + 1 /\ handed[t] \in Nat
              /\ asked[t] \in Nat
          BY <2>a, <2>b DEF AShape
        <5>2. \/ polls'[t] = "idle"
              \/ polls'[t] = "fetched" /\ reply'[t].status # "none"
          BY <2>a, <2>b DEF AShape
        <5>3. handed'[t] + (IF polls'[t] = "idle" THEN 0 ELSE 1)
                <= asked'[t] + (IF calls'[t] = "done" THEN 1 ELSE 0)
          BY <2>a, <2>b, <5>1, <5>2 DEF CallInv
        <5> QED
          BY <2>a, <4>1, <4>3, <5>2, <5>3 DEF CallInv
      <4> QED
        BY <4>2, <4>3
    <3>2. NoEvidence(u) => NoEvidence(u)'
      <4> SUFFICES ASSUME NoEvidence(u) PROVE NoEvidence(u)'
        OBVIOUS
      <4>1. reply'[u].status # "signed"
        BY <2>c DEF NoEvidence
      <4>2. \A a \in answers'[u] : a.status # "signed"
        BY <2>d DEF NoEvidence
      <4> QED
        BY <2>a, <2>1, <4>1, <4>2 DEF NoEvidence, Posted
    <3>3. RejectInv(u)'
      <4>1. reply'[u].payload = "tx" => reply[u].payload = "tx" \/ aTx[u] = "tx"
        BY <2>c
      <4>2. /\ Given(u, "signed", "tx")' => Given(u, "signed", "tx")
            /\ Given(u, "rejected", "nil")' => Given(u, "rejected", "nil")
        BY <2>d DEF Given
      <4> QED
        BY <2>a, <2>1, <4>1, <4>2 DEF RejectInv, Succeeded
    <3> QED
      BY <3>1, <3>2, <3>3 DEF Advances
  <2> QED
    BY <2>1, <2>2, <2>3, <2>4, AKeeps
<1>25. ASSUME NEW t \in Tx, AnswerFromStore(t), UNCHANGED <<bVars, wires>> PROVE Inv'
  <2>0. /\ reply[t] \in PollReply /\ reply[t].status # "none"
        /\ reply[t].status = "rejected" => status[t] = "rejected"
    BY <1>25 DEF AnswerFromStore, AShape, CallInv, MessageInv
  <2>1. UNCHANGED bVars /\ Posted
    BY <1>25, AReads DEF AnswerFromStore
  <2>2. AShape'
    <3>1. reply[t] \in AnswerType
      BY <2>0 DEF PollReply, AnswerType
    <3>2. handed' \in [Tx -> Nat] /\ answers' \in [Tx -> SUBSET AnswerType]
      BY <1>25, <3>1, Responds DEF AnswerFromStore
    <3>3. aStatus' \in [Tx -> {"none", "pending_review", "signed"}] /\ aTx' \in [Tx -> Payload]
      <4>1. CASE UNCHANGED <<aStatus, aTx>>
        BY <4>1 DEF AShape
      <4>2. CASE /\ aStatus' = [aStatus EXCEPT ![t] = "none"]
                 /\ aTx' = [aTx EXCEPT ![t] = "nil"]
        BY <4>2 DEF AShape
      <4> QED
        BY <1>25, <4>1, <4>2 DEF AnswerFromStore
    <3>4. /\ reply' \in [Tx -> PollReply]
          /\ polls' \in [Tx -> {"idle", "querying", "replied", "fetched"}]
      BY <1>25 DEF AnswerFromStore, AShape, PollReply
    <3> QED
      BY <1>25, <3>2, <3>3, <3>4 DEF AnswerFromStore, AShape
  <2>3. Forward
    BY <1>25 DEF AnswerFromStore, Respond, Forward, AShape, MessageInv, CallInv, Fresh
  <2>4. ASSUME NEW u \in Tx PROVE Advances(u)
    <3>1. CallInv(u)'
      BY SMTT(30), <1>25 DEF AnswerFromStore, Respond, AShape, CallInv, Fresh
    <3>2. NoEvidence(u) => NoEvidence(u)'
      BY SMTT(30), <1>25, <2>1 DEF AnswerFromStore, Respond, AShape, NoEvidence, Posted
    <3>3. RejectInv(u)'
      <4>1. CASE u # t
        BY <1>25, <4>1 DEF AnswerFromStore, Respond, AShape, RejectInv, Succeeded, Given
      <4>2. CASE u = t
        <5>1. /\ aTx'[u] = "tx" => aTx[u] = "tx"
              /\ reply'[u].payload # "tx"
          BY <1>25, <4>2 DEF AnswerFromStore, AShape
        <5>2. /\ Given(u, "signed", "tx")' => Given(u, "signed", "tx") \/ reply[u].payload = "tx"
              /\ Given(u, "rejected", "nil")' => Given(u, "rejected", "nil") \/ status[u] = "rejected"
          BY <1>25, <2>0, <4>2 DEF AnswerFromStore, Respond, Given, AShape
        <5>3. UNCHANGED <<run, qStatus, qTx, status, resp>>
          BY <1>25 DEF AnswerFromStore
        <5> QED
          BY <5>1, <5>2, <5>3 DEF RejectInv, Succeeded
      <4> QED
        BY <4>1, <4>2
    <3> QED
      BY <3>1, <3>2, <3>3 DEF Advances
  <2> QED
    BY <2>1, <2>2, <2>3, <2>4, AKeeps
<1> QED
  BY <1>1, <1>2, <1>3, <1>4, <1>5, <1>6, <1>7, <1>8, <1>9, <1>10, <1>11, <1>12, <1>13, <1>14,
     <1>15, <1>16, <1>17, <1>18, <1>19, <1>20, <1>21, <1>22, <1>23, <1>24, <1>25
     DEF AStep, ASendsReady, AReceives, ALocalStep, AEnvironmentStep

\* A broken connection loses what is under way, a restart of Party A everything
\* but its tables; neither makes anything true that was not.
LEMMA FailuresPreserve == ASSUME Inv, Break \/ ARestarts PROVE Inv'
<1>0. /\ WireInv /\ AShape /\ BP!TypeOK /\ MessageInv
      /\ \A u \in Tx : CallInv(u) /\ RejectInv(u) /\ BP!RequestInv(u)
  BY AFacts
<1>1. UNCHANGED bVars /\ Posted /\ Elems(toA') = {}
  BY Cut DEF Break, ARestarts, Posted
<1>2. CASE Break
  <2>1. UNCHANGED aVars
    BY <1>2 DEF Break
  <2>2. AShape' /\ Forward
    BY <1>0, <2>1 DEF AShape, Forward, MessageInv
  <2>3. ASSUME NEW u \in Tx PROVE Advances(u)
    <3>1. CallInv(u)'
      BY <1>0, <1>1, <2>1 DEF CallInv
    <3>2. NoEvidence(u) => NoEvidence(u)'
      BY <1>1, <2>1 DEF NoEvidence
    <3>3. RejectInv(u)'
      BY <1>0, <1>1, <2>1 DEF RejectInv, Succeeded, Given
    <3> QED
      BY <3>1, <3>2, <3>3 DEF Advances
  <2> QED
    BY <1>1, <2>2, <2>3, AKeeps
<1>3. CASE ARestarts
  <2>1. ARestart
    BY <1>3 DEF ARestarts
  <2>2. AShape'
    <3>1. incoming' \in Seq(ARound) /\ Len(incoming') <= IncomingCap
      BY <2>1, PartyAAssumption DEF ARestart
    <3>2. /\ calls' \in [Tx -> {"idle", "sent", "approve", "reject", "escalate",
                               "saving", "signing", "done"}]
          /\ run' \in [Tx -> {"none", "pushed", "ignored", "start", "waitAck", "tss",
                             "signed", "failed", "storing", "ended"}]
          /\ polls' \in [Tx -> {"idle", "querying", "replied", "fetched"}]
      BY <2>1 DEF ARestart
    <3>3. /\ qStatus' \in [Tx -> Statuses] /\ qTx' \in [Tx -> Payload]
          /\ reply' \in [Tx -> PollReply]
      BY <2>1 DEF ARestart, Statuses, Payload, NoReply, PollReply
    <3> QED
      BY <1>0, <2>1, <3>1, <3>2, <3>3 DEF ARestart, AShape
  <2>3. Forward
    BY <2>1 DEF ARestart, Forward, NoReply
  <2>4. ASSUME NEW u \in Tx PROVE Advances(u)
    <3>1. CallInv(u)'
      <4>1. /\ calls'[u] = IF calls[u] = "idle" THEN "idle" ELSE "done"
            /\ run'[u] = IF run[u] = "none" THEN "none" ELSE "ended"
            /\ polls'[u] = "idle"
            /\ UNCHANGED <<aMsg, aGot, asked, handed>>
        BY <2>1 DEF ARestart, outVars
      <4>2. handed[u] \in Nat /\ asked[u] \in Nat
        BY <1>0, PartyAAssumption DEF AShape
      <4>3. handed[u] + (IF polls[u] = "idle" THEN 0 ELSE 1)
              <= asked[u] + (IF calls[u] = "done" THEN 1 ELSE 0)
        BY <1>0 DEF CallInv
      <4>4. handed'[u] + (IF polls'[u] = "idle" THEN 0 ELSE 1)
              <= asked'[u] + (IF calls'[u] = "done" THEN 1 ELSE 0)
        BY <4>1, <4>2, <4>3
      <4>5. run'[u] # "none" => \/ resp'[u] = "escalate"
                                \/ (resp'[u] = "approve" /\ calls'[u] \in {"signing", "done"})
        BY <1>0, <1>1, <4>1 DEF CallInv
      <4>6. run'[u] \in Fresh => aMsg'[u] = None /\ aGot'[u] = 0
        BY <1>0, <4>1 DEF CallInv, Fresh
      <4> QED
        BY <4>1, <4>4, <4>5, <4>6 DEF CallInv
    <3>2. NoEvidence(u) => NoEvidence(u)'
      BY <1>1, <2>1, ElemsEmpty DEF NoEvidence, ARestart, NoReply
    <3>3. RejectInv(u)'
      BY <1>0, <1>1, <2>1 DEF RejectInv, Succeeded, Given, ARestart, NoReply
    <3> QED
      BY <3>1, <3>2, <3>3 DEF Advances
  <2> QED
    BY <1>1, <2>2, <2>3, <2>4, AKeeps
<1> QED
  BY <1>2, <1>3

-----------------------------------------------------------------------------
(* The theorems.                                                           *)

\* Initially nothing was asked, sent, signed or answered.
LEMMA Initial == Init => Inv
<1> SUFFICES ASSUME Init PROVE Inv
  OBVIOUS
<1>1. BInv
  BY BInitial
<1>2. WireInv /\ Elems(toA) = {} /\ Elems(toB) = {}
  BY ElemsEmpty DEF Init, WireInv
<1>3. AShape
  BY PartyAAssumption DEF Init, AInit, AShape, Statuses, Payload, NoReply, PollReply
<1>4. MessageInv /\ ByteInv
  BY <1>2, ElemsEmpty DEF Init, AInit, B!Init, MessageInv, ByteInv, NoReply
<1>5. ASSUME NEW t \in Tx PROVE CallInv(t)
  BY PartyAAssumption DEF Init, AInit, CallInv, Fresh
<1>6. ASSUME NEW t \in Tx PROVE EvidenceInv(t)
  BY <1>2, ElemsEmpty DEF Init, AInit, B!Init, EvidenceInv, NoEvidence, NoReply
<1>7. ASSUME NEW t \in Tx PROVE RejectInv(t)
  BY DEF Init, AInit, RejectInv, Succeeded, Given, NoReply
<1> QED
  BY <1>1, <1>2, <1>3, <1>4, <1>5, <1>6, <1>7 DEF Inv

\* Every step of the system keeps the invariant.
LEMMA SystemStep == Inv /\ [Next]_joint => Inv'
<1> SUFFICES ASSUME Inv, [Next]_joint PROVE Inv'
  OBVIOUS
<1>1. CASE BSide
  BY <1>1, BPreserves
<1>2. CASE Break \/ ARestarts
  BY <1>2, FailuresPreserve
<1>3. CASE UNCHANGED joint
  <2>1. UNCHANGED <<aVars, bVars, wires>>
    BY <1>3 DEF joint
  <2>2. BInv'
    BY <2>1, BSteps DEF Inv, BP!vars
  <2>3. WireInv' /\ AShape' /\ MessageInv' /\ ByteInv'
    BY <2>1 DEF Inv, WireInv, AShape, MessageInv, ByteInv
  <2>4. ASSUME NEW t \in Tx PROVE CallInv(t)'
    BY <2>1 DEF Inv, CallInv
  <2>5. ASSUME NEW t \in Tx PROVE EvidenceInv(t)' /\ RejectInv(t)'
    BY <2>1 DEF Inv, EvidenceInv, Lost, NoEvidence, Undisturbed, BP!Beaten, RejectInv,
       Succeeded, Given
  <2> QED
    BY <2>2, <2>3, <2>4, <2>5 DEF Inv
<1> QED
  BY <1>1, <1>2, <1>3, APreserves DEF Next, BSide

\* The inductive invariant of the whole system: how Party A's calls, runs, polls
\* and queue, the messages under way and Party B's table and sessions can stand
\* to each other, through failures and restarts of both sides.
THEOREM SigningInductive == Spec => []Inv
  BY Initial, SystemStep, PTL DEF Spec

\* Joined with Party A and the connection, Party B behaves as PartyB specifies:
\* the read loop hands it only messages that PartyB's open environment may
\* send. So every theorem of PartyBProofs holds of the whole system.
THEOREM PartyBInside == Spec => BP!Spec
<1>1. Init => BP!Init
  BY DEF Init, B!Init, BP!Init, B!Seeds, BP!Seeds
<1>2. Inv /\ [Next]_joint => [BP!Next]_(BP!vars)
  <2> SUFFICES ASSUME Inv, [Next]_joint PROVE [BP!Next]_(BP!vars)
    OBVIOUS
  <2>1. CASE BSide
    BY <2>1, BSideIsPartyB DEF Inv
  <2>2. CASE ~BSide
    <3>1. UNCHANGED bVars
      BY <2>2 DEF Next, BSide, joint, ADerives, ASendsRequest, ASendsQuery, AStep,
         AEnvironmentStep, AReceivesAck, AReceives, ATakesRound, ALocalStep, ASendsReady,
         Break, ARestarts
    <3> QED
      BY <3>1 DEF BP!vars
  <2> QED
    BY <2>1, <2>2
<1> QED
  BY <1>1, <1>2, SigningInductive, PTL DEF Spec, BP!Spec

\* Party A's state is well typed in every reachable state: the channel of rounds
\* keeps its bound, a run takes no more rounds than a session has, and no more
\* signed results are handed out than calls and polls were made.
THEOREM PartyATypeCorrect == Spec => []ATypeOK
<1>1. Inv => ATypeOK
  <2> SUFFICES ASSUME Inv PROVE ATypeOK
    OBVIOUS
  <2>1. AShape /\ \A t \in Tx : CallInv(t)
    BY DEF Inv
  <2>2. ASSUME NEW t \in Tx PROVE handed[t] <= asked[t] + 1 /\ answers[t] \in SUBSET AnswerType
    <3>1. handed[t] \in Nat /\ asked[t] \in Nat /\ answers[t] \in SUBSET AnswerType
      BY <2>1, PartyAAssumption DEF AShape
    <3>2. handed[t] + (IF polls[t] = "idle" THEN 0 ELSE 1)
            <= asked[t] + (IF calls[t] = "done" THEN 1 ELSE 0)
      BY <2>1 DEF CallInv
    <3> QED
      BY <3>1, <3>2
  <2> QED
    BY <2>1, <2>2 DEF ATypeOK, AShape, AnswerType, PollReply
<1> QED
  BY <1>1, SigningInductive, PTL

\* A signed result for a transaction means that Party B's session of it began.
LEMMA SignedMeansBegun ==
  ASSUME Inv, NEW t \in Tx, NEW p, Given(t, "signed", p)
  PROVE  ~Lost(t)
<1>1. ~NoEvidence(t)
  BY DEF Given, Answer, NoEvidence
<1> QED
  BY <1>1 DEF Inv, EvidenceInv

\* What a client is given as signed, in whatever way, the owner's first
\* decision approved, or the policy did and nobody was asked: no message that is
\* lost, late or repeated, no poll, failure or restart of either side gets
\* around Party B.
THEOREM SignedAuthorised == Spec => []SignedIsAuthorised
<1>1. Inv => SignedIsAuthorised
  <2> SUFFICES ASSUME Inv, NEW t \in Tx, NEW p \in Payload, Given(t, "signed", p)
               PROVE  IF resp[t] = "escalate" THEN B!OwnerApproved(t) ELSE B!PolicyApproves(t)
    BY DEF SignedIsAuthorised
  <2>1. sess[t] # "none"
    BY SignedMeansBegun DEF Lost, BP!Unbegun
  <2>2. BP!Authorised
    BY BAssumption, BP!AuthorisedFromInv DEF Inv, BInv
  <2>3. IF esc[t] # "none" THEN BP!OwnerApproved(t) ELSE BP!PolicyApproves(t)
    BY <2>1, <2>2 DEF BP!Authorised, BP!Committed
  <2>4. esc[t] # "none" <=> resp[t] = "escalate"
    BY AFacts DEF BP!RequestInv
  <2> QED
    BY <2>3, <2>4 DEF B!OwnerApproved, BP!OwnerApproved, B!PolicyApproves, BP!PolicyApproves
<1> QED
  BY <1>1, SigningInductive, PTL

\* What a client is given as signed Party B has on record as approved or
\* signed, unless another run or the library could have failed its session.
THEOREM SignedOnRecord == Spec => []SignedIsOnRecord
<1>1. Inv => SignedIsOnRecord
  <2> SUFFICES ASSUME Inv, NEW t \in Tx, NEW p \in Payload, Given(t, "signed", p),
                      Undisturbed(t)
               PROVE  status[t] \in {"approved", "signed"}
                        \cup (IF StoreMayFail THEN {"none", "pending_review"} ELSE {})
    BY DEF SignedIsOnRecord
  <2>1. ~Lost(t)
    BY SignedMeansBegun
  <2>2. BP!RecordInv(t) /\ BP!RequestInv(t) /\ BP!SessionInv(t)
    BY DEF Inv, BInv, BP!IndInv
  <2>3. sess[t] # "none" /\ ~BP!Beaten(t)
    BY <2>1 DEF Lost, BP!Unbegun
  <2>4. status[t] # "rejected"
    BY <2>2, <2>3 DEF BP!Beaten, BP!SessionInv, BP!Approved
  <2>5. status[t] \in BP!Approved \cup {"signed"}
    BY <2>2, <2>3, <2>4 DEF BP!RecordInv
  <2>6. handler[t] # "idle"
    BY <2>2, <2>3 DEF BP!RequestInv, BP!Early
  <2>7. ~StoreMayFail => status[t] # "none"
    BY <2>2, <2>6 DEF BP!RecordInv
  <2> QED
    BY <2>5, <2>7 DEF BP!Approved
<1> QED
  BY <1>1, SigningInductive, PTL

\* A client that was told "rejected" is not given the transaction, before or
\* after, unless another run or the library could have failed Party B's session.
THEOREM RejectedNeverSigned == Spec => []RejectedIsNeverSigned
<1>1. Inv => RejectedIsNeverSigned
  <2> SUFFICES ASSUME Inv, NEW t \in Tx, Undisturbed(t), Given(t, "rejected", "nil"),
                      Given(t, "signed", "tx")
               PROVE  FALSE
    BY DEF RejectedIsNeverSigned
  <2>1. sess[t] \notin BP!Unbegun /\ ~BP!Beaten(t)
    BY SignedMeansBegun DEF Lost
  <2>2. RejectInv(t) /\ BP!RequestInv(t) /\ BP!SessionInv(t)
    BY DEF Inv, BInv, BP!IndInv
  <2>3. resp[t] # "reject"
    BY <2>1, <2>2 DEF BP!RequestInv, BP!Unbegun
  <2>4. status[t] # "rejected"
    BY <2>1, <2>2 DEF BP!Beaten, BP!SessionInv, BP!Approved, BP!Unbegun
  <2> QED
    BY <2>2, <2>3, <2>4 DEF RejectInv, Succeeded
<1> QED
  BY <1>1, SigningInductive, PTL
=============================================================================

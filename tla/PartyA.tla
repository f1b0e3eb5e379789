------------------------------- MODULE PartyA -------------------------------
(***************************************************************************)
(* Party A, the agent-side signer (internal/partya/service.go,             *)
(* escalation.go and the push handler of cmd/party-a/main.go).             *)
(*                                                                         *)
(* A transaction is named by the id Party B will give it. The messages to  *)
(* and from Party B are not part of this module: an action that sends or   *)
(* receives one is joined with the wire in Signing. A client polls one     *)
(* transaction with one request at a time.                                 *)
(***************************************************************************)
EXTENDS Naturals, Sequences

CONSTANTS
    Tx, Path, Bytes,
    PathOf,        \* PathOf[t]: the derivation path of t's request
    Rounds,        \* messages one party sends in one TSS signing session
    IncomingCap,   \* capacity of Client.incomingCh (100 in the code)
    MaxPolls,      \* bound: GET /sign/{txId} requests per transaction
    AMayFail,      \* store, RPC, TSS and context errors, and a client that hangs up
    AMayRestart,   \* the process may crash and be started again
    None

ASSUME PartyAAssumption ==
    /\ PathOf \in [Tx -> Path]
    /\ Rounds \in Nat \ {0}
    /\ IncomingCap \in Nat \ {0}
    /\ MaxPolls \in Nat
    /\ AMayFail \in BOOLEAN
    /\ AMayRestart \in BOOLEAN
    /\ None \notin Bytes

VARIABLES
    aKeys,           \* Party A's derived_keys table
    calls,           \* POST /sign: where Sign is
    qStatus, qTx,    \* EscalationQueue: Status and SignedTx of an entry
    aStatus, aTx,    \* Party A's transactions table: status and signed_tx
    run, aMsg, aGot, \* runTSSSigning: where it is, its bytes, rounds received
    incoming,        \* Client.incomingCh, shared by every session
    polls, reply,    \* GET /sign/{txId}: where it is; what Party B answered or
                     \* the store held
    asked, answers, handed   \* history: polls made; results HTTP clients were
                             \* given; how many of them were "signed"

aVars == <<aKeys, calls, qStatus, qTx, aStatus, aTx, run, aMsg, aGot, incoming, polls,
           reply, asked, answers, handed>>
outVars   == <<answers, handed>>
callVars  == <<aKeys, calls, aStatus, aTx>>
queueVars == <<qStatus, qTx>>
runVars   == <<run, aMsg, aGot>>
pollVars  == <<polls, reply, asked>>

Statuses == {"none", "pending_review", "approved", "rejected", "signed"}

\* What a result may carry as signedTx: nothing, the assembled transaction, or
\* the signature that Party B stores as JSON.
Payload == {"nil", "tx", "sigJSON"}
ARound  == [tx : Tx, bytes : Bytes]   \* a TSS round message of Party B's session

NoReply == [status |-> "none", payload |-> "nil"]
Answer(s, p) == [status |-> s, payload |-> p]

AInit ==
    /\ aKeys = {}
    /\ calls = [t \in Tx |-> "idle"]
    /\ qStatus = [t \in Tx |-> "none"] /\ qTx = [t \in Tx |-> "nil"]
    /\ aStatus = [t \in Tx |-> "none"] /\ aTx = [t \in Tx |-> "nil"]
    /\ run = [t \in Tx |-> "none"]
    /\ aMsg = [t \in Tx |-> None]
    /\ aGot = [t \in Tx |-> 0]
    /\ incoming = <<>>
    /\ polls = [t \in Tx |-> "idle"]
    /\ reply = [t \in Tx |-> NoReply]
    /\ asked = [t \in Tx |-> 0]
    /\ answers = [t \in Tx |-> {}]
    /\ handed = [t \in Tx |-> 0]

\* A result is written to the HTTP client.
Respond(t, a) ==
    /\ answers' = [answers EXCEPT ![t] = @ \cup {a}]
    /\ handed' = IF a.status = "signed" THEN [handed EXCEPT ![t] = @ + 1] ELSE handed

\* A client learns the id of a transaction from a pending_review result only.
Known(t) == Answer("pending_review", "nil") \in answers[t]

-----------------------------------------------------------------------------
(* Derive and Sign.                                                        *)

\* Derive: the share is saved and MsgDeriveReq is sent; whether Party B got it
\* and what it answers is ignored.
Derive(p) ==
    /\ p \notin aKeys
    /\ aKeys' = aKeys \cup {p}
    /\ UNCHANGED <<calls, queueVars, aStatus, aTx, runVars, incoming, pollVars, outVars>>

\* The transaction is built and MsgSignRequest is sent.
RequestSign(t) ==
    /\ calls[t] = "idle" /\ PathOf[t] \in aKeys
    /\ calls' = [calls EXCEPT ![t] = "sent"]
    /\ UNCHANGED <<aKeys, queueVars, aStatus, aTx, runVars, incoming, pollVars, outVars>>

\* The read loop hands the response to the waiting Sign; one that nobody waits
\* for any more goes to the push handler, which ignores it.
DeliverSignResponse(t, d) ==
    /\ \/ /\ calls[t] = "sent"
          /\ calls' = [calls EXCEPT ![t] = d]
       \/ /\ calls[t] # "sent"
          /\ UNCHANGED calls
    /\ UNCHANGED <<aKeys, queueVars, aStatus, aTx, runVars, incoming, pollVars, outVars>>

\* "approve": runTSSSigning on the caller's goroutine.
OnApprove(t) ==
    /\ calls[t] = "approve"
    /\ calls' = [calls EXCEPT ![t] = "signing"]
    /\ run' = [run EXCEPT ![t] = "start"]
    /\ UNCHANGED <<aKeys, queueVars, aStatus, aTx, aMsg, aGot, incoming, pollVars, outVars>>

OnReject(t) ==
    /\ calls[t] = "reject"
    /\ calls' = [calls EXCEPT ![t] = "done"]
    /\ Respond(t, Answer("rejected", "nil"))
    /\ UNCHANGED <<aKeys, queueVars, aStatus, aTx, runVars, incoming, pollVars>>

\* "escalate": escalation.Add ...
OnEscalate(t) ==
    /\ calls[t] = "escalate"
    /\ calls' = [calls EXCEPT ![t] = "saving"]
    /\ qStatus' = [qStatus EXCEPT ![t] = "pending_review"]
    /\ qTx' = [qTx EXCEPT ![t] = "nil"]
    /\ UNCHANGED <<aKeys, aStatus, aTx, runVars, incoming, pollVars, outVars>>

\* ... then SaveTx, whose upsert sets both columns; its error is the caller's.
SavePending(t) ==
    /\ calls[t] = "saving"
    /\ calls' = [calls EXCEPT ![t] = "done"]
    /\ \/ /\ aStatus' = [aStatus EXCEPT ![t] = "pending_review"]
          /\ aTx' = [aTx EXCEPT ![t] = "nil"]
          /\ Respond(t, Answer("pending_review", "nil"))
       \/ /\ AMayFail
          /\ Respond(t, Answer("error", "nil"))
          /\ UNCHANGED <<aStatus, aTx>>
    /\ UNCHANGED <<aKeys, queueVars, runVars, incoming, pollVars>>

\* Request ends with the caller's context or with a send error.
CallFails(t) ==
    /\ AMayFail
    /\ calls[t] = "sent"
    /\ calls' = [calls EXCEPT ![t] = "done"]
    /\ Respond(t, Answer("error", "nil"))
    /\ UNCHANGED <<aKeys, queueVars, aStatus, aTx, runVars, incoming, pollVars>>

-----------------------------------------------------------------------------
(* runTSSSigning, for Sign and for HandleSignApproved.                     *)

\* The push handler spawns HandleSignApproved; Party B pushes a
\* transaction once.
SpawnSignApproved(t) ==
    /\ run[t] = "none"
    /\ run' = [run EXCEPT ![t] = "pushed"]
    /\ UNCHANGED <<callVars, queueVars, aMsg, aGot, incoming, pollVars, outVars>>

\* HandleSignApproved looks the transaction up; one that is not queued is
\* logged and dropped.
LookupPushed(t) ==
    /\ run[t] = "pushed"
    /\ run' = [run EXCEPT ![t] = IF qStatus[t] = "none" THEN "ignored" ELSE "start"]
    /\ UNCHANGED <<callVars, queueVars, aMsg, aGot, incoming, pollVars, outVars>>

\* The final bytes are computed (for Solana with a fresh blockhash) and sent
\* in MsgSignReady.
SendReady(t, b) ==
    /\ run[t] = "start"
    /\ run' = [run EXCEPT ![t] = "waitAck"]
    /\ aMsg' = [aMsg EXCEPT ![t] = b]
    /\ UNCHANGED <<callVars, queueVars, aGot, incoming, pollVars, outVars>>

\* The acknowledgement arrives; tss.Sign begins. A late one is ignored.
DeliverAck(t) ==
    /\ \/ /\ run[t] = "waitAck"
          /\ run' = [run EXCEPT ![t] = "tss"]
       \/ /\ run[t] # "waitAck"
          /\ UNCHANGED run
    /\ UNCHANGED <<callVars, queueVars, aMsg, aGot, incoming, pollVars, outVars>>

\* Mutant of DeliverRound: the shared channel is not bounded.
DeliverRoundUnbounded(m) ==
    /\ incoming' = Append(incoming, m)
    /\ UNCHANGED <<callVars, queueVars, runVars, pollVars, outVars>>

\* The read loop puts a round message into the one channel of the client, and
\* drops it when the channel is full.
DeliverRound(m) ==
    /\ incoming' = IF Len(incoming) < IncomingCap THEN Append(incoming, m) ELSE incoming
    /\ UNCHANGED <<callVars, queueVars, runVars, pollVars, outVars>>

\* A session takes the next message of the shared channel: its own, or one of
\* another session, on which the library errs or waits on.
TakeRound(t) ==
    /\ run[t] = "tss" /\ incoming # <<>>
    /\ incoming' = Tail(incoming)
    /\ \/ /\ Head(incoming) = [tx |-> t, bytes |-> aMsg[t]]
          /\ aGot' = [aGot EXCEPT ![t] = @ + 1]
          /\ run' = IF aGot[t] + 1 = Rounds THEN [run EXCEPT ![t] = "signed"] ELSE run
       \/ /\ Head(incoming) # [tx |-> t, bytes |-> aMsg[t]]
          /\ run' \in {run, [run EXCEPT ![t] = "failed"]}
          /\ UNCHANGED aGot
    /\ UNCHANGED <<callVars, queueVars, aMsg, pollVars, outVars>>

\* Any call of runTSSSigning may return an error: the key lookup, the RPC, the
\* request to Party B, the TSS library, the assembly.
RunFails(t) ==
    /\ AMayFail
    /\ run[t] \in {"start", "waitAck", "tss"}
    /\ run' = [run EXCEPT ![t] = "failed"]
    /\ UNCHANGED <<callVars, queueVars, aMsg, aGot, incoming, pollVars, outVars>>

\* Sign returns the outcome of its run to its caller.
ReturnRun(t) ==
    /\ calls[t] = "signing" /\ run[t] \in {"signed", "failed"}
    /\ Respond(t, IF run[t] = "signed" THEN Answer("signed", "tx") ELSE Answer("error", "nil"))
    /\ calls' = [calls EXCEPT ![t] = "done"]
    /\ run' = [run EXCEPT ![t] = "ended"]
    /\ UNCHANGED <<aKeys, queueVars, aStatus, aTx, aMsg, aGot, incoming, pollVars>>

\* EscalationQueue.Update: an entry that is gone stays gone, and a nil signedTx
\* leaves the one it has.
UpdateQueue(t, s, p) ==
    \/ /\ qStatus[t] # "none"
       /\ qStatus' = [qStatus EXCEPT ![t] = s]
       /\ qTx' = IF p = "nil" THEN qTx ELSE [qTx EXCEPT ![t] = p]
    \/ /\ qStatus[t] = "none"
       /\ UNCHANGED queueVars

\* HandleSignApproved records the outcome in the queue ...
QueueOutcome(t) ==
    /\ calls[t] # "signing"
    /\ \/ /\ run[t] = "signed"
          /\ UpdateQueue(t, "signed", "tx")
          /\ run' = [run EXCEPT ![t] = "storing"]
       \/ /\ run[t] = "failed"
          /\ UpdateQueue(t, "rejected", "nil")
          /\ run' = [run EXCEPT ![t] = "ended"]
    /\ UNCHANGED <<callVars, aMsg, aGot, incoming, pollVars, outVars>>

\* ... and a success in the store, if the row is there.
StoreSigned(t) ==
    /\ run[t] = "storing"
    /\ run' = [run EXCEPT ![t] = "ended"]
    /\ \/ /\ aStatus[t] # "none"
          /\ aStatus' = [aStatus EXCEPT ![t] = "signed"]
          /\ aTx' = [aTx EXCEPT ![t] = "tx"]
       \/ /\ aStatus[t] = "none" \/ AMayFail
          /\ UNCHANGED <<aStatus, aTx>>
    /\ UNCHANGED <<aKeys, calls, queueVars, aMsg, aGot, incoming, pollVars, outVars>>

-----------------------------------------------------------------------------
(* GetSignStatus.                                                          *)

\* A queued transaction under review: MsgTxStatusReq is sent to Party B.
PollQuery(t) ==
    /\ polls[t] = "idle" /\ asked[t] < MaxPolls /\ Known(t)
    /\ qStatus[t] = "pending_review"
    /\ asked' = [asked EXCEPT ![t] = @ + 1]
    /\ polls' = [polls EXCEPT ![t] = "querying"]
    /\ UNCHANGED <<callVars, queueVars, runVars, incoming, reply, outVars>>

\* Party B's answer reaches the waiting poll.
DeliverStatus(t, a) ==
    /\ \/ /\ polls[t] = "querying"
          /\ polls' = [polls EXCEPT ![t] = "replied"]
          /\ reply' = [reply EXCEPT ![t] = a]
       \/ /\ polls[t] # "querying"
          /\ UNCHANGED <<polls, reply>>
    /\ UNCHANGED <<callVars, queueVars, runVars, incoming, asked, outVars>>

\* queryPartyBTxStatus: Party B's status and signed_tx overwrite the entry and
\* are the result; a signed one is deleted from the queue.
ApplyStatus(t) ==
    /\ polls[t] = "replied" /\ reply[t].status # "none"
    /\ polls' = [polls EXCEPT ![t] = "idle"]
    /\ reply' = [reply EXCEPT ![t] = NoReply]
    /\ Respond(t, reply[t])
    /\ \/ /\ reply[t].status = "signed" /\ reply[t].payload # "nil"
          /\ qStatus' = [qStatus EXCEPT ![t] = "none"]
          /\ qTx' = [qTx EXCEPT ![t] = "nil"]
       \/ /\ ~(reply[t].status = "signed" /\ reply[t].payload # "nil")
          /\ UpdateQueue(t, reply[t].status, reply[t].payload)
    /\ UNCHANGED <<callVars, runVars, incoming, asked>>

\* The entry itself is the result; a signed one is deleted from the queue and
\* from nowhere else.
AnswerFromQueue(t) ==
    /\ Respond(t, Answer(qStatus[t], qTx[t]))
    /\ \/ /\ qStatus[t] = "signed" /\ qTx[t] # "nil"
          /\ qStatus' = [qStatus EXCEPT ![t] = "none"]
          /\ qTx' = [qTx EXCEPT ![t] = "nil"]
       \/ /\ ~(qStatus[t] = "signed" /\ qTx[t] # "nil")
          /\ UNCHANGED queueVars

\* Party B does not know the transaction, or could not be asked.
PollUnknown(t) ==
    /\ \/ polls[t] = "replied" /\ reply[t].status = "none"
       \/ polls[t] = "querying" /\ AMayFail
    /\ polls' = [polls EXCEPT ![t] = "idle"]
    /\ reply' = [reply EXCEPT ![t] = NoReply]
    /\ AnswerFromQueue(t)
    /\ UNCHANGED <<callVars, runVars, incoming, asked>>

\* A queued transaction that is no longer under review.
PollQueue(t) ==
    /\ polls[t] = "idle" /\ asked[t] < MaxPolls /\ Known(t)
    /\ qStatus[t] \notin {"none", "pending_review"}
    /\ asked' = [asked EXCEPT ![t] = @ + 1]
    /\ AnswerFromQueue(t)
    /\ UNCHANGED <<callVars, runVars, incoming, polls, reply>>

\* Not queued: the row of the store is read; no row, or an error, is a 404.
PollStore(t) ==
    /\ polls[t] = "idle" /\ asked[t] < MaxPolls /\ Known(t)
    /\ qStatus[t] = "none"
    /\ asked' = [asked EXCEPT ![t] = @ + 1]
    /\ \/ /\ aStatus[t] # "none"
          /\ polls' = [polls EXCEPT ![t] = "fetched"]
          /\ reply' = [reply EXCEPT ![t] = Answer(aStatus[t], aTx[t])]
          /\ UNCHANGED outVars
       \/ /\ aStatus[t] = "none" \/ AMayFail
          /\ Respond(t, Answer("notFound", "nil"))
          /\ UNCHANGED <<polls, reply>>
    /\ UNCHANGED <<callVars, queueVars, runVars, incoming>>

\* It is the result as it was read; if that is signed the row is deleted,
\* whatever it says by now, and an error of the delete is ignored.
AnswerFromStore(t) ==
    /\ polls[t] = "fetched"
    /\ polls' = [polls EXCEPT ![t] = "idle"]
    /\ reply' = [reply EXCEPT ![t] = NoReply]
    /\ Respond(t, reply[t])
    /\ \/ /\ reply[t].status = "signed" /\ reply[t].payload # "nil"
          /\ aStatus' = [aStatus EXCEPT ![t] = "none"]
          /\ aTx' = [aTx EXCEPT ![t] = "nil"]
       \/ /\ AMayFail \/ ~(reply[t].status = "signed" /\ reply[t].payload # "nil")
          /\ UNCHANGED <<aStatus, aTx>>
    /\ UNCHANGED <<aKeys, calls, queueVars, runVars, incoming, asked>>

-----------------------------------------------------------------------------

\* The process dies and is started again: only the table remains.
ARestart ==
    /\ AMayRestart
    /\ calls' = [t \in Tx |-> IF calls[t] = "idle" THEN "idle" ELSE "done"]
    /\ qStatus' = [t \in Tx |-> "none"] /\ qTx' = [t \in Tx |-> "nil"]
    /\ run' = [t \in Tx |-> IF run[t] = "none" THEN "none" ELSE "ended"]
    /\ incoming' = <<>>
    /\ polls' = [t \in Tx |-> "idle"]
    /\ reply' = [t \in Tx |-> NoReply]
    /\ UNCHANGED <<aKeys, aStatus, aTx, aMsg, aGot, asked, outVars>>

\* Type invariant of Party A's state.
ATypeOK ==
    /\ aKeys \subseteq Path
    /\ calls \in [Tx -> {"idle", "sent", "approve", "reject", "escalate",
                         "saving", "signing", "done"}]
    /\ qStatus \in [Tx -> Statuses]
    /\ aStatus \in [Tx -> {"none", "pending_review", "signed"}]
    /\ qTx \in [Tx -> Payload] /\ aTx \in [Tx -> Payload]
    /\ run \in [Tx -> {"none", "pushed", "ignored", "start", "waitAck", "tss",
                       "signed", "failed", "storing", "ended"}]
    /\ aMsg \in [Tx -> Bytes \cup {None}]
    /\ aGot \in [Tx -> 0..Rounds]
    /\ incoming \in Seq(ARound) /\ Len(incoming) <= IncomingCap
    /\ polls \in [Tx -> {"idle", "querying", "replied", "fetched"}]
    /\ asked \in [Tx -> 0..MaxPolls]
    /\ reply \in [Tx -> [status : Statuses, payload : Payload]]
    /\ \A t \in Tx : /\ handed[t] <= asked[t] + 1
                     /\ answers[t] \subseteq
                          [status : (Statuses \ {"none"}) \cup {"error", "notFound"},
                           payload : Payload]
=============================================================================

------------------------------- MODULE Signing -------------------------------
(***************************************************************************)
(* Party A and Party B joined by their mTLS connection.                    *)
(*                                                                         *)
(* The wires are FIFO. Party B's read loop (server.go handleConn) is       *)
(* serial: while it is inside HandleSignRequest, FeedMessage or the send   *)
(* of HandleSignReady it takes no other message. Party A's read loop       *)
(* (client.go readLoop) hands every message to the goroutine that waits    *)
(* for it, to the shared round channel or to the push handler. When the    *)
(* connection breaks, what is on the wires is lost and so are the answers  *)
(* of handlers that still run for it.                                      *)
(***************************************************************************)
EXTENDS PartyA, FiniteSets

CONSTANTS
    Addr, To, SeedWhitelist, AutoModeCfg, HasBot, StoreMayFail, MayRestart,
    Buttons, MaxPresses, RouterCap, MaxFeeds,   \* of PartyB
    TssMayFail,    \* the TSS library may err at Party B
    Punctual,      \* messages arrive before Party B's 30 s timer fires
    MaxBreaks      \* bound: how often the connection breaks

ASSUME SigningAssumption ==
    /\ To \in [Tx -> SUBSET Addr]
    /\ SeedWhitelist \subseteq Addr
    /\ AutoModeCfg \in BOOLEAN
    /\ HasBot \in BOOLEAN
    /\ StoreMayFail \in BOOLEAN
    /\ MayRestart \in BOOLEAN
    /\ Buttons \subseteq {"approve", "whitelist", "reject"}
    /\ MaxPresses \in Nat
    /\ RouterCap \in Nat \ {0}
    /\ MaxFeeds \in Nat
    /\ None \notin Tx
    /\ TssMayFail \in BOOLEAN
    /\ Punctual \in BOOLEAN
    /\ MaxBreaks \in Nat

VARIABLES status, signedTx, whitelist, keys, autoMode, shown, botPc, botTx, botYes,
          handler, resp, pending, reqCache, decisionCh, esc, activeRouter, sess,
          signReady, readyCh, msg, inbox, got, feeding, handing, pressed, presses,
          verdict, newest

VARIABLES toA, toB,  \* the two directions of the connection
          serving,   \* what Party B's read loop is inside of: the request of
                     \* HandleSignRequest, the call of FeedMessage or of
                     \* HandleSignReady, or None
          breaks     \* how often the connection broke

B == INSTANCE PartyB

bVars  == <<status, signedTx, whitelist, keys, autoMode, shown, botPc, botTx, botYes,
            handler, resp, pending, reqCache, decisionCh, esc, activeRouter, sess,
            signReady, readyCh, msg, inbox, got, feeding, handing, pressed, presses,
            verdict, newest>>

wires  == <<toA, toB, serving, breaks>>
joint  == <<aVars, bVars, wires>>

\* x is what the message is about: a transaction, for "derive" a path.
Msg(k, t, x) == [kind |-> k, tx |-> t, arg |-> x]

Init ==
    /\ AInit
    /\ B!Init
    /\ toA = <<>> /\ toB = <<>>
    /\ serving = None
    /\ breaks = 0

ToB(m) == toB' = Append(toB, m) /\ UNCHANGED <<toA, serving, breaks>>
ToA(m) == toA' = Append(toA, m) /\ UNCHANGED <<toB, serving, breaks>>

-----------------------------------------------------------------------------
(* Party A sends.                                                          *)

ADerives(p) ==
    /\ Derive(p) /\ ToB(Msg("derive", p, None)) /\ UNCHANGED bVars

ASendsRequest(t) ==
    /\ RequestSign(t) /\ ToB(Msg("sign", t, None)) /\ UNCHANGED bVars

ASendsReady(t) ==
    /\ \E b \in Bytes : SendReady(t, b) /\ ToB(Msg("ready", t, b))
    /\ UNCHANGED bVars

ASendsQuery(t) ==
    /\ PollQuery(t) /\ ToB(Msg("status", t, None)) /\ UNCHANGED bVars

\* A session sends its first round when it begins, and the next one whenever it
\* has taken one and needs more.
AReceivesAck(t) ==
    /\ toA # <<>> /\ Head(toA) = Msg("ack", t, None)
    /\ DeliverAck(t)
    /\ toA' = Tail(toA)
    /\ toB' = IF run[t] = "waitAck" THEN Append(toB, Msg("round", t, aMsg[t])) ELSE toB
    /\ UNCHANGED <<bVars, serving, breaks>>

ATakesRound(t) ==
    /\ TakeRound(t)
    /\ toB' = IF aGot' # aGot /\ aGot'[t] < Rounds
              THEN Append(toB, Msg("round", t, aMsg[t])) ELSE toB
    /\ UNCHANGED <<bVars, toA, serving, breaks>>

(* Party A's read loop.                                                    *)

AReceives(t) ==
    /\ toA # <<>> /\ Head(toA).tx = t
    /\ LET m == Head(toA) IN
         \/ m.kind = "response" /\ DeliverSignResponse(t, m.arg)
         \/ m.kind = "statusResp" /\ DeliverStatus(t, m.arg)
         \/ m.kind = "approved" /\ SpawnSignApproved(t)
         \/ m.kind = "round" /\ DeliverRound([tx |-> t, bytes |-> m.arg])
    /\ toA' = Tail(toA)
    /\ UNCHANGED <<bVars, toB, serving, breaks>>

ALocalStep(t) ==
    /\ \/ OnApprove(t) \/ OnReject(t) \/ OnEscalate(t) \/ SavePending(t)
       \/ LookupPushed(t) \/ ReturnRun(t) \/ QueueOutcome(t) \/ StoreSigned(t)
       \/ ApplyStatus(t) \/ PollUnknown(t) \/ AnswerFromStore(t)
    /\ UNCHANGED <<bVars, wires>>

AEnvironmentStep(t) ==
    /\ CallFails(t) \/ RunFails(t) \/ PollQueue(t) \/ PollStore(t)
    /\ UNCHANGED <<bVars, wires>>

-----------------------------------------------------------------------------
(* Party B's read loop.                                                    *)

BReceives ==
    /\ toB # <<>> /\ serving = None
    /\ UNCHANGED <<aVars, breaks>>
    /\ toB' = Tail(toB)
    /\ LET m == Head(toB) IN
         \/ /\ m.kind = "sign"
            /\ B!ReceiveSignRequest(m.tx)
            /\ serving' = m.tx
            /\ UNCHANGED toA
         \/ /\ m.kind = "ready"
            /\ B!HandleSignReady(m.tx, m.arg)
            /\ IF m.tx \in signReady
               THEN serving' = [tx |-> m.tx, bytes |-> m.arg] /\ UNCHANGED toA
               ELSE toA' = Append(toA, Msg("ack", m.tx, None)) /\ UNCHANGED serving
         \/ /\ m.kind = "round"
            /\ B!HandleTSSRound([tx |-> m.tx, bytes |-> m.arg])
            /\ serving' = IF activeRouter = None THEN None ELSE
                            [to |-> activeRouter, round |-> [tx |-> m.tx, bytes |-> m.arg]]
            /\ UNCHANGED toA
         \/ /\ m.kind = "derive"
            /\ B!HandleDeriveRequest(m.tx)
            /\ UNCHANGED <<toA, serving>>
         \/ /\ m.kind = "status"
            /\ \E a \in B!TxStatuses(m.tx) : toA' = Append(toA, Msg("statusResp", m.tx, a))
            /\ UNCHANGED <<bVars, serving>>

BFeeds(f) ==
    /\ B!FeedMessage(f)
    /\ serving' = IF serving = f THEN None ELSE serving
    /\ UNCHANGED <<aVars, toA, toB, breaks>>

\* HandleSignReady returns and is acknowledged.
BHandsReady(r) ==
    /\ B!HandReady(r)
    /\ \/ /\ serving = r
          /\ toA' = Append(toA, Msg("ack", r.tx, None))
          /\ serving' = None
       \/ /\ serving # r
          /\ UNCHANGED <<toA, serving>>
    /\ UNCHANGED <<aVars, toB, breaks>>

\* The response of HandleSignRequest, unless the connection it came from is gone.
BReplies(t) ==
    /\ B!Reply(t)
    /\ \/ /\ serving = t
          /\ toA' = Append(toA, Msg("response", t, resp[t]))
          /\ serving' = None
       \/ /\ serving # t
          /\ UNCHANGED <<toA, serving>>
    /\ UNCHANGED <<aVars, toB, breaks>>

BPushes(t) ==
    /\ B!PushApproved(t) /\ ToA(Msg("approved", t, None)) /\ UNCHANGED aVars

BBeginsTss(t) ==
    /\ B!LoadKey(t) /\ ToA(Msg("round", t, msg[t])) /\ UNCHANGED aVars

BTakesRound(t) ==
    /\ B!RoundAccepted(t)
    /\ toA' = IF got'[t] < Rounds THEN Append(toA, Msg("round", t, msg[t])) ELSE toA
    /\ UNCHANGED <<aVars, toB, serving, breaks>>

BRequestStep(t) ==
    /\ \/ B!AnalyzeReject(t) \/ B!AnalyzePass(t) \/ B!RouteAuto(t) \/ B!StartAuto(t)
       \/ B!EscalateNotify(t)
       \/ B!RegisterPending(t) \/ B!RegisterRequest(t)
    /\ UNCHANGED <<aVars, wires>>

BTelegramStep(t) == B!TelegramStep(t) /\ UNCHANGED <<aVars, wires>>

BEscalationStep(t) ==
    /\ \/ B!DecideApprove(t) \/ B!DecideReject(t) \/ B!EscalationTimeout(t)
       \/ B!StartEscalated(t) \/ B!Unpend(t) \/ B!Uncache(t)
    /\ UNCHANGED <<aVars, wires>>

\* The 30 s timer of sign fires at any time or, if Punctual, when nothing that
\* could still bring Party A's final bytes is under way.
Overdue(t) ==
    Punctual => /\ toA = <<>> /\ toB = <<>> /\ readyCh[t] = None
                /\ \A r \in handing : r.tx # t
                /\ handler[t] = "done"
                /\ run[t] \notin {"pushed", "start"}
                /\ run[t] = "none" => calls[t] \notin {"sent", "approve"}

BSessionStep(t) ==
    /\ \/ B!AwaitReady(t) \/ B!TakeReady(t) \/ B!KeyMissing(t)
       \/ B!RoundForeign(t) \/ B!StoreOutcome(t) \/ B!CloseSession(t)
       \/ Overdue(t) /\ B!ReadyTimeout(t)
    /\ UNCHANGED <<aVars, wires>>

BTssError(t) ==
    /\ TssMayFail /\ B!TssError(t) /\ UNCHANGED <<aVars, wires>>

BBotStep == B!BotStep /\ UNCHANGED <<aVars, wires>>

BOwner ==
    /\ \/ \E t \in Tx, k \in Buttons : B!Press(t, k)
       \/ \E v \in BOOLEAN : B!SetAutoMode(v)
    /\ UNCHANGED <<aVars, wires>>

-----------------------------------------------------------------------------
(* Failures.                                                               *)

\* The connection breaks and is made again (acceptLoop, connectWithRetry). The
\* handler that was running goes on, but nobody reads its answer.
Break ==
    /\ breaks < MaxBreaks
    /\ breaks' = breaks + 1
    /\ toA' = <<>> /\ toB' = <<>>
    /\ serving' = None
    /\ UNCHANGED <<aVars, bVars>>

\* A restart of one side also breaks the connection.
ARestarts ==
    /\ ARestart
    /\ breaks < MaxBreaks /\ breaks' = breaks + 1
    /\ toA' = <<>> /\ toB' = <<>> /\ serving' = None
    /\ UNCHANGED bVars

BRestarts ==
    /\ B!Restart
    /\ breaks < MaxBreaks /\ breaks' = breaks + 1
    /\ toA' = <<>> /\ toB' = <<>> /\ serving' = None
    /\ UNCHANGED aVars
-----------------------------------------------------------------------------

AStep(t) ==
    \/ AReceivesAck(t) \/ AReceives(t) \/ ATakesRound(t)
    \/ ALocalStep(t) \/ ASendsReady(t)

BStep(t) ==
    \/ BReplies(t) \/ BPushes(t) \/ BBeginsTss(t) \/ BTakesRound(t)
    \/ BRequestStep(t) \/ BEscalationStep(t) \/ BSessionStep(t)

Next ==
    \/ \E p \in Path : ADerives(p)
    \/ \E t \in Tx : \/ ASendsRequest(t) \/ ASendsQuery(t) \/ AStep(t)
                     \/ AEnvironmentStep(t) \/ BStep(t) \/ BTelegramStep(t) \/ BTssError(t)
    \/ BReceives \/ (\E f \in feeding : BFeeds(f)) \/ (\E r \in handing : BHandsReady(r))
    \/ BBotStep \/ BOwner
    \/ Break \/ ARestarts \/ BRestarts

Spec == Init /\ [][Next]_joint

\* Goroutines and read loops that can run do run, timers fire; nothing is
\* assumed of clients, of the owner, of Telegram or of failures.
FairSpec ==
    /\ Spec
    /\ \A t \in Tx : /\ WF_joint(AReceivesAck(t) \/ AReceives(t))
                     /\ WF_joint(ATakesRound(t))
                     /\ WF_joint(ALocalStep(t) \/ ASendsReady(t))
                     /\ WF_joint(BReplies(t) \/ BRequestStep(t) \/ (~HasBot /\ BTelegramStep(t)))
                     /\ WF_joint(BPushes(t) \/ BEscalationStep(t))
                     /\ WF_joint(BBeginsTss(t) \/ BTakesRound(t) \/ BSessionStep(t))
    /\ WF_joint(BReceives)
    /\ WF_joint(\E f \in feeding : BFeeds(f))
    /\ WF_joint(\E r \in handing : BHandsReady(r))
    /\ WF_joint(BBotStep)
-----------------------------------------------------------------------------
(* Properties.                                                             *)

Given(t, s, p) == Answer(s, p) \in answers[t]

\* Nothing can end Party B's session of t after Party A's has succeeded: the
\* library does not err at Party B, and no other run of Party A's ever sent a
\* round that the shared router could have handed to t's session.
Undisturbed(t) == ~TssMayFail /\ \A u \in Tx \ {t} : run[u] = "none"

\* Sign, HandleSignApproved and GetSignStatus against Party B's table: a
\* client is given a signed transaction or a signature only for a transaction
\* that Party B has on record as approved or signed (or, with a store that
\* fails, as not yet decided), whatever is polled, lost, retried or restarted
\* in between.
SignedIsOnRecord ==
    \A t \in Tx :
        /\ \E p \in Payload : Given(t, "signed", p)
        /\ Undisturbed(t)
        => status[t] \in {"approved", "signed"}
                         \cup (IF StoreMayFail THEN {"none", "pending_review"} ELSE {})

\* Every layer's part in one sentence: what a client is given as signed, the
\* owner approved, or the policy did and nobody was asked.
SignedIsAuthorised ==
    \A t \in Tx : (\E p \in Payload : Given(t, "signed", p))
                   => IF resp[t] = "escalate" THEN B!OwnerApproved(t)
                                              ELSE B!PolicyApproves(t)

\* A client that was told "rejected" is never given the transaction: a status
\* taken from Party B or recorded after a failed run stays true.
RejectedIsNeverSigned ==
    \A t \in Tx : Undisturbed(t) /\ Given(t, "rejected", "nil")
                   => ~Given(t, "signed", "tx")

\* handleConn's serial read loop against the calls that may block it: a call of
\* Telegram that does not return, or FeedMessage into a full router whose session
\* has ended, which nobody will receive from. Nothing else makes it stop: no
\* order of overlapping sessions, early or late rounds, timers and final bytes,
\* and no full router of a session that still runs.
LoopIsHeld ==
    \/ serving \in Tx /\ B!CallsTelegram(serving)
    \/ /\ serving \in feeding
       /\ sess[serving.to] = "ended" /\ Len(inbox[serving.to]) = RouterCap
Drained == toB = <<>> /\ serving = None
WireDrainsUnlessHeld == []<>(Drained \/ LoopIsHeld)

-----------------------------------------------------------------------------
(* What the documents say and the code does not do.                        *)

\* "Once you retrieve a signed transaction, it is deleted from memory.
\* Subsequent requests for the same txId will return 404."
OneTimeRetrieval == \A t \in Tx : handed[t] <= 1

\* "signedTx contains the signed transaction bytes"
SignedTxIsTransaction == \A t \in Tx : ~Given(t, "signed", "sigJSON")

\* "FeedMessage pushes an incoming TSS message from Party A into the router.": the
\* loop takes every message and comes back from it, whatever it is fed.
WireDrains == []<>Drained

\* "Once approved, the response will include the signedTx": Party A has the
\* signed transaction in the end.
ApprovedIsSigned ==
    \A t \in Tx : resp[t] = "escalate" /\ status[t] = "approved"
                   ~> "tx" \in {qTx[t], aTx[t]}
=============================================================================

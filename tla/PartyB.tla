------------------------------- MODULE PartyB -------------------------------
(***************************************************************************)
(* Party B, the co-signing server (internal/partyb/service.go), with its   *)
(* transaction store and its Telegram bot.                                 *)
(*                                                                         *)
(* The module is an open system: what Party A sends, what the owner        *)
(* presses and when the store, Telegram or the TSS library fail are chosen *)
(* freely, so that whatever holds here holds for every Party A.            *)
(*                                                                         *)
(* Every invocation of a handler and every goroutine has a program counter *)
(* per transaction; a step is what it does between two points where        *)
(* another goroutine may run: a channel operation, a map access under its  *)
(* mutex, a store call or a network call.                                  *)
(***************************************************************************)
EXTENDS Naturals, FiniteSets, Sequences

CONSTANTS
    Tx,            \* transaction ids: the uuid of HandleSignRequest is fresh,
                   \* so an id belongs to one request
    Addr, Path, Bytes,   \* addresses, derivation paths, signable byte strings
    To,            \* To[t]: the effective recipients of t's request
    PathOf,        \* PathOf[t]: the derivation path of t's request
    SeedWhitelist, \* cfg.Analyzer.Whitelist
    AutoModeCfg,   \* cfg.Analyzer.AutoMode
    HasBot,        \* cfg.Telegram.BotToken # ""
    StoreMayFail,  \* a store call may return an error
    MayRestart,    \* the process may crash and be started again
    Buttons,       \* the inline buttons the owner uses
    MaxPresses,    \* bound: how many buttons the owner presses in all
    Rounds,        \* messages one party sends in one TSS signing session
    RouterCap,     \* capacity of ServerRouter.inCh (100 in the code)
    MaxFeeds,      \* bound: read loops, one per connection, inside FeedMessage
                   \* or the send of HandleSignReady
    None           \* "nil": no transaction, no bytes

ASSUME PartyBAssumption ==
    /\ To \in [Tx -> SUBSET Addr]
    /\ PathOf \in [Tx -> Path]
    /\ SeedWhitelist \subseteq Addr
    /\ AutoModeCfg \in BOOLEAN
    /\ HasBot \in BOOLEAN
    /\ StoreMayFail \in BOOLEAN
    /\ MayRestart \in BOOLEAN
    /\ Buttons \subseteq {"approve", "whitelist", "reject"}
    /\ MaxPresses \in Nat
    /\ Rounds \in Nat \ {0}
    /\ RouterCap \in Nat \ {0}
    /\ MaxFeeds \in Nat
    /\ None \notin Tx
    /\ None \notin Bytes

VARIABLES
    status, signedTx,   \* transactions table: status and signed_tx columns
    whitelist, keys,    \* whitelist and derived_keys tables
    autoMode, shown,    \* Bot.autoMode; transactions shown with their buttons
    botPc, botTx, botYes,   \* the bot's single update loop
    handler, resp,      \* HandleSignRequest: where it is and its reply
    pending, reqCache, decisionCh, esc,   \* escalations and their goroutines
    activeRouter, sess, signReady, readyCh, msg, inbox, got, \* signing sessions
    feeding,            \* calls of FeedMessage under way: the router's session
                        \* and the round
    handing,            \* calls of HandleSignReady that found the channel
    pressed, presses, verdict, newest   \* history: buttons the owner pressed
                \* and how many, first decision delivered, session started last

storeVars == <<status, signedTx>>
tableVars == <<whitelist, keys>>
botVars   == <<botPc, botTx, botYes>>
chatVars  == <<autoMode, shown, pressed, presses>>
reqVars   == <<handler, resp>>
mapVars   == <<pending, reqCache>>
chanVars  == <<decisionCh, verdict>>
sessVars  == <<sess, signReady, readyCh, msg, inbox, got>>
loopVars  == <<feeding, handing>>
routeVars == <<activeRouter, newest, loopVars>>
vars == <<status, signedTx, whitelist, keys, autoMode, shown, botPc, botTx,
          botYes, handler, resp, pending, reqCache, decisionCh, esc,
          activeRouter, sess, signReady, readyCh, msg, inbox, got, feeding,
          handing, pressed, presses, verdict, newest>>

-----------------------------------------------------------------------------

Status  == {"none", "pending_review", "approved", "rejected", "signed"}
Round   == [tx : Tx, bytes : Bytes]   \* a TSS round message of Party A's session
Ready   == [tx : Tx, bytes : Bytes]   \* its final bytes for t's session
Feed    == [to : Tx, round : Round]

\* The program counter values of HandleSignRequest, the escalation goroutine
\* and the signing goroutine.
HandlerPc == {"idle", "saved", "listed", "unlisted", "approved", "telling",
              "asking", "notified", "registering", "reply", "done"}
EscPc     == {"none", "wait", "approved", "pushed", "unpend", "uncache", "done"}
SessPc    == {"none", "spawned", "waiting", "ready", "tss", "signed", "failed",
              "closing", "ended"}

\* Sessions whose goroutine has not returned.
Live == {t \in Tx : sess[t] \notin {"none", "ended"}}

\* What New puts into the whitelist; a failed insert is logged.
Seeds == IF StoreMayFail THEN SUBSET SeedWhitelist ELSE {SeedWhitelist}

Init ==
    /\ status = [t \in Tx |-> "none"]
    /\ signedTx = [t \in Tx |-> None]
    /\ whitelist \in Seeds
    /\ keys = {}
    /\ autoMode = AutoModeCfg
    /\ shown = {}
    /\ botPc = "idle" /\ botTx = None /\ botYes = FALSE
    /\ handler = [t \in Tx |-> "idle"]
    /\ resp = [t \in Tx |-> "none"]
    /\ pending = {} /\ reqCache = {}
    /\ decisionCh = [t \in Tx |-> "empty"]
    /\ esc = [t \in Tx |-> "none"]
    /\ activeRouter = None
    /\ sess = [t \in Tx |-> "none"]
    /\ signReady = {}
    /\ readyCh = [t \in Tx |-> None]
    /\ msg = [t \in Tx |-> None]
    /\ inbox = [t \in Tx |-> <<>>] /\ feeding = {} /\ handing = {}
    /\ got = [t \in Tx |-> 0]
    /\ pressed = [t \in Tx |-> {}] /\ presses = 0
    /\ verdict = [t \in Tx |-> "none"]
    /\ newest = None

-----------------------------------------------------------------------------
(* The store.                                                              *)

\* UpdateTxStatus: one UPDATE of both columns. A row that SaveTx could not
\* insert is not found, and an error is only logged by every caller.
WriteStatus(t, s, b) ==
    \/ /\ status[t] # "none"
       /\ status' = [status EXCEPT ![t] = s]
       /\ signedTx' = [signedTx EXCEPT ![t] = b]
    \/ /\ status[t] = "none" \/ StoreMayFail
       /\ UNCHANGED storeVars

-----------------------------------------------------------------------------
(* HandleSignRequest, run by the connection's read loop.                   *)

\* A sign request arrives: it gets a fresh id and is saved as pending; a
\* failure to save is logged and the request goes on.
ReceiveSignRequest(t) ==
    /\ handler[t] = "idle"
    /\ handler' = [handler EXCEPT ![t] = "saved"]
    /\ \/ status' = [status EXCEPT ![t] = "pending_review"]
       \/ StoreMayFail /\ UNCHANGED status
    /\ UNCHANGED <<signedTx, tableVars, botVars, chatVars, resp, mapVars,
                   chanVars, esc, sessVars, routeVars>>

\* Mutant of AnalyzeReject: without the return, the request goes on to routing.
AnalyzeRejectFallsThrough(t) ==
    /\ handler[t] = "saved"
    /\ WriteStatus(t, "rejected", None)
    /\ handler' = [handler EXCEPT ![t] = IF To[t] \cap whitelist # {} THEN "listed"
                                                                     ELSE "unlisted"]
    /\ resp' = [resp EXCEPT ![t] = "reject"]
    /\ UNCHANGED <<tableVars, botVars, chatVars, mapVars, chanVars, esc,
                   sessVars, routeVars>>

\* Analyze ends in a hard reject: recorded and replied.
AnalyzeReject(t) ==
    /\ handler[t] = "saved"
    /\ WriteStatus(t, "rejected", None)
    /\ handler' = [handler EXCEPT ![t] = "reply"]
    /\ resp' = [resp EXCEPT ![t] = "reject"]
    /\ UNCHANGED <<tableVars, botVars, chatVars, mapVars, chanVars, esc,
                   sessVars, routeVars>>

\* Analyze ends in approve or escalate. The action itself is not looked at
\* again, only whether some recipient was whitelisted when it was looked up;
\* a lookup that errs counts as not whitelisted.
AnalyzePass(t) ==
    /\ handler[t] = "saved"
    /\ \/ /\ To[t] \cap whitelist # {}
          /\ handler' = [handler EXCEPT ![t] = "listed"]
       \/ /\ To[t] \cap whitelist = {} \/ StoreMayFail
          /\ handler' = [handler EXCEPT ![t] = "unlisted"]
    /\ UNCHANGED <<storeVars, tableVars, botVars, chatVars, resp, mapVars,
                   chanVars, esc, sessVars, routeVars>>

Analyzed(t) == handler[t] \in {"listed", "unlisted"}

AutoApproves(t) == HasBot /\ autoMode /\ handler[t] = "listed"

\* Mutant of RouteAuto: the approval is not recorded.
RouteAutoUnrecorded(t) ==
    /\ AutoApproves(t)
    /\ handler' = [handler EXCEPT ![t] = "approved"]
    /\ UNCHANGED <<storeVars, tableVars, botVars, chatVars, resp, mapVars, chanVars,
                   esc, sessVars, routeVars>>

\* autoMode and whitelisted: approved without asking.
RouteAuto(t) ==
    /\ AutoApproves(t)
    /\ WriteStatus(t, "approved", None)
    /\ handler' = [handler EXCEPT ![t] = "approved"]
    /\ UNCHANGED <<tableVars, botVars, chatVars, resp, mapVars, chanVars,
                   esc, sessVars, routeVars>>

\* startSigning: a new router becomes the active one, whatever it replaces,
\* and the signing goroutine is spawned.
StartSigning(t) ==
    /\ activeRouter' = t
    /\ newest' = t
    /\ sess' = [sess EXCEPT ![t] = "spawned"]
    /\ UNCHANGED <<signReady, readyCh, msg, inbox, got, loopVars>>

\* The auto-approved transaction's session starts, and Telegram is called.
StartAuto(t) ==
    /\ handler[t] = "approved"
    /\ StartSigning(t)
    /\ handler' = [handler EXCEPT ![t] = "telling"]
    /\ UNCHANGED <<storeVars, tableVars, botVars, chatVars, resp, mapVars,
                   chanVars, esc>>

\* NotifyAutoApproved returns; its error is ignored and "approve" is the reply.
AutoNotified(t) ==
    /\ handler[t] = "telling"
    /\ handler' = [handler EXCEPT ![t] = "reply"]
    /\ resp' = [resp EXCEPT ![t] = "approve"]
    /\ UNCHANGED <<storeVars, tableVars, botVars, chatVars, mapVars,
                   chanVars, esc, sessVars, routeVars>>

\* escalate: NotifyForReview is called before anything is registered. The owner
\* may see the message as soon as the call is made.
EscalateNotify(t) ==
    /\ Analyzed(t) /\ ~AutoApproves(t)
    /\ HasBot
    /\ shown' \in {shown, shown \cup {t}}
    /\ handler' = [handler EXCEPT ![t] = "asking"]
    /\ UNCHANGED <<storeVars, tableVars, botVars, autoMode, pressed, presses, resp,
                   mapVars, chanVars, esc, sessVars, routeVars>>

\* ... and does once it returns without an error.
NotifySent(t) ==
    /\ handler[t] = "asking"
    /\ shown' = shown \cup {t}
    /\ handler' = [handler EXCEPT ![t] = "notified"]
    /\ UNCHANGED <<storeVars, tableVars, botVars, autoMode, pressed, presses, resp,
                   mapVars, chanVars, esc, sessVars, routeVars>>

\* The request is not escalated after all: a reject.
Refuse(t) ==
    /\ WriteStatus(t, "rejected", None)
    /\ handler' = [handler EXCEPT ![t] = "reply"]
    /\ resp' = [resp EXCEPT ![t] = "reject"]
    /\ UNCHANGED <<tableVars, botVars, chatVars, mapVars, chanVars, esc, sessVars, routeVars>>

\* escalate without a bot, or NotifyForReview returns an error; the owner may
\* have seen the message all the same.
EscalateFail(t) ==
    /\ \/ Analyzed(t) /\ ~AutoApproves(t) /\ ~HasBot
       \/ handler[t] = "asking"
    /\ Refuse(t)

\* The decision channel is registered under pendingMu ...
RegisterPending(t) ==
    /\ handler[t] = "notified"
    /\ pending' = pending \cup {t}
    /\ handler' = [handler EXCEPT ![t] = "registering"]
    /\ UNCHANGED <<storeVars, tableVars, botVars, chatVars, resp, reqCache,
                   chanVars, esc, sessVars, routeVars>>

\* ... then the request under reqCacheMu; the goroutine is spawned and the
\* reply is "escalate".
RegisterRequest(t) ==
    /\ handler[t] = "registering"
    /\ reqCache' = reqCache \cup {t}
    /\ esc' = [esc EXCEPT ![t] = "wait"]
    /\ handler' = [handler EXCEPT ![t] = "reply"]
    /\ resp' = [resp EXCEPT ![t] = "escalate"]
    /\ UNCHANGED <<storeVars, tableVars, botVars, chatVars, pending,
                   chanVars, sessVars, routeVars>>

\* Mutant of Reply: an escalated request is answered only once it is decided.
ReplyAfterVerdict(t) ==
    /\ handler[t] = "reply"
    /\ resp[t] = "escalate" => verdict[t] # "none"
    /\ handler' = [handler EXCEPT ![t] = "done"]
    /\ UNCHANGED <<storeVars, tableVars, botVars, chatVars, resp, mapVars,
                   chanVars, esc, sessVars, routeVars>>

\* The handler returns and the read loop writes the response.
Reply(t) ==
    /\ handler[t] = "reply"
    /\ handler' = [handler EXCEPT ![t] = "done"]
    /\ UNCHANGED <<storeVars, tableVars, botVars, chatVars, resp, mapVars,
                   chanVars, esc, sessVars, routeVars>>

-----------------------------------------------------------------------------
(* The escalation goroutine.                                               *)

\* Mutant of DecideApprove: the value received is not looked at.
DecideApproveAny(t) ==
    /\ esc[t] = "wait" /\ decisionCh[t] # "empty"
    /\ decisionCh' = [decisionCh EXCEPT ![t] = "empty"]
    /\ WriteStatus(t, "approved", None)
    /\ esc' = [esc EXCEPT ![t] = "approved"]
    /\ UNCHANGED <<tableVars, botVars, chatVars, reqVars, mapVars, verdict,
                   sessVars, routeVars>>

\* The select takes an approval: recorded.
DecideApprove(t) ==
    /\ esc[t] = "wait" /\ decisionCh[t] = "yes"
    /\ decisionCh' = [decisionCh EXCEPT ![t] = "empty"]
    /\ WriteStatus(t, "approved", None)
    /\ esc' = [esc EXCEPT ![t] = "approved"]
    /\ UNCHANGED <<tableVars, botVars, chatVars, reqVars, mapVars, verdict,
                   sessVars, routeVars>>

\* The select takes a rejection: recorded.
DecideReject(t) ==
    /\ esc[t] = "wait" /\ decisionCh[t] = "no"
    /\ decisionCh' = [decisionCh EXCEPT ![t] = "empty"]
    /\ WriteStatus(t, "rejected", None)
    /\ esc' = [esc EXCEPT ![t] = "unpend"]
    /\ UNCHANGED <<tableVars, botVars, chatVars, reqVars, mapVars, verdict,
                   sessVars, routeVars>>

\* Mutants of EscalationTimeout: it approves; it rejects but goes on to sign;
\* it does not record the rejection.
EscalationTimeoutApproves(t) ==
    /\ esc[t] = "wait"
    /\ WriteStatus(t, "approved", None)
    /\ esc' = [esc EXCEPT ![t] = "approved"]
    /\ UNCHANGED <<tableVars, botVars, chatVars, reqVars, mapVars, chanVars,
                   sessVars, routeVars>>

EscalationTimeoutFallsThrough(t) ==
    /\ esc[t] = "wait"
    /\ WriteStatus(t, "rejected", None)
    /\ esc' = [esc EXCEPT ![t] = "approved"]
    /\ UNCHANGED <<tableVars, botVars, chatVars, reqVars, mapVars, chanVars,
                   sessVars, routeVars>>

EscalationTimeoutUnrecorded(t) ==
    /\ esc[t] = "wait"
    /\ esc' = [esc EXCEPT ![t] = "unpend"]
    /\ UNCHANGED <<storeVars, tableVars, botVars, chatVars, reqVars, mapVars, chanVars,
                   sessVars, routeVars>>

\* The select takes the timer, even when a decision is ready as well.
EscalationTimeout(t) ==
    /\ esc[t] = "wait"
    /\ WriteStatus(t, "rejected", None)
    /\ esc' = [esc EXCEPT ![t] = "unpend"]
    /\ UNCHANGED <<tableVars, botVars, chatVars, reqVars, mapVars, chanVars,
                   sessVars, routeVars>>

\* onEscalationApproved: MsgSignApproved is pushed to Party A; a failed send
\* is only logged.
PushApproved(t) ==
    /\ esc[t] = "approved"
    /\ esc' = [esc EXCEPT ![t] = "pushed"]
    /\ UNCHANGED <<storeVars, tableVars, botVars, chatVars, reqVars, mapVars,
                   chanVars, sessVars, routeVars>>

\* Party B's side of signing starts after the push.
StartEscalated(t) ==
    /\ esc[t] = "pushed"
    /\ StartSigning(t)
    /\ esc' = [esc EXCEPT ![t] = "unpend"]
    /\ UNCHANGED <<storeVars, tableVars, botVars, chatVars, reqVars, mapVars,
                   chanVars>>

\* Mutant of Unpend: the entry is left in the map.
UnpendLeaks(t) ==
    /\ esc[t] = "unpend"
    /\ esc' = [esc EXCEPT ![t] = "uncache"]
    /\ UNCHANGED <<storeVars, tableVars, botVars, chatVars, reqVars, mapVars,
                   chanVars, sessVars, routeVars>>

\* The deferred clean-up, one map after the other.
Unpend(t) ==
    /\ esc[t] = "unpend"
    /\ pending' = pending \ {t}
    /\ esc' = [esc EXCEPT ![t] = "uncache"]
    /\ UNCHANGED <<storeVars, tableVars, botVars, chatVars, reqVars, reqCache,
                   chanVars, sessVars, routeVars>>

Uncache(t) ==
    /\ esc[t] = "uncache"
    /\ reqCache' = reqCache \ {t}
    /\ esc' = [esc EXCEPT ![t] = "done"]
    /\ UNCHANGED <<storeVars, tableVars, botVars, chatVars, reqVars, pending,
                   chanVars, sessVars, routeVars>>

-----------------------------------------------------------------------------
(* The Telegram bot: the owner's presses, handled one at a time.           *)

\* handleCallback takes the press of a button of a transaction it showed. It
\* calls Telegram first: a press whose calls never return is one not taken.
Press(t, k) ==
    /\ botPc = "idle" /\ presses < MaxPresses
    /\ t \in shown
    /\ presses' = presses + 1
    /\ pressed' = [pressed EXCEPT ![t] = @ \cup {k}]
    /\ botPc' = IF k = "whitelist" THEN "whitelist" ELSE "lookup"
    /\ botTx' = t
    /\ botYes' = (k # "reject")
    /\ UNCHANGED <<storeVars, tableVars, autoMode, shown, reqVars, mapVars,
                   chanVars, esc, sessVars, routeVars>>

\* The callback returns to the update loop.
BotReturns == botPc' = "idle" /\ botTx' = None /\ botYes' = FALSE

\* onTelegramWhitelist: the recipients of a cached request, those whose insert
\* does not fail; a request that is not cached is logged.
WhitelistAddrs ==
    /\ botPc = "whitelist"
    /\ \/ /\ botTx \in reqCache
          /\ \/ whitelist' = whitelist \cup To[botTx]
             \/ /\ StoreMayFail
                /\ \E S \in SUBSET To[botTx] : whitelist' = whitelist \cup S
       \/ /\ botTx \notin reqCache
          /\ UNCHANGED whitelist
    /\ botPc' = "lookup"
    /\ UNCHANGED <<storeVars, keys, botTx, botYes, chatVars, reqVars, mapVars,
                   chanVars, esc, sessVars, routeVars>>

\* Mutant of LookupDecision: "not found" is not checked.
LookupDecisionUnchecked ==
    /\ botPc = "lookup"
    /\ botPc' = "send"
    /\ UNCHANGED <<botTx, botYes, storeVars, tableVars, chatVars, reqVars,
                   mapVars, chanVars, esc, sessVars, routeVars>>

\* onTelegramDecision, the lookup under pendingMu: an unknown transaction's
\* decision is logged and dropped.
LookupDecision ==
    /\ botPc = "lookup"
    /\ \/ /\ botTx \in pending
          /\ botPc' = "send"
          /\ UNCHANGED <<botTx, botYes>>
       \/ /\ botTx \notin pending
          /\ BotReturns
    /\ UNCHANGED <<storeVars, tableVars, chatVars, reqVars,
                   mapVars, chanVars, esc, sessVars, routeVars>>

\* onTelegramDecision, the send into a channel of capacity 1: it blocks the
\* whole update loop while the buffer is full.
SendDecision ==
    /\ botPc = "send"
    /\ decisionCh[botTx] = "empty"
    /\ decisionCh' = [decisionCh EXCEPT ![botTx] = IF botYes THEN "yes" ELSE "no"]
    /\ verdict' = [verdict EXCEPT ![botTx] =
                     IF @ # "none" THEN @ ELSE IF botYes THEN "yes" ELSE "no"]
    /\ BotReturns
    /\ UNCHANGED <<storeVars, tableVars, chatVars, reqVars, mapVars, esc, sessVars, routeVars>>

\* settings:auto and settings:manual.
SetAutoMode(v) ==
    /\ HasBot /\ botPc = "idle" /\ presses < MaxPresses
    /\ presses' = presses + 1
    /\ autoMode' = v
    /\ UNCHANGED <<storeVars, tableVars, botVars, shown, pressed, reqVars,
                   mapVars, chanVars, esc, sessVars, routeVars>>

-----------------------------------------------------------------------------
(* The signing goroutine of startSigning, and the handlers that feed it.   *)

\* sign registers the channel for Party A's final bytes and waits.
AwaitReady(t) ==
    /\ sess[t] = "spawned"
    /\ sess' = [sess EXCEPT ![t] = "waiting"]
    /\ signReady' = signReady \cup {t}
    /\ UNCHANGED <<storeVars, tableVars, botVars, chatVars, reqVars, mapVars,
                   chanVars, esc, readyCh, msg, inbox, got, routeVars>>

\* Mutant of HandleSignReady: it waits for the channel to be registered.
HandleSignReadyWaits(t, b) ==
    /\ t \in signReady /\ b # None
    /\ Cardinality(feeding) + Cardinality(handing) < MaxFeeds
    /\ handing' = handing \cup {[tx |-> t, bytes |-> b]}
    /\ UNCHANGED <<storeVars, tableVars, botVars, chatVars, reqVars, mapVars,
                   chanVars, esc, sessVars, activeRouter, newest, feeding>>

\* HandleSignReady looks the channel up under signReadyMu. Without one, or with
\* bytes that are not base64 (None), it returns, and its caller acknowledges.
HandleSignReady(t, b) ==
    /\ \/ /\ t \in signReady /\ b # None
          /\ Cardinality(feeding) + Cardinality(handing) < MaxFeeds
          /\ handing' = handing \cup {[tx |-> t, bytes |-> b]}
       \/ /\ t \notin signReady \/ b = None
          /\ UNCHANGED handing
    /\ UNCHANGED <<storeVars, tableVars, botVars, chatVars, reqVars, mapVars,
                   chanVars, esc, sessVars, activeRouter, newest, feeding>>

\* The send into the channel that was found, of capacity 1, also when its
\* session has ended by now; it blocks while the channel is full.
HandReady(r) ==
    /\ r \in handing
    /\ readyCh[r.tx] = None
    /\ readyCh' = [readyCh EXCEPT ![r.tx] = r.bytes]
    /\ handing' = handing \ {r}
    /\ UNCHANGED <<storeVars, tableVars, botVars, chatVars, reqVars, mapVars, chanVars, esc,
                   sess, signReady, msg, inbox, got, activeRouter, newest, feeding>>

TakeReady(t) ==
    /\ sess[t] = "waiting" /\ readyCh[t] # None
    /\ msg' = [msg EXCEPT ![t] = readyCh[t]]
    /\ readyCh' = [readyCh EXCEPT ![t] = None]
    /\ sess' = [sess EXCEPT ![t] = "ready"]
    /\ UNCHANGED <<storeVars, tableVars, botVars, chatVars, reqVars, mapVars,
                   chanVars, esc, signReady, inbox, got, routeVars>>

\* Mutant of SignReturns: the channel stays registered.
SignReturnsLeaks(t, s) ==
    /\ sess' = [sess EXCEPT ![t] = s]
    /\ UNCHANGED signReady

\* sign returns; its deferred delete takes the channel out of the map, but a
\* read loop that found it before may still send into it.
SignReturns(t, s) ==
    /\ sess' = [sess EXCEPT ![t] = s]
    /\ signReady' = signReady \ {t}

\* Mutant of ReadyTimeout: the timer is restarted instead of ending the wait.
ReadyTimeoutRestarts(t) == sess[t] = "waiting" /\ UNCHANGED vars

\* The 30 s timer of sign.
ReadyTimeout(t) ==
    /\ sess[t] = "waiting"
    /\ SignReturns(t, "failed")
    /\ UNCHANGED <<storeVars, tableVars, botVars, chatVars, reqVars, mapVars,
                   chanVars, esc, readyCh, msg, inbox, got, routeVars>>

\* GetDerivedKey finds the share: tss.Sign begins, without a deadline.
LoadKey(t) ==
    /\ sess[t] = "ready"
    /\ PathOf[t] \in keys
    /\ sess' = [sess EXCEPT ![t] = "tss"]
    /\ UNCHANGED <<storeVars, tableVars, botVars, chatVars, reqVars, mapVars,
                   chanVars, esc, signReady, readyCh, msg, inbox, got, routeVars>>

KeyMissing(t) ==
    /\ sess[t] = "ready"
    /\ PathOf[t] \notin keys \/ StoreMayFail
    /\ SignReturns(t, "failed")
    /\ UNCHANGED <<storeVars, tableVars, botVars, chatVars, reqVars, mapVars,
                   chanVars, esc, readyCh, msg, inbox, got, routeVars>>

\* HandleTSSRound: a round message carries no session id, so it is for the
\* router that is active now, whichever session that is, or for none.
HandleTSSRound(m) ==
    /\ \/ /\ activeRouter # None
          /\ Cardinality(feeding) + Cardinality(handing) < MaxFeeds
          /\ feeding' = feeding \cup {[to |-> activeRouter, round |-> m]}
       \/ /\ activeRouter = None
          /\ UNCHANGED feeding
    /\ UNCHANGED <<storeVars, tableVars, botVars, chatVars, reqVars, mapVars,
                   chanVars, esc, sessVars, activeRouter, newest, handing>>

\* Mutant of FeedMessage: the router's channel is not bounded.
FeedMessageUnbounded(f) ==
    /\ f \in feeding
    /\ feeding' = feeding \ {f}
    /\ inbox' = [inbox EXCEPT ![f.to] = Append(@, f.round)]
    /\ UNCHANGED <<storeVars, tableVars, botVars, chatVars, reqVars, mapVars, chanVars,
                   esc, sess, signReady, readyCh, msg, got, activeRouter, newest, handing>>

\* FeedMessage sends into the channel of the router that was read, also when
\* another one is active by now, and blocks its read loop while that channel is
\* full: for good, if the session has ended and nobody receives from it.
FeedMessage(f) ==
    /\ f \in feeding
    /\ Len(inbox[f.to]) < RouterCap
    /\ feeding' = feeding \ {f}
    /\ inbox' = [inbox EXCEPT ![f.to] = Append(@, f.round)]
    /\ UNCHANGED <<storeVars, tableVars, botVars, chatVars, reqVars, mapVars, chanVars,
                   esc, sess, signReady, readyCh, msg, got, activeRouter, newest, handing>>

\* runSignLoop takes a message that belongs to this session and is about the
\* same bytes; the last one completes the signature.
RoundAccepted(t) ==
    /\ sess[t] = "tss" /\ inbox[t] # <<>>
    /\ Head(inbox[t]) = [tx |-> t, bytes |-> msg[t]]
    /\ inbox' = [inbox EXCEPT ![t] = Tail(@)]
    /\ got' = [got EXCEPT ![t] = @ + 1]
    /\ \/ /\ got[t] + 1 < Rounds
          /\ UNCHANGED <<sess, signReady>>
       \/ /\ got[t] + 1 = Rounds
          /\ SignReturns(t, "signed")
    /\ UNCHANGED <<storeVars, tableVars, botVars, chatVars, reqVars, mapVars,
                   chanVars, esc, readyCh, msg, routeVars>>

\* ... or one of another session or about other bytes: the library reports an
\* error, or stores it and waits on.
RoundForeign(t) ==
    /\ sess[t] = "tss" /\ inbox[t] # <<>>
    /\ Head(inbox[t]) # [tx |-> t, bytes |-> msg[t]]
    /\ inbox' = [inbox EXCEPT ![t] = Tail(@)]
    /\ \/ SignReturns(t, "failed")
       \/ UNCHANGED <<sess, signReady>>
    /\ UNCHANGED <<storeVars, tableVars, botVars, chatVars, reqVars, mapVars,
                   chanVars, esc, readyCh, msg, got, routeVars>>

\* An error of the TSS library or of the router's Send ends the session.
TssError(t) ==
    /\ sess[t] = "tss"
    /\ SignReturns(t, "failed")
    /\ UNCHANGED <<storeVars, tableVars, botVars, chatVars, reqVars, mapVars,
                   chanVars, esc, readyCh, msg, inbox, got, routeVars>>

\* The outcome of sign is recorded ...
StoreOutcome(t) ==
    /\ \/ sess[t] = "signed" /\ WriteStatus(t, "signed", msg[t])
       \/ sess[t] = "failed" /\ WriteStatus(t, "rejected", None)
    /\ sess' = [sess EXCEPT ![t] = "closing"]
    /\ UNCHANGED <<tableVars, botVars, chatVars, reqVars, mapVars, chanVars, esc,
                   signReady, readyCh, msg, inbox, got, routeVars>>

\* Mutant of CloseSession: the router is cleared whoever's it is.
CloseSessionUnguarded(t) ==
    /\ sess[t] = "closing"
    /\ sess' = [sess EXCEPT ![t] = "ended"]
    /\ activeRouter' = None
    /\ msg' = [msg EXCEPT ![t] = None]
    /\ got' = [got EXCEPT ![t] = 0]
    /\ UNCHANGED <<storeVars, tableVars, botVars, chatVars, reqVars, mapVars,
                   chanVars, esc, signReady, readyCh, inbox, newest, loopVars>>

\* ... and the deferred function clears the router if it is still this one's.
\* The goroutine's locals are gone with it; its router's channel stays as it
\* is for a read loop that still holds the router.
CloseSession(t) ==
    /\ sess[t] = "closing"
    /\ sess' = [sess EXCEPT ![t] = "ended"]
    /\ activeRouter' = IF activeRouter = t THEN None ELSE activeRouter
    /\ msg' = [msg EXCEPT ![t] = None]
    /\ got' = [got EXCEPT ![t] = 0]
    /\ UNCHANGED <<storeVars, tableVars, botVars, chatVars, reqVars, mapVars,
                   chanVars, esc, signReady, readyCh, inbox, newest, loopVars>>

-----------------------------------------------------------------------------

\* HandleDeriveRequest: the share for a path is derived and saved; an error
\* leaves the table alone and is the answer.
HandleDeriveRequest(p) ==
    /\ \/ keys' = keys \cup {p}
       \/ StoreMayFail /\ UNCHANGED keys
    /\ UNCHANGED <<storeVars, whitelist, botVars, chatVars, reqVars, mapVars,
                   chanVars, esc, sessVars, routeVars>>

\* GetTxStatus and the answers made of it: the row's status ("none" stands for
\* the "unknown" of a row that is not there or could not be read) and, as
\* signedTx, the stored signature in JSON.
TxStatuses(t) ==
    {[status |-> status[t], payload |-> IF signedTx[t] # None THEN "sigJSON" ELSE "nil"]}
      \cup (IF StoreMayFail THEN {[status |-> "none", payload |-> "nil"]} ELSE {})

\* The process dies and is started again: the tables and the chat remain,
\* every goroutine, channel and map is gone and autoMode is the configured one.
Restart ==
    /\ MayRestart
    /\ autoMode' = AutoModeCfg
    /\ \E S \in Seeds : whitelist' = whitelist \cup S
    /\ BotReturns
    /\ handler' = [t \in Tx |-> IF handler[t] = "idle" THEN "idle" ELSE "done"]
    /\ esc' = [t \in Tx |-> IF esc[t] = "none" THEN "none" ELSE "done"]
    /\ sess' = [t \in Tx |-> IF sess[t] = "none" THEN "none" ELSE "ended"]
    /\ pending' = {} /\ reqCache' = {} /\ signReady' = {}
    /\ decisionCh' = [t \in Tx |-> "empty"]
    /\ readyCh' = [t \in Tx |-> None]
    /\ msg' = [t \in Tx |-> None]
    /\ inbox' = [t \in Tx |-> <<>>] /\ feeding' = {} /\ handing' = {}
    /\ got' = [t \in Tx |-> 0]
    /\ activeRouter' = None
    /\ UNCHANGED <<storeVars, keys, shown, pressed, presses, resp, verdict, newest>>

-----------------------------------------------------------------------------

RequestStep(t) ==
    \/ AnalyzeReject(t) \/ AnalyzePass(t)
    \/ RouteAuto(t) \/ StartAuto(t)
    \/ EscalateNotify(t)
    \/ RegisterPending(t) \/ RegisterRequest(t)
    \/ Reply(t)

\* A call of the Telegram API returns.
TelegramStep(t) == AutoNotified(t) \/ NotifySent(t) \/ EscalateFail(t)

EscalationStep(t) ==
    \/ DecideApprove(t) \/ DecideReject(t) \/ EscalationTimeout(t)
    \/ PushApproved(t) \/ StartEscalated(t)
    \/ Unpend(t) \/ Uncache(t)

BotStep == WhitelistAddrs \/ LookupDecision \/ SendDecision

SessionStep(t) ==
    \/ AwaitReady(t) \/ TakeReady(t) \/ ReadyTimeout(t)
    \/ LoadKey(t) \/ KeyMissing(t)
    \/ RoundAccepted(t) \/ RoundForeign(t)
    \/ StoreOutcome(t) \/ CloseSession(t)

Next ==
    \/ \E t \in Tx :
          \/ ReceiveSignRequest(t)
          \/ RequestStep(t) \/ TelegramStep(t) \/ EscalationStep(t)
          \/ SessionStep(t) \/ TssError(t)
          \/ \E k \in Buttons : Press(t, k)
          \/ \E b \in Bytes \cup {None} : HandleSignReady(t, b)
    \/ \E m \in Round : HandleTSSRound(m)
    \/ \E f \in feeding : FeedMessage(f)
    \/ \E r \in handing : HandReady(r)
    \/ \E p \in Path : HandleDeriveRequest(p)
    \/ \E v \in BOOLEAN : SetAutoMode(v)
    \/ BotStep
    \/ Restart

Spec == Init /\ [][Next]_vars

\* Goroutines that can run do run and timers fire; the calls a request makes of
\* the store, of the LLM and of the ABI service (both with a timeout) return, and
\* so does a write to the connection. Nothing is assumed of Telegram, whose HTTP
\* client has no timeout, of the owner, of Party A or of the TSS library's errors.
FairSpec ==
    /\ Spec
    /\ \A t \in Tx : /\ WF_vars(RequestStep(t) \/ (~HasBot /\ EscalateFail(t)))
                     /\ WF_vars(EscalationStep(t))
                     /\ WF_vars(SessionStep(t))
    /\ WF_vars(\E f \in feeding : FeedMessage(f))
    /\ WF_vars(\E r \in handing : HandReady(r))
    /\ WF_vars(BotStep)

\* Every call of Telegram returns, with or without an error.
TelegramAnswers == \A t \in Tx : WF_vars(TelegramStep(t))

-----------------------------------------------------------------------------
(* Properties.                                                             *)

\* Type invariant: every table, map, channel and program counter of Party B
\* holds a value of its kind; the router's channel never exceeds its capacity.
TypeOK ==
    /\ status \in [Tx -> Status]
    /\ signedTx \in [Tx -> Bytes \cup {None}]
    /\ whitelist \subseteq Addr
    /\ keys \subseteq Path
    /\ autoMode \in BOOLEAN
    /\ shown \subseteq Tx
    /\ botPc \in {"idle", "whitelist", "lookup", "send"}
    /\ botTx \in Tx \cup {None}
    /\ botPc # "idle" => botTx \in Tx
    /\ botYes \in BOOLEAN
    /\ handler \in [Tx -> HandlerPc]
    /\ resp \in [Tx -> {"none", "approve", "reject", "escalate"}]
    /\ pending \subseteq Tx
    /\ reqCache \subseteq Tx
    /\ decisionCh \in [Tx -> {"empty", "yes", "no"}]
    /\ esc \in [Tx -> EscPc]
    /\ activeRouter \in Tx \cup {None}
    /\ sess \in [Tx -> SessPc]
    /\ signReady \subseteq Tx
    /\ readyCh \in [Tx -> Bytes \cup {None}]
    /\ msg \in [Tx -> Bytes \cup {None}]
    /\ inbox \in [Tx -> Seq(Round)]
    /\ \A t \in Tx : Len(inbox[t]) <= RouterCap
    /\ got \in [Tx -> 0..Rounds]
    /\ feeding \subseteq Feed /\ handing \subseteq Ready
    /\ pressed \in [Tx -> SUBSET Buttons]
    /\ presses \in 0..MaxPresses
    /\ verdict \in [Tx -> {"none", "yes", "no"}]
    /\ newest \in Tx \cup {None}

\* The owner let t through: their first decision that reached the escalation
\* was an approval, and it came from one of the two approving buttons.
OwnerApproved(t) ==
    verdict[t] = "yes" /\ pressed[t] \cap {"approve", "whitelist"} # {}

\* The policy lets t through: some recipient is a configured one, or one of
\* another transaction on which the owner pressed "Approve & Whitelist".
PolicyApproves(t) ==
    \E a \in To[t] : \/ a \in SeedWhitelist
                     \/ \E u \in Tx \ {t} : a \in To[u] /\ "whitelist" \in pressed[u]

\* Party B is committed to t: it is recorded as approved or signed, or a
\* signing session was started for it.
Committed(t) == status[t] \in {"approved", "signed"} \/ sess[t] # "none"

\* HandleSignRequest, escalate and startSigning: Party B commits to a
\* transaction only on the strength of the owner's own presses. One that was
\* escalated needs the first delivered decision on it to be an approval, never
\* a timeout, a later press or a press on something else; one that was not
\* needs a recipient whitelisted by the configuration or on another
\* transaction.
Authorised ==
    \A t \in Tx : Committed(t) =>
        IF esc[t] # "none" THEN OwnerApproved(t) ELSE PolicyApproves(t)

\* A request that Party A was told is rejected is never committed to: no early
\* return of HandleSignRequest or escalate leaves a way into startSigning, and
\* a button shown by a notification that failed decides nothing.
RejectReplyIsFinal ==
    \A t \in Tx : resp[t] = "reject" => ~Committed(t)

\* startSigning and its deferred clear: rounds are routed to the session that
\* was started last for as long as its goroutine runs, and an ended session
\* is never routed to, in whatever order earlier sessions end.
RouterServesNewest ==
    /\ newest \in Live => activeRouter = newest
    /\ activeRouter # None => activeRouter \in Live

\* The deferred deletes of escalate and sign: pending, reqCache, signReady
\* hold exactly what a running goroutine (or a handler about to spawn it) still
\* needs, so nothing is leaked and nothing waits on a channel no one can find.
MapsMatchGoroutines ==
    \A t \in Tx :
      /\ t \in pending <=> \/ handler[t] = "registering"
                           \/ esc[t] \in {"wait", "approved", "pushed", "unpend"}
      /\ t \in reqCache <=> esc[t] \notin {"none", "done"}
      /\ t \in signReady <=> sess[t] \in {"waiting", "ready", "tss"}

-----------------------------------------------------------------------------
(* The promise about the transactions table.                               *)

LC == INSTANCE TxLifecycle WITH MayLoseWrites <- StoreMayFail

\* updateTxStatus as HandleSignRequest, escalate and startSigning call it: the
\* status column only moves along TxLifecycle. In particular rejected and
\* signed are final although several goroutines write the column and each
\* write is an unconditional UPDATE.
FollowsLifecycle == LC!Spec

\* escalate's timer: a transaction recorded as under review is eventually
\* approved or rejected, whether or not the owner ever presses a button, if
\* Telegram returns from the calls that precede the timer.
ReviewIsDecided == TelegramAnswers => LC!Decides

\* The connection's read loop is serial, so no request may keep it: nothing but
\* a call of Telegram that does not return keeps HandleSignRequest from
\* returning, not the owner, not the session it started and not the store.
CallsTelegram(t) == handler[t] \in {"asking", "telling"}
RequestIsAnswered ==
    \A t \in Tx : []<>(handler[t] \in {"idle", "done"} \/ CallsTelegram(t))

\* sign's timer: a session never waits forever for Party A's final bytes, so
\* its entry in signReady does not outlive a Party A that went away.
ReadyWaitEnds == \A t \in Tx : sess[t] = "waiting" ~> sess[t] # "waiting"

\* onTelegramDecision's send: the update loop gets past a full channel unless
\* the escalation it serves has ended without reading it (a second press that
\* meets a buffered one just as the timer fires). Only then is it stuck.
BotStuckOnlyOnEnded ==
    \A t \in Tx : botPc = "send" /\ botTx = t ~> botPc = "idle" \/ esc[t] = "done"

-----------------------------------------------------------------------------
(* What comments and documents say and the code does not do.               *)

\* "if the user doesn't respond via Telegram within the configured timeout
\* (default 5 minutes), the transaction is rejected": a transaction Party A was
\* told is escalated does not stay under review for ever.
UnansweredIsRejected ==
    \A t \in Tx : resp[t] = "escalate" ~> status[t] # "pending_review"

\* "Route decision back to the service.": a decision on a transaction that is
\* still under review is handed to its escalation, not dropped.
DecisionIsRouted ==
    [][botPc = "lookup" /\ status[botTx] = "pending_review"
         => botPc' # "idle"]_vars
===============================================================================

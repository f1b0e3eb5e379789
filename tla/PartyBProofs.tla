---------------------------- MODULE PartyBProofs ----------------------------
(***************************************************************************)
(* Theorems about PartyB: type correctness, the inductive invariant, and   *)
(* from it that Party B commits only to authorised transactions, that a    *)
(* reject reply is final, that rounds reach the newest session, that the   *)
(* maps match the goroutines, and that the status column follows           *)
(* TxLifecycle.                                                            *)
(***************************************************************************)
EXTENDS PartyB, TLAPS

Early == {"idle", "saved", "listed", "unlisted", "asking", "notified", "registering"}

\* Statuses a transaction can have while nothing has been decided about it,
\* and while a decision to sign may have been recorded.
Open     == {"none", "pending_review"}
Approved == {"none", "approved"} \cup (IF StoreMayFail THEN {"pending_review"} ELSE {})

\* The buttons: only what was shown is pressed, and only pressed buttons act.
PressInv ==
    /\ \A t \in Tx : t \in shown =>
         handler[t] \in {"asking", "notified", "registering", "reply", "done"}
    /\ \A t \in Tx : pressed[t] # {} => t \in shown
    /\ botPc = "whitelist" => "whitelist" \in pressed[botTx]
    /\ botPc # "idle" /\ botYes => pressed[botTx] \cap {"approve", "whitelist"} # {}
    /\ botPc = "send" => handler[botTx] \in {"registering", "reply", "done"}
    /\ \A t \in Tx : verdict[t] = "yes" => pressed[t] \cap {"approve", "whitelist"} # {}
    /\ \A a \in whitelist : \/ a \in SeedWhitelist
                            \/ \E u \in Tx : a \in To[u] /\ "whitelist" \in pressed[u]

\* HandleSignRequest against the goroutines it spawns and its replies.
RequestInv(t) ==
    /\ handler[t] \in Early =>
         /\ resp[t] = "none" /\ esc[t] = "none" /\ sess[t] = "none"
         /\ status[t] \in Open
    /\ handler[t] = "idle" => status[t] = "none"
    /\ handler[t] = "listed" => PolicyApproves(t)
    /\ handler[t] = "approved" =>
         /\ resp[t] = "none" /\ esc[t] = "none" /\ sess[t] = "none"
         /\ status[t] \in Approved /\ PolicyApproves(t)
    /\ handler[t] = "telling" => resp[t] = "none" /\ esc[t] = "none" /\ PolicyApproves(t)
    /\ resp[t] = "reject" =>
         esc[t] = "none" /\ sess[t] = "none" /\ status[t] \in Open \cup {"rejected"}
    /\ resp[t] = "approve" => esc[t] = "none" /\ PolicyApproves(t)
    /\ resp[t] = "escalate" => esc[t] # "none"
    /\ esc[t] # "none" => resp[t] = "escalate"
    /\ handler[t] = "done" /\ resp[t] = "none" /\ Committed(t) =>
         PolicyApproves(t)
    /\ handler[t] = "reply" => resp[t] # "none"

\* The escalation goroutine against the decisions sent to it.
EscalationInv(t) ==
    /\ handler[t] \in Early \ {"registering"} => decisionCh[t] = "empty" /\ verdict[t] = "none"
    /\ handler[t] = "registering" \/ esc[t] = "wait" =>
         verdict[t] = IF decisionCh[t] = "empty" THEN "none" ELSE decisionCh[t]
    /\ esc[t] = "wait" => sess[t] = "none" /\ status[t] \in Open
    /\ esc[t] \in {"approved", "pushed"} =>
         sess[t] = "none" /\ status[t] \in Approved /\ verdict[t] = "yes"
    /\ esc[t] # "none" /\ Committed(t) => verdict[t] = "yes"

\* The signing goroutine against the status column.
SessionInv(t) ==
    /\ sess[t] \notin {"none", "closing", "ended"} => status[t] \in Approved
    /\ sess[t] # "none" => \/ resp[t] = "approve"
                           \/ handler[t] \in {"telling", "done"} /\ resp[t] = "none"
                           \/ esc[t] \in {"unpend", "uncache", "done"}

IndInv ==
    /\ PressInv
    /\ MapsMatchGoroutines
    /\ \A t \in Tx : RequestInv(t) /\ EscalationInv(t) /\ SessionInv(t)

\* Sessions that have not sent a round, and those that failed.
Unbegun == {"none", "spawned", "waiting", "ready"}
Beaten(t) == sess[t] = "failed" \/ (sess[t] \in {"closing", "ended"} /\ status[t] = "rejected")

\* The table against the sessions: what Party A's side of a signing run needs.
RecordInv(t) ==
    /\ status[t] = "signed" => sess[t] # "none"
    /\ sess[t] \in {"ready", "tss", "signed"} => msg[t] # None
    /\ sess[t] # "none" => status[t] \in Approved \cup {"signed", "rejected"}
    /\ ~StoreMayFail /\ handler[t] # "idle" => status[t] # "none"

\* What a step may do to a reply, to the status column and to a session.
Moves(t) ==
    /\ resp[t] # "none" => resp'[t] = resp[t]
    /\ status[t] = "rejected" => status'[t] = "rejected"
    /\ status'[t] = "signed" => status[t] = "signed" \/ sess[t] = "signed"
    /\ sess'[t] \in Unbegun => sess[t] \in Unbegun
    /\ Beaten(t)' => \/ Beaten(t) \/ sess[t] \in Unbegun
                     \/ (sess[t] = "tss" /\ sess'[t] = "failed")
-----------------------------------------------------------------------------

\* The tuples of PartyB's variables are always written out.
USE DEF storeVars, tableVars, botVars, chatVars, reqVars, mapVars, chanVars,
        sessVars, loopVars, routeVars

\* New inserts nothing into the whitelist but configured addresses.
LEMMA SeedsBound == \A S \in Seeds : S \subseteq SeedWhitelist
BY DEF Seeds

\* UpdateTxStatus keeps both columns well typed.
LEMMA WriteTyped ==
  ASSUME TypeOK, NEW t \in Tx, NEW s \in Status, NEW b \in Bytes \cup {None},
         WriteStatus(t, s, b)
  PROVE  status' \in [Tx -> Status] /\ signedTx' \in [Tx -> Bytes \cup {None}]
<1>1. status \in [Tx -> Status] /\ signedTx \in [Tx -> Bytes \cup {None}]
  BY DEF TypeOK
<1>2. CASE UNCHANGED storeVars
  BY <1>1, <1>2
<1>3. CASE ~UNCHANGED storeVars
  <2>1. status' = [status EXCEPT ![t] = s] /\ signedTx' = [signedTx EXCEPT ![t] = b]
    BY <1>3 DEF WriteStatus
  <2> QED
    BY <1>1, <2>1
<1> QED
  BY <1>2, <1>3

\* Every step of Party B keeps every table, map, channel and program counter
\* well typed.
LEMMA TypeStep == TypeOK /\ [Next]_vars => TypeOK'
<1> SUFFICES ASSUME TypeOK, [Next]_vars PROVE TypeOK'
  OBVIOUS
<1> USE DEF Status, HandlerPc, EscPc, SessPc
<1>1. ASSUME NEW t \in Tx, ReceiveSignRequest(t)
      PROVE  TypeOK'
  <2>1. status' \in [Tx -> Status]
    BY <1>1 DEF TypeOK, ReceiveSignRequest
  <2> QED
    BY <1>1, <2>1 DEF TypeOK, ReceiveSignRequest
<1>2. ASSUME NEW t \in Tx, AnalyzeReject(t)
      PROVE  TypeOK'
  <2>1. status' \in [Tx -> Status] /\ signedTx' \in [Tx -> Bytes \cup {None}]
    BY <1>2, WriteTyped DEF AnalyzeReject
  <2> QED
    BY <1>2, <2>1 DEF TypeOK, AnalyzeReject
<1>3. ASSUME NEW t \in Tx, AnalyzePass(t)
      PROVE  TypeOK'
  <2>1. handler' \in [Tx -> HandlerPc]
    <3>1. \/ handler' = [handler EXCEPT ![t] = "listed"]
          \/ handler' = [handler EXCEPT ![t] = "unlisted"]
      BY <1>3 DEF AnalyzePass
    <3> QED
      BY ZenonT(30), <3>1 DEF TypeOK
  <2> QED
    BY <1>3, <2>1 DEF TypeOK, AnalyzePass
<1>4. ASSUME NEW t \in Tx, RouteAuto(t)
      PROVE  TypeOK'
  <2>1. status' \in [Tx -> Status] /\ signedTx' \in [Tx -> Bytes \cup {None}]
    BY <1>4, WriteTyped DEF RouteAuto
  <2> QED
    BY <1>4, <2>1 DEF TypeOK, RouteAuto
<1>5. ASSUME NEW t \in Tx, StartAuto(t)
      PROVE  TypeOK'
  BY <1>5, PartyBAssumption DEF TypeOK, StartAuto, StartSigning
<1>6. ASSUME NEW t \in Tx, EscalateNotify(t)
      PROVE  TypeOK'
  <2>1. shown' \subseteq Tx
    BY <1>6 DEF TypeOK, EscalateNotify
  <2> QED
    BY <1>6, <2>1 DEF TypeOK, EscalateNotify
<1>7. ASSUME NEW t \in Tx, Refuse(t)
      PROVE  TypeOK'
  <2>1. status' \in [Tx -> Status] /\ signedTx' \in [Tx -> Bytes \cup {None}]
    BY <1>7, WriteTyped DEF Refuse
  <2> QED
    BY <1>7, <2>1 DEF TypeOK, Refuse
<1>8. ASSUME NEW t \in Tx, RegisterPending(t)
      PROVE  TypeOK'
  BY SMTT(30), <1>8, PartyBAssumption DEF TypeOK, RegisterPending
<1>9. ASSUME NEW t \in Tx, RegisterRequest(t)
      PROVE  TypeOK'
  BY <1>9, PartyBAssumption DEF TypeOK, RegisterRequest
<1>10. ASSUME NEW t \in Tx, Reply(t)
      PROVE  TypeOK'
  BY <1>10, PartyBAssumption DEF TypeOK, Reply
<1>11. ASSUME NEW t \in Tx, DecideApprove(t)
      PROVE  TypeOK'
  <2>1. status' \in [Tx -> Status] /\ signedTx' \in [Tx -> Bytes \cup {None}]
    BY <1>11, WriteTyped DEF DecideApprove
  <2> QED
    BY <1>11, <2>1 DEF TypeOK, DecideApprove
<1>12. ASSUME NEW t \in Tx, DecideReject(t)
      PROVE  TypeOK'
  <2>1. status' \in [Tx -> Status] /\ signedTx' \in [Tx -> Bytes \cup {None}]
    BY <1>12, WriteTyped DEF DecideReject
  <2> QED
    BY <1>12, <2>1 DEF TypeOK, DecideReject
<1>13. ASSUME NEW t \in Tx, EscalationTimeout(t)
      PROVE  TypeOK'
  <2>1. status' \in [Tx -> Status] /\ signedTx' \in [Tx -> Bytes \cup {None}]
    BY <1>13, WriteTyped DEF EscalationTimeout
  <2> QED
    BY <1>13, <2>1 DEF TypeOK, EscalationTimeout
<1>14. ASSUME NEW t \in Tx, PushApproved(t)
      PROVE  TypeOK'
  BY <1>14, PartyBAssumption DEF TypeOK, PushApproved
<1>15. ASSUME NEW t \in Tx, StartEscalated(t)
      PROVE  TypeOK'
  BY <1>15, PartyBAssumption DEF TypeOK, StartEscalated, StartSigning
<1>16. ASSUME NEW t \in Tx, Unpend(t)
      PROVE  TypeOK'
  BY <1>16, PartyBAssumption DEF TypeOK, Unpend
<1>17. ASSUME NEW t \in Tx, Uncache(t)
      PROVE  TypeOK'
  BY <1>17, PartyBAssumption DEF TypeOK, Uncache
<1>18. ASSUME NEW t \in Tx, AwaitReady(t)
      PROVE  TypeOK'
  BY SMTT(60), <1>18, PartyBAssumption DEF TypeOK, AwaitReady
<1>19. ASSUME NEW t \in Tx, TakeReady(t)
      PROVE  TypeOK'
  BY <1>19, PartyBAssumption DEF TypeOK, TakeReady
<1>20. ASSUME NEW t \in Tx, ReadyTimeout(t)
      PROVE  TypeOK'
  BY <1>20, PartyBAssumption DEF TypeOK, ReadyTimeout, SignReturns
<1>21. ASSUME NEW t \in Tx, LoadKey(t)
      PROVE  TypeOK'
  BY <1>21, PartyBAssumption DEF TypeOK, LoadKey
<1>22. ASSUME NEW t \in Tx, KeyMissing(t)
      PROVE  TypeOK'
  BY <1>22, PartyBAssumption DEF TypeOK, KeyMissing, SignReturns
<1>23. ASSUME NEW t \in Tx, RoundAccepted(t)
      PROVE  TypeOK'
  <2>1. inbox' \in [Tx -> Seq(Round)] /\ \A u \in Tx : Len(inbox'[u]) <= RouterCap
    <3>1. inbox[t] \in Seq(Round) /\ inbox[t] # <<>>
      BY <1>23 DEF TypeOK, RoundAccepted
    <3>2. Tail(inbox[t]) \in Seq(Round) /\ Len(Tail(inbox[t])) <= RouterCap
      BY <3>1, PartyBAssumption DEF TypeOK
    <3> QED
      BY <1>23, <3>2 DEF TypeOK, RoundAccepted
  <2>2. got' \in [Tx -> 0..Rounds]
    BY <1>23, PartyBAssumption DEF TypeOK, RoundAccepted
  <2>3. sess' \in [Tx -> SessPc] /\ signReady' \subseteq Tx
    BY ZenonT(30), <1>23 DEF TypeOK, RoundAccepted, SignReturns
  <2> QED
    BY <1>23, <2>1, <2>2, <2>3 DEF TypeOK, RoundAccepted
<1>24. ASSUME NEW t \in Tx, RoundForeign(t)
      PROVE  TypeOK'
  <2>1. inbox' \in [Tx -> Seq(Round)] /\ \A u \in Tx : Len(inbox'[u]) <= RouterCap
    <3>1. inbox[t] \in Seq(Round) /\ inbox[t] # <<>>
      BY <1>24 DEF TypeOK, RoundForeign
    <3>2. Tail(inbox[t]) \in Seq(Round) /\ Len(Tail(inbox[t])) <= RouterCap
      BY <3>1, PartyBAssumption DEF TypeOK
    <3> QED
      BY <1>24, <3>2 DEF TypeOK, RoundForeign
  <2>2. sess' \in [Tx -> SessPc] /\ signReady' \subseteq Tx
    BY ZenonT(30), <1>24 DEF TypeOK, RoundForeign, SignReturns
  <2> QED
    BY <1>24, <2>1, <2>2 DEF TypeOK, RoundForeign
<1>25. ASSUME NEW t \in Tx, StoreOutcome(t)
      PROVE  TypeOK'
  <2>1. status' \in [Tx -> Status] /\ signedTx' \in [Tx -> Bytes \cup {None}]
    <3>1. msg[t] \in Bytes \cup {None}
      BY DEF TypeOK
    <3> QED
      BY <1>25, <3>1, WriteTyped DEF StoreOutcome
  <2> QED
    BY <1>25, <2>1 DEF TypeOK, StoreOutcome
<1>26. ASSUME NEW t \in Tx, CloseSession(t)
      PROVE  TypeOK'
  BY SMTT(60), <1>26, PartyBAssumption DEF TypeOK, CloseSession
<1>27. ASSUME NEW t \in Tx, TssError(t)
      PROVE  TypeOK'
  BY <1>27, PartyBAssumption DEF TypeOK, TssError, SignReturns
<1>28. ASSUME NEW t \in Tx, NEW b \in Buttons, Press(t, b)
      PROVE  TypeOK'
  BY <1>28, PartyBAssumption DEF TypeOK, Press
<1>29. ASSUME NEW t \in Tx, NEW b \in Bytes \cup {None}, HandleSignReady(t, b)
      PROVE  TypeOK'
  <2>1. handing' \subseteq Ready
    BY <1>29 DEF TypeOK, HandleSignReady, Ready
  <2> QED
    BY <1>29, <2>1 DEF TypeOK, HandleSignReady
<1>30. ASSUME NEW m \in Round, HandleTSSRound(m)
      PROVE  TypeOK'
  <2>1. feeding' \subseteq Feed
    BY <1>30 DEF TypeOK, HandleTSSRound, Feed
  <2> QED
    BY <1>30, <2>1 DEF TypeOK, HandleTSSRound
<1>31. ASSUME NEW p \in Path, HandleDeriveRequest(p)
      PROVE  TypeOK'
  <2>1. keys' \subseteq Path
    BY <1>31 DEF TypeOK, HandleDeriveRequest
  <2> QED
    BY <1>31, <2>1 DEF TypeOK, HandleDeriveRequest
<1>32. ASSUME NEW v \in BOOLEAN, SetAutoMode(v)
      PROVE  TypeOK'
  BY <1>32, PartyBAssumption DEF TypeOK, SetAutoMode
<1>33. ASSUME WhitelistAddrs
      PROVE  TypeOK'
  <2>1. whitelist' \subseteq Addr
    BY <1>33, PartyBAssumption DEF TypeOK, WhitelistAddrs
  <2> QED
    BY <1>33, <2>1 DEF TypeOK, WhitelistAddrs
<1>34. ASSUME LookupDecision
      PROVE  TypeOK'
  <2>1. /\ botPc' \in {"idle", "send"} /\ botTx' \in Tx \cup {None}
        /\ (botPc' # "idle" => botTx' \in Tx) /\ botYes' \in BOOLEAN
    BY <1>34 DEF TypeOK, LookupDecision, BotReturns
  <2> QED
    BY <1>34, <2>1 DEF TypeOK, LookupDecision
<1>35. ASSUME SendDecision
      PROVE  TypeOK'
  BY <1>35, PartyBAssumption DEF TypeOK, SendDecision, BotReturns
<1>36. ASSUME Restart
      PROVE  TypeOK'
  <2>1. inbox' \in [Tx -> Seq(Round)] /\ \A u \in Tx : Len(inbox'[u]) <= RouterCap
    BY <1>36, PartyBAssumption DEF Restart
  <2>2. got' \in [Tx -> 0..Rounds]
    BY <1>36, PartyBAssumption DEF Restart
  <2>3. /\ handler' \in [Tx -> HandlerPc] /\ esc' \in [Tx -> EscPc]
        /\ sess' \in [Tx -> SessPc] /\ decisionCh' \in [Tx -> {"empty", "yes", "no"}]
        /\ readyCh' \in [Tx -> Bytes \cup {None}] /\ msg' \in [Tx -> Bytes \cup {None}]
    BY <1>36 DEF Restart
  <2>4. autoMode' \in BOOLEAN /\ whitelist' \subseteq Addr
    BY <1>36, PartyBAssumption, SeedsBound DEF TypeOK, Restart
  <2> QED
    BY <1>36, <2>1, <2>2, <2>3, <2>4 DEF TypeOK, Restart, BotReturns
<1>37. ASSUME UNCHANGED vars
      PROVE  TypeOK'
  BY <1>37, PartyBAssumption DEF TypeOK, vars
<1>38. ASSUME NEW f \in feeding, FeedMessage(f)
      PROVE  TypeOK'
  <2>1. f.to \in Tx /\ f.round \in Round
    BY DEF TypeOK, Feed
  <2>2. /\ Append(inbox[f.to], f.round) \in Seq(Round)
        /\ Len(Append(inbox[f.to], f.round)) <= RouterCap
    <3>1. inbox[f.to] \in Seq(Round)
      BY <2>1 DEF TypeOK
    <3> QED
      BY <1>38, <2>1, <3>1, PartyBAssumption DEF FeedMessage
  <2>3. inbox' \in [Tx -> Seq(Round)] /\ \A u \in Tx : Len(inbox'[u]) <= RouterCap
    BY <1>38, <2>1, <2>2 DEF TypeOK, FeedMessage
  <2> QED
    BY <1>38, <2>3 DEF TypeOK, FeedMessage
<1>39. ASSUME NEW t \in Tx, AutoNotified(t)
      PROVE  TypeOK'
  BY <1>39 DEF TypeOK, AutoNotified
<1>40. ASSUME NEW t \in Tx, NotifySent(t)
      PROVE  TypeOK'
  BY <1>40 DEF TypeOK, NotifySent
<1>41. ASSUME NEW r \in handing, HandReady(r)
      PROVE  TypeOK'
  <2>1. r.tx \in Tx /\ r.bytes \in Bytes
    BY DEF TypeOK, Ready
  <2>2. readyCh' \in [Tx -> Bytes \cup {None}] /\ handing' \subseteq Ready
    BY <1>41, <2>1 DEF TypeOK, HandReady
  <2> QED
    BY <1>41, <2>2 DEF TypeOK, HandReady
<1> QED
  BY <1>1, <1>2, <1>3, <1>4, <1>5, <1>6, <1>7, <1>8, <1>9, <1>10, <1>11, <1>12, <1>13,
     <1>14, <1>15, <1>16, <1>17, <1>18, <1>19, <1>20, <1>21, <1>22, <1>23, <1>24, <1>25,
     <1>26, <1>27, <1>28, <1>29, <1>30, <1>31, <1>32, <1>33, <1>34, <1>35, <1>36, <1>37,
     <1>38, <1>39, <1>40, <1>41
     DEF Next, RequestStep, TelegramStep, EscalateFail, Analyzed, EscalationStep,
         SessionStep, BotStep

\* The empty tables, maps and channels of a fresh Party B are well typed.
LEMMA TypeInit == Init => TypeOK
<1> SUFFICES ASSUME Init PROVE TypeOK
  OBVIOUS
<1>1. inbox \in [Tx -> Seq(Round)] /\ \A t \in Tx : Len(inbox[t]) <= RouterCap
  BY PartyBAssumption DEF Init
<1>2. got \in [Tx -> 0..Rounds]
  BY PartyBAssumption DEF Init
<1>3. /\ whitelist \subseteq Addr /\ autoMode \in BOOLEAN
      /\ presses \in 0..MaxPresses /\ pressed \in [Tx -> SUBSET Buttons]
  BY PartyBAssumption, SeedsBound DEF Init
<1>4. /\ status \in [Tx -> Status] /\ signedTx \in [Tx -> Bytes \cup {None}]
      /\ handler \in [Tx -> HandlerPc] /\ resp \in [Tx -> {"none", "approve", "reject", "escalate"}]
      /\ decisionCh \in [Tx -> {"empty", "yes", "no"}] /\ esc \in [Tx -> EscPc]
      /\ verdict \in [Tx -> {"none", "yes", "no"}]
  BY DEF Init, Status, HandlerPc, EscPc
<1>5. /\ sess \in [Tx -> SessPc] /\ readyCh \in [Tx -> Bytes \cup {None}]
      /\ msg \in [Tx -> Bytes \cup {None}]
  BY DEF Init, SessPc
<1> QED
  BY <1>1, <1>2, <1>3, <1>4, <1>5 DEF Init, TypeOK

\* Party B's state is well typed in every reachable state, for every number of
\* transactions, every configuration and every Party A.
THEOREM TypeCorrect == Spec => []TypeOK
  BY TypeInit, TypeStep, PTL DEF Spec

-----------------------------------------------------------------------------
(* The inductive invariant.                                                *)

\* While a decision to sign is being carried out, the row is absent or says
\* approved; it can still say pending_review only if a write was lost.
LEMMA ApprovedFacts ==
  /\ "none" \in Approved /\ "approved" \in Approved
  /\ "rejected" \notin Approved /\ "signed" \notin Approved
  /\ "pending_review" \in Approved => StoreMayFail
  /\ StoreMayFail => "pending_review" \in Approved
  BY DEF Approved

\* A press is never taken back, so what the policy approves it goes on
\* approving.
LEMMA PolicyStable ==
  ASSUME \A u \in Tx : pressed[u] \subseteq pressed'[u]
  PROVE  \A t \in Tx : PolicyApproves(t) => PolicyApproves(t)'
  BY DEF PolicyApproves

\* Every action keeps the inductive invariant: one step per action, and under
\* it one per conjunct that the action can disturb.
LEMMA IndStep == TypeOK /\ TypeOK' /\ IndInv /\ [Next]_vars => IndInv'
<1> SUFFICES ASSUME TypeOK, TypeOK', IndInv, [Next]_vars PROVE IndInv'
  OBVIOUS
<1>0. PressInv /\ MapsMatchGoroutines /\ \A u \in Tx : RequestInv(u) /\ EscalationInv(u) /\ SessionInv(u)
  BY DEF IndInv
<1> USE <1>0 DEF Committed, Early, Open
<1>1. ASSUME NEW t \in Tx, ReceiveSignRequest(t)
      PROVE  IndInv'
  <2>1. \A u \in Tx : PolicyApproves(u) => PolicyApproves(u)'
    BY <1>1, PolicyStable DEF ReceiveSignRequest, TypeOK
  <2>2. PressInv'
    BY <1>1 DEF PressInv, ReceiveSignRequest, TypeOK
  <2>3. ASSUME NEW u \in Tx PROVE RequestInv(u)'
  BY <1>1, <2>1, ApprovedFacts DEF RequestInv, EscalationInv, SessionInv,
     ReceiveSignRequest, TypeOK
  <2>4. ASSUME NEW u \in Tx PROVE EscalationInv(u)'
    BY <1>1, ApprovedFacts DEF RequestInv, EscalationInv, SessionInv, ReceiveSignRequest, TypeOK
  <2>5. ASSUME NEW u \in Tx PROVE SessionInv(u)'
    <3>1. CASE u = t
      BY <1>1, <3>1 DEF RequestInv, SessionInv, ReceiveSignRequest
    <3>2. CASE u # t
      <4>1. status'[u] = status[u]
        BY <1>1, <3>2 DEF ReceiveSignRequest, TypeOK
      <4> QED
        BY <1>1, <4>1 DEF SessionInv, ReceiveSignRequest
    <3> QED
      BY <3>1, <3>2
  <2>6. MapsMatchGoroutines'
    BY <1>1 DEF RequestInv, EscalationInv, SessionInv, MapsMatchGoroutines, ReceiveSignRequest,
       TypeOK
  <2> QED
    BY <2>2, <2>3, <2>4, <2>5, <2>6 DEF IndInv
<1>2. ASSUME NEW t \in Tx, AnalyzeReject(t)
      PROVE  IndInv'
  <2>1. \A u \in Tx : PolicyApproves(u) => PolicyApproves(u)'
    BY <1>2, PolicyStable DEF AnalyzeReject, WriteStatus, TypeOK
  <2>2. PressInv'
    BY <1>2 DEF PressInv, AnalyzeReject, WriteStatus, TypeOK
  <2>3. ASSUME NEW u \in Tx PROVE RequestInv(u)'
    BY <1>2, <2>1, ApprovedFacts DEF RequestInv, EscalationInv, SessionInv, AnalyzeReject,
       WriteStatus, TypeOK
  <2>4. ASSUME NEW u \in Tx PROVE EscalationInv(u)'
    BY <1>2, ApprovedFacts DEF RequestInv, EscalationInv, SessionInv, AnalyzeReject,
       WriteStatus, TypeOK
  <2>5. ASSUME NEW u \in Tx PROVE SessionInv(u)'
    BY <1>2, ApprovedFacts DEF RequestInv, EscalationInv, SessionInv, AnalyzeReject,
       WriteStatus, TypeOK
  <2>6. MapsMatchGoroutines'
    BY <1>2 DEF RequestInv, EscalationInv, SessionInv, MapsMatchGoroutines, AnalyzeReject,
       WriteStatus, TypeOK
  <2> QED
    BY <2>2, <2>3, <2>4, <2>5, <2>6 DEF IndInv
<1>3. ASSUME NEW t \in Tx, AnalyzePass(t)
      PROVE  IndInv'
  <2>1. \A u \in Tx : PolicyApproves(u) => PolicyApproves(u)'
    BY <1>3, PolicyStable DEF AnalyzePass, AutoApproves, TypeOK
  <2>2. PressInv'
    <3>1. \/ handler' = [handler EXCEPT ![t] = "listed"]
          \/ handler' = [handler EXCEPT ![t] = "unlisted"]
      BY <1>3 DEF AnalyzePass
    <3>2. handler[t] = "saved"
      BY <1>3 DEF AnalyzePass
    <3>3. \A u \in Tx : handler[u] # "saved" => handler'[u] = handler[u]
      BY <3>1, <3>2 DEF TypeOK
    <3>4. UNCHANGED <<shown, pressed, botPc, botTx, botYes, verdict, whitelist>>
      BY <1>3 DEF AnalyzePass
    <3> QED
      BY <3>3, <3>4 DEF PressInv, TypeOK
  <2>3. ASSUME NEW u \in Tx PROVE RequestInv(u)'
    <3>1. CASE u # t
      <4>1. handler'[u] = handler[u]
        BY <1>3, <3>1 DEF AnalyzePass, TypeOK
      <4> QED
        BY <1>3, <2>1, <4>1 DEF RequestInv, AnalyzePass
    <3>2. CASE u = t
      <4>1. handler'[t] \in {"listed", "unlisted"}
        BY <1>3 DEF AnalyzePass, TypeOK
      <4>2. handler'[t] = "listed" => To[t] \cap whitelist # {}
        BY <1>3 DEF AnalyzePass, TypeOK
      <4>3. pressed[t] = {}
        BY <1>3 DEF AnalyzePass, PressInv
      <4>4. To[t] \cap whitelist # {} => PolicyApproves(t)
        BY <4>3 DEF PressInv, PolicyApproves
      <4>5. handler[t] = "saved" /\ UNCHANGED <<resp, esc, sess, status>>
        BY <1>3 DEF AnalyzePass
      <4> QED
        BY <2>1, <3>2, <4>1, <4>2, <4>4, <4>5 DEF RequestInv
    <3> QED
      BY <3>1, <3>2
  <2>4. ASSUME NEW u \in Tx PROVE EscalationInv(u)'
    BY <1>3, ApprovedFacts DEF RequestInv, EscalationInv, SessionInv, AnalyzePass,
       AutoApproves, TypeOK
  <2>5. ASSUME NEW u \in Tx PROVE SessionInv(u)'
    <3>1. CASE u = t
      BY <1>3, <3>1 DEF RequestInv, SessionInv, AnalyzePass
    <3>2. CASE u # t
      <4>1. handler'[u] = handler[u]
        BY <1>3, <3>2 DEF AnalyzePass, TypeOK
      <4> QED
        BY <1>3, <4>1 DEF SessionInv, AnalyzePass
    <3> QED
      BY <3>1, <3>2
  <2>6. MapsMatchGoroutines'
    BY <1>3 DEF RequestInv, EscalationInv, SessionInv, MapsMatchGoroutines, AnalyzePass,
       AutoApproves, TypeOK
  <2> QED
    BY <2>2, <2>3, <2>4, <2>5, <2>6 DEF IndInv
<1>4. ASSUME NEW t \in Tx, RouteAuto(t)
      PROVE  IndInv'
  <2>1. \A u \in Tx : PolicyApproves(u) => PolicyApproves(u)'
    BY <1>4, PolicyStable DEF RouteAuto, WriteStatus, AutoApproves, Analyzed, TypeOK
  <2>2. PressInv'
    BY <1>4 DEF PressInv, RouteAuto, WriteStatus, AutoApproves, Analyzed, TypeOK
  <2>3. ASSUME NEW u \in Tx PROVE RequestInv(u)'
    BY <1>4, <2>1, ApprovedFacts DEF RequestInv, EscalationInv, SessionInv, RouteAuto,
       WriteStatus, AutoApproves, Analyzed, TypeOK
  <2>4. ASSUME NEW u \in Tx PROVE EscalationInv(u)'
    BY <1>4, ApprovedFacts DEF RequestInv, EscalationInv, SessionInv, RouteAuto, WriteStatus,
       AutoApproves, Analyzed, TypeOK
  <2>5. ASSUME NEW u \in Tx PROVE SessionInv(u)'
    <3>1. CASE u = t
      BY <1>4, <3>1 DEF RequestInv, SessionInv, RouteAuto, AutoApproves
    <3>2. CASE u # t
      <4>1. status'[u] = status[u] /\ handler'[u] = handler[u]
        BY <1>4, <3>2 DEF RouteAuto, WriteStatus, TypeOK
      <4> QED
        BY <1>4, <4>1 DEF SessionInv, RouteAuto
    <3> QED
      BY <3>1, <3>2
  <2>6. MapsMatchGoroutines'
    BY <1>4 DEF RequestInv, EscalationInv, SessionInv, MapsMatchGoroutines, RouteAuto,
       WriteStatus, AutoApproves, Analyzed, TypeOK
  <2> QED
    BY <2>2, <2>3, <2>4, <2>5, <2>6 DEF IndInv
<1>5. ASSUME NEW t \in Tx, StartAuto(t)
      PROVE  IndInv'
  <2>1. \A u \in Tx : PolicyApproves(u) => PolicyApproves(u)'
    BY <1>5, PolicyStable DEF StartAuto, StartSigning, TypeOK
  <2>2. PressInv'
    BY <1>5 DEF PressInv, StartAuto, StartSigning, TypeOK
  <2>3. ASSUME NEW u \in Tx PROVE RequestInv(u)'
    BY <1>5, <2>1, ApprovedFacts DEF RequestInv, EscalationInv, SessionInv, StartAuto,
       StartSigning, TypeOK
  <2>4. ASSUME NEW u \in Tx PROVE EscalationInv(u)'
    BY <1>5, ApprovedFacts DEF RequestInv, EscalationInv, SessionInv, StartAuto, StartSigning,
       TypeOK
  <2>5. ASSUME NEW u \in Tx PROVE SessionInv(u)'
    BY <1>5, ApprovedFacts DEF RequestInv, EscalationInv, SessionInv, StartAuto, StartSigning,
       TypeOK
  <2>6. MapsMatchGoroutines'
    BY <1>5 DEF RequestInv, EscalationInv, SessionInv, MapsMatchGoroutines, StartAuto,
       StartSigning, TypeOK
  <2> QED
    BY <2>2, <2>3, <2>4, <2>5, <2>6 DEF IndInv
<1>6. ASSUME NEW t \in Tx, EscalateNotify(t)
      PROVE  IndInv'
  <2>1. \A u \in Tx : PolicyApproves(u) => PolicyApproves(u)'
    BY <1>6, PolicyStable DEF EscalateNotify, AutoApproves, Analyzed, TypeOK
  <2>2. PressInv'
    BY <1>6 DEF PressInv, EscalateNotify, AutoApproves, Analyzed, TypeOK
  <2>3. ASSUME NEW u \in Tx PROVE RequestInv(u)'
    BY <1>6, <2>1, ApprovedFacts DEF RequestInv, EscalationInv, SessionInv, EscalateNotify,
       AutoApproves, Analyzed, TypeOK
  <2>4. ASSUME NEW u \in Tx PROVE EscalationInv(u)'
    BY <1>6, ApprovedFacts DEF RequestInv, EscalationInv, SessionInv, EscalateNotify,
       AutoApproves, Analyzed, TypeOK
  <2>5. ASSUME NEW u \in Tx PROVE SessionInv(u)'
    BY <1>6, ApprovedFacts DEF RequestInv, EscalationInv, SessionInv, EscalateNotify,
       AutoApproves, Analyzed, TypeOK
  <2>6. MapsMatchGoroutines'
    BY <1>6 DEF RequestInv, EscalationInv, SessionInv, MapsMatchGoroutines, EscalateNotify,
       AutoApproves, Analyzed, TypeOK
  <2> QED
    BY <2>2, <2>3, <2>4, <2>5, <2>6 DEF IndInv
<1>7. ASSUME NEW t \in Tx, handler[t] \in {"listed", "unlisted", "asking"}, Refuse(t)
      PROVE  IndInv'
  <2>1. \A u \in Tx : PolicyApproves(u) => PolicyApproves(u)'
    BY <1>7, PolicyStable DEF Refuse, WriteStatus, TypeOK
  <2>2. PressInv'
    BY <1>7 DEF PressInv, Refuse, WriteStatus, TypeOK
  <2>3. ASSUME NEW u \in Tx PROVE RequestInv(u)'
    BY <1>7, <2>1, ApprovedFacts DEF RequestInv, EscalationInv, SessionInv, Refuse,
       WriteStatus, TypeOK
  <2>4. ASSUME NEW u \in Tx PROVE EscalationInv(u)'
    BY <1>7, ApprovedFacts DEF RequestInv, EscalationInv, SessionInv, Refuse,
       WriteStatus, TypeOK
  <2>5. ASSUME NEW u \in Tx PROVE SessionInv(u)'
    BY <1>7, ApprovedFacts DEF RequestInv, EscalationInv, SessionInv, Refuse,
       WriteStatus, TypeOK
  <2>6. MapsMatchGoroutines'
    BY <1>7 DEF RequestInv, EscalationInv, SessionInv, MapsMatchGoroutines, Refuse,
       WriteStatus, TypeOK
  <2> QED
    BY <2>2, <2>3, <2>4, <2>5, <2>6 DEF IndInv
<1>8. ASSUME NEW t \in Tx, RegisterPending(t)
      PROVE  IndInv'
  <2>1. \A u \in Tx : PolicyApproves(u) => PolicyApproves(u)'
    BY <1>8, PolicyStable DEF RegisterPending, TypeOK
  <2>2. PressInv'
    BY <1>8 DEF PressInv, RegisterPending, TypeOK
  <2>3. ASSUME NEW u \in Tx PROVE RequestInv(u)'
    BY <1>8, <2>1, ApprovedFacts DEF RequestInv, EscalationInv, SessionInv, RegisterPending,
       TypeOK
  <2>4. ASSUME NEW u \in Tx PROVE EscalationInv(u)'
    BY <1>8, ApprovedFacts DEF RequestInv, EscalationInv, SessionInv, RegisterPending, TypeOK
  <2>5. ASSUME NEW u \in Tx PROVE SessionInv(u)'
    BY <1>8, ApprovedFacts DEF RequestInv, EscalationInv, SessionInv, RegisterPending, TypeOK
  <2>6. MapsMatchGoroutines'
    BY <1>8 DEF RequestInv, EscalationInv, SessionInv, MapsMatchGoroutines, RegisterPending,
       TypeOK
  <2> QED
    BY <2>2, <2>3, <2>4, <2>5, <2>6 DEF IndInv
<1>9. ASSUME NEW t \in Tx, RegisterRequest(t)
      PROVE  IndInv'
  <2>1. \A u \in Tx : PolicyApproves(u) => PolicyApproves(u)'
    BY <1>9, PolicyStable DEF RegisterRequest, TypeOK
  <2>2. PressInv'
    BY <1>9 DEF PressInv, RegisterRequest, TypeOK
  <2>3. ASSUME NEW u \in Tx PROVE RequestInv(u)'
    BY <1>9, <2>1, ApprovedFacts DEF RequestInv, EscalationInv, SessionInv, RegisterRequest,
       TypeOK
  <2>4. ASSUME NEW u \in Tx PROVE EscalationInv(u)'
    BY <1>9, ApprovedFacts DEF RequestInv, EscalationInv, SessionInv, RegisterRequest, TypeOK
  <2>5. ASSUME NEW u \in Tx PROVE SessionInv(u)'
    BY <1>9, ApprovedFacts DEF RequestInv, EscalationInv, SessionInv, RegisterRequest, TypeOK
  <2>6. MapsMatchGoroutines'
    BY <1>9 DEF RequestInv, EscalationInv, SessionInv, MapsMatchGoroutines, RegisterRequest,
       TypeOK
  <2> QED
    BY <2>2, <2>3, <2>4, <2>5, <2>6 DEF IndInv
<1>10. ASSUME NEW t \in Tx, Reply(t)
      PROVE  IndInv'
  <2>1. \A u \in Tx : PolicyApproves(u) => PolicyApproves(u)'
    BY <1>10, PolicyStable DEF Reply, TypeOK
  <2>2. PressInv'
    BY <1>10 DEF PressInv, Reply, TypeOK
  <2>3. ASSUME NEW u \in Tx PROVE RequestInv(u)'
    BY <1>10, <2>1, ApprovedFacts DEF RequestInv, EscalationInv, SessionInv, Reply, TypeOK
  <2>4. ASSUME NEW u \in Tx PROVE EscalationInv(u)'
    BY <1>10, ApprovedFacts DEF RequestInv, EscalationInv, SessionInv, Reply, TypeOK
  <2>5. ASSUME NEW u \in Tx PROVE SessionInv(u)'
    BY <1>10, ApprovedFacts DEF RequestInv, EscalationInv, SessionInv, Reply, TypeOK
  <2>6. MapsMatchGoroutines'
    BY <1>10 DEF RequestInv, EscalationInv, SessionInv, MapsMatchGoroutines, Reply, TypeOK
  <2> QED
    BY <2>2, <2>3, <2>4, <2>5, <2>6 DEF IndInv
<1>11. ASSUME NEW t \in Tx, DecideApprove(t)
      PROVE  IndInv'
  <2>1. \A u \in Tx : PolicyApproves(u) => PolicyApproves(u)'
    BY <1>11, PolicyStable DEF DecideApprove, WriteStatus, TypeOK
  <2>2. PressInv'
    BY <1>11 DEF PressInv, DecideApprove, WriteStatus, TypeOK
  <2>3. ASSUME NEW u \in Tx PROVE RequestInv(u)'
    BY <1>11, <2>1, ApprovedFacts DEF RequestInv, EscalationInv, SessionInv, DecideApprove,
       WriteStatus, TypeOK
  <2>4. ASSUME NEW u \in Tx PROVE EscalationInv(u)'
    BY <1>11, ApprovedFacts DEF RequestInv, EscalationInv, SessionInv, DecideApprove,
       WriteStatus, TypeOK
  <2>5. ASSUME NEW u \in Tx PROVE SessionInv(u)'
    BY <1>11, ApprovedFacts DEF RequestInv, EscalationInv, SessionInv, DecideApprove,
       WriteStatus, TypeOK
  <2>6. MapsMatchGoroutines'
    BY <1>11 DEF RequestInv, EscalationInv, SessionInv, MapsMatchGoroutines, DecideApprove,
       WriteStatus, TypeOK
  <2> QED
    BY <2>2, <2>3, <2>4, <2>5, <2>6 DEF IndInv
<1>12. ASSUME NEW t \in Tx, DecideReject(t)
      PROVE  IndInv'
  <2>1. \A u \in Tx : PolicyApproves(u) => PolicyApproves(u)'
    BY <1>12, PolicyStable DEF DecideReject, WriteStatus, TypeOK
  <2>2. PressInv'
    BY <1>12 DEF PressInv, DecideReject, WriteStatus, TypeOK
  <2>3. ASSUME NEW u \in Tx PROVE RequestInv(u)'
    BY <1>12, <2>1, ApprovedFacts DEF RequestInv, EscalationInv, SessionInv, DecideReject,
       WriteStatus, TypeOK
  <2>4. ASSUME NEW u \in Tx PROVE EscalationInv(u)'
    BY <1>12, ApprovedFacts DEF RequestInv, EscalationInv, SessionInv, DecideReject,
       WriteStatus, TypeOK
  <2>5. ASSUME NEW u \in Tx PROVE SessionInv(u)'
    BY <1>12, ApprovedFacts DEF RequestInv, EscalationInv, SessionInv, DecideReject,
       WriteStatus, TypeOK
  <2>6. MapsMatchGoroutines'
    BY <1>12 DEF RequestInv, EscalationInv, SessionInv, MapsMatchGoroutines, DecideReject,
       WriteStatus, TypeOK
  <2> QED
    BY <2>2, <2>3, <2>4, <2>5, <2>6 DEF IndInv
<1>13. ASSUME NEW t \in Tx, EscalationTimeout(t)
      PROVE  IndInv'
  <2>1. \A u \in Tx : PolicyApproves(u) => PolicyApproves(u)'
    BY <1>13, PolicyStable DEF EscalationTimeout, WriteStatus, TypeOK
  <2>2. PressInv'
    BY <1>13 DEF PressInv, EscalationTimeout, WriteStatus, TypeOK
  <2>3. ASSUME NEW u \in Tx PROVE RequestInv(u)'
    BY <1>13, <2>1, ApprovedFacts DEF RequestInv, EscalationInv, SessionInv, EscalationTimeout,
       WriteStatus, TypeOK
  <2>4. ASSUME NEW u \in Tx PROVE EscalationInv(u)'
    BY <1>13, ApprovedFacts DEF RequestInv, EscalationInv, SessionInv, EscalationTimeout,
       WriteStatus, TypeOK
  <2>5. ASSUME NEW u \in Tx PROVE SessionInv(u)'
    BY <1>13, ApprovedFacts DEF RequestInv, EscalationInv, SessionInv, EscalationTimeout,
       WriteStatus, TypeOK
  <2>6. MapsMatchGoroutines'
    BY <1>13 DEF RequestInv, EscalationInv, SessionInv, MapsMatchGoroutines, EscalationTimeout,
       WriteStatus, TypeOK
  <2> QED
    BY <2>2, <2>3, <2>4, <2>5, <2>6 DEF IndInv
<1>14. ASSUME NEW t \in Tx, PushApproved(t)
      PROVE  IndInv'
  <2>1. \A u \in Tx : PolicyApproves(u) => PolicyApproves(u)'
    BY <1>14, PolicyStable DEF PushApproved, TypeOK
  <2>2. PressInv'
    BY <1>14 DEF PressInv, PushApproved, TypeOK
  <2>3. ASSUME NEW u \in Tx PROVE RequestInv(u)'
    BY <1>14, <2>1, ApprovedFacts DEF RequestInv, EscalationInv, SessionInv, PushApproved, TypeOK
  <2>4. ASSUME NEW u \in Tx PROVE EscalationInv(u)'
    BY <1>14, ApprovedFacts DEF RequestInv, EscalationInv, SessionInv, PushApproved, TypeOK
  <2>5. ASSUME NEW u \in Tx PROVE SessionInv(u)'
    BY <1>14, ApprovedFacts DEF RequestInv, EscalationInv, SessionInv, PushApproved, TypeOK
  <2>6. MapsMatchGoroutines'
    BY <1>14 DEF RequestInv, EscalationInv, SessionInv, MapsMatchGoroutines, PushApproved, TypeOK
  <2> QED
    BY <2>2, <2>3, <2>4, <2>5, <2>6 DEF IndInv
<1>15. ASSUME NEW t \in Tx, StartEscalated(t)
      PROVE  IndInv'
  <2>1. \A u \in Tx : PolicyApproves(u) => PolicyApproves(u)'
    BY <1>15, PolicyStable DEF StartEscalated, StartSigning, TypeOK
  <2>2. PressInv'
    BY <1>15 DEF PressInv, StartEscalated, StartSigning, TypeOK
  <2>3. ASSUME NEW u \in Tx PROVE RequestInv(u)'
    BY <1>15, <2>1, ApprovedFacts DEF RequestInv, EscalationInv, SessionInv, StartEscalated,
       StartSigning, TypeOK
  <2>4. ASSUME NEW u \in Tx PROVE EscalationInv(u)'
    BY <1>15, ApprovedFacts DEF RequestInv, EscalationInv, SessionInv, StartEscalated,
       StartSigning, TypeOK
  <2>5. ASSUME NEW u \in Tx PROVE SessionInv(u)'
    BY <1>15, ApprovedFacts DEF RequestInv, EscalationInv, SessionInv, StartEscalated,
       StartSigning, TypeOK
  <2>6. MapsMatchGoroutines'
    BY <1>15 DEF RequestInv, EscalationInv, SessionInv, MapsMatchGoroutines, StartEscalated,
       StartSigning, TypeOK
  <2> QED
    BY <2>2, <2>3, <2>4, <2>5, <2>6 DEF IndInv
<1>16. ASSUME NEW t \in Tx, Unpend(t)
      PROVE  IndInv'
  <2>1. \A u \in Tx : PolicyApproves(u) => PolicyApproves(u)'
    BY <1>16, PolicyStable DEF Unpend, TypeOK
  <2>2. PressInv'
    BY <1>16 DEF PressInv, Unpend, TypeOK
  <2>3. ASSUME NEW u \in Tx PROVE RequestInv(u)'
    BY <1>16, <2>1, ApprovedFacts DEF RequestInv, EscalationInv, SessionInv, Unpend, TypeOK
  <2>4. ASSUME NEW u \in Tx PROVE EscalationInv(u)'
    BY <1>16, ApprovedFacts DEF RequestInv, EscalationInv, SessionInv, Unpend, TypeOK
  <2>5. ASSUME NEW u \in Tx PROVE SessionInv(u)'
    BY <1>16, ApprovedFacts DEF RequestInv, EscalationInv, SessionInv, Unpend, TypeOK
  <2>6. MapsMatchGoroutines'
    BY <1>16 DEF RequestInv, EscalationInv, SessionInv, MapsMatchGoroutines, Unpend, TypeOK
  <2> QED
    BY <2>2, <2>3, <2>4, <2>5, <2>6 DEF IndInv
<1>17. ASSUME NEW t \in Tx, Uncache(t)
      PROVE  IndInv'
  <2>1. \A u \in Tx : PolicyApproves(u) => PolicyApproves(u)'
    BY <1>17, PolicyStable DEF Uncache, TypeOK
  <2>2. PressInv'
    BY <1>17 DEF PressInv, Uncache, TypeOK
  <2>3. ASSUME NEW u \in Tx PROVE RequestInv(u)'
    BY <1>17, <2>1, ApprovedFacts DEF RequestInv, EscalationInv, SessionInv, Uncache, TypeOK
  <2>4. ASSUME NEW u \in Tx PROVE EscalationInv(u)'
    BY <1>17, ApprovedFacts DEF RequestInv, EscalationInv, SessionInv, Uncache, TypeOK
  <2>5. ASSUME NEW u \in Tx PROVE SessionInv(u)'
    BY <1>17, ApprovedFacts DEF RequestInv, EscalationInv, SessionInv, Uncache, TypeOK
  <2>6. MapsMatchGoroutines'
    BY <1>17 DEF RequestInv, EscalationInv, SessionInv, MapsMatchGoroutines, Uncache, TypeOK
  <2> QED
    BY <2>2, <2>3, <2>4, <2>5, <2>6 DEF IndInv
<1>18. ASSUME NEW t \in Tx, AwaitReady(t)
      PROVE  IndInv'
  <2>1. \A u \in Tx : PolicyApproves(u) => PolicyApproves(u)'
    BY <1>18, PolicyStable DEF AwaitReady, TypeOK
  <2>2. PressInv'
    BY <1>18 DEF PressInv, AwaitReady, TypeOK
  <2>3. ASSUME NEW u \in Tx PROVE RequestInv(u)'
    BY <1>18, <2>1, ApprovedFacts DEF RequestInv, EscalationInv, SessionInv, AwaitReady, TypeOK
  <2>4. ASSUME NEW u \in Tx PROVE EscalationInv(u)'
    BY <1>18, ApprovedFacts DEF RequestInv, EscalationInv, SessionInv, AwaitReady, TypeOK
  <2>5. ASSUME NEW u \in Tx PROVE SessionInv(u)'
    BY <1>18, ApprovedFacts DEF RequestInv, EscalationInv, SessionInv, AwaitReady, TypeOK
  <2>6. MapsMatchGoroutines'
    BY <1>18 DEF RequestInv, EscalationInv, SessionInv, MapsMatchGoroutines, AwaitReady, TypeOK
  <2> QED
    BY <2>2, <2>3, <2>4, <2>5, <2>6 DEF IndInv
<1>19. ASSUME NEW t \in Tx, TakeReady(t)
      PROVE  IndInv'
  <2>1. \A u \in Tx : PolicyApproves(u) => PolicyApproves(u)'
    BY <1>19, PolicyStable DEF TakeReady, TypeOK
  <2>2. PressInv'
    BY <1>19 DEF PressInv, TakeReady, TypeOK
  <2>3. ASSUME NEW u \in Tx PROVE RequestInv(u)'
    BY <1>19, <2>1, ApprovedFacts DEF RequestInv, EscalationInv, SessionInv, TakeReady, TypeOK
  <2>4. ASSUME NEW u \in Tx PROVE EscalationInv(u)'
    BY <1>19, ApprovedFacts DEF RequestInv, EscalationInv, SessionInv, TakeReady, TypeOK
  <2>5. ASSUME NEW u \in Tx PROVE SessionInv(u)'
    BY <1>19, ApprovedFacts DEF RequestInv, EscalationInv, SessionInv, TakeReady, TypeOK
  <2>6. MapsMatchGoroutines'
    BY <1>19 DEF RequestInv, EscalationInv, SessionInv, MapsMatchGoroutines, TakeReady, TypeOK
  <2> QED
    BY <2>2, <2>3, <2>4, <2>5, <2>6 DEF IndInv
<1>20. ASSUME NEW t \in Tx, ReadyTimeout(t)
      PROVE  IndInv'
  <2>1. \A u \in Tx : PolicyApproves(u) => PolicyApproves(u)'
    BY <1>20, PolicyStable DEF ReadyTimeout, SignReturns, TypeOK
  <2>2. PressInv'
    BY <1>20 DEF PressInv, ReadyTimeout, SignReturns, TypeOK
  <2>3. ASSUME NEW u \in Tx PROVE RequestInv(u)'
    BY <1>20, <2>1, ApprovedFacts DEF RequestInv, EscalationInv, SessionInv, ReadyTimeout,
       SignReturns, TypeOK
  <2>4. ASSUME NEW u \in Tx PROVE EscalationInv(u)'
    BY <1>20, ApprovedFacts DEF RequestInv, EscalationInv, SessionInv, ReadyTimeout,
       SignReturns, TypeOK
  <2>5. ASSUME NEW u \in Tx PROVE SessionInv(u)'
    BY <1>20, ApprovedFacts DEF RequestInv, EscalationInv, SessionInv, ReadyTimeout,
       SignReturns, TypeOK
  <2>6. MapsMatchGoroutines'
    BY <1>20 DEF RequestInv, EscalationInv, SessionInv, MapsMatchGoroutines, ReadyTimeout,
       SignReturns, TypeOK
  <2> QED
    BY <2>2, <2>3, <2>4, <2>5, <2>6 DEF IndInv
<1>21. ASSUME NEW t \in Tx, LoadKey(t)
      PROVE  IndInv'
  <2>1. \A u \in Tx : PolicyApproves(u) => PolicyApproves(u)'
    BY <1>21, PolicyStable DEF LoadKey, TypeOK
  <2>2. PressInv'
    BY <1>21 DEF PressInv, LoadKey, TypeOK
  <2>3. ASSUME NEW u \in Tx PROVE RequestInv(u)'
    BY <1>21, <2>1, ApprovedFacts DEF RequestInv, EscalationInv, SessionInv, LoadKey, TypeOK
  <2>4. ASSUME NEW u \in Tx PROVE EscalationInv(u)'
    BY <1>21, ApprovedFacts DEF RequestInv, EscalationInv, SessionInv, LoadKey, TypeOK
  <2>5. ASSUME NEW u \in Tx PROVE SessionInv(u)'
    BY <1>21, ApprovedFacts DEF RequestInv, EscalationInv, SessionInv, LoadKey, TypeOK
  <2>6. MapsMatchGoroutines'
    BY <1>21 DEF RequestInv, EscalationInv, SessionInv, MapsMatchGoroutines, LoadKey, TypeOK
  <2> QED
    BY <2>2, <2>3, <2>4, <2>5, <2>6 DEF IndInv
<1>22. ASSUME NEW t \in Tx, KeyMissing(t)
      PROVE  IndInv'
  <2>1. \A u \in Tx : PolicyApproves(u) => PolicyApproves(u)'
    BY <1>22, PolicyStable DEF KeyMissing, SignReturns, TypeOK
  <2>2. PressInv'
    BY <1>22 DEF PressInv, KeyMissing, SignReturns, TypeOK
  <2>3. ASSUME NEW u \in Tx PROVE RequestInv(u)'
    BY <1>22, <2>1, ApprovedFacts DEF RequestInv, EscalationInv, SessionInv, KeyMissing,
       SignReturns, TypeOK
  <2>4. ASSUME NEW u \in Tx PROVE EscalationInv(u)'
    BY <1>22, ApprovedFacts DEF RequestInv, EscalationInv, SessionInv, KeyMissing, SignReturns,
       TypeOK
  <2>5. ASSUME NEW u \in Tx PROVE SessionInv(u)'
    BY <1>22, ApprovedFacts DEF RequestInv, EscalationInv, SessionInv, KeyMissing, SignReturns,
       TypeOK
  <2>6. MapsMatchGoroutines'
    BY <1>22 DEF RequestInv, EscalationInv, SessionInv, MapsMatchGoroutines, KeyMissing,
       SignReturns, TypeOK
  <2> QED
    BY <2>2, <2>3, <2>4, <2>5, <2>6 DEF IndInv
<1>23. ASSUME NEW t \in Tx, RoundAccepted(t)
      PROVE  IndInv'
  <2>1. \A u \in Tx : PolicyApproves(u) => PolicyApproves(u)'
    BY <1>23, PolicyStable DEF RoundAccepted, SignReturns, TypeOK
  <2>2. PressInv'
    BY <1>23 DEF PressInv, RoundAccepted, SignReturns, TypeOK
  <2>3. ASSUME NEW u \in Tx PROVE RequestInv(u)'
    BY <1>23, <2>1, ApprovedFacts DEF RequestInv, EscalationInv, SessionInv, RoundAccepted,
       SignReturns, TypeOK
  <2>4. ASSUME NEW u \in Tx PROVE EscalationInv(u)'
    BY <1>23, ApprovedFacts DEF RequestInv, EscalationInv, SessionInv, RoundAccepted,
       SignReturns, TypeOK
  <2>5. ASSUME NEW u \in Tx PROVE SessionInv(u)'
    BY <1>23, ApprovedFacts DEF RequestInv, EscalationInv, SessionInv, RoundAccepted,
       SignReturns, TypeOK
  <2>6. MapsMatchGoroutines'
    BY <1>23 DEF RequestInv, EscalationInv, SessionInv, MapsMatchGoroutines, RoundAccepted,
       SignReturns, TypeOK
  <2> QED
    BY <2>2, <2>3, <2>4, <2>5, <2>6 DEF IndInv
<1>24. ASSUME NEW t \in Tx, RoundForeign(t)
      PROVE  IndInv'
  <2>1. \A u \in Tx : PolicyApproves(u) => PolicyApproves(u)'
    BY <1>24, PolicyStable DEF RoundForeign, SignReturns, TypeOK
  <2>2. PressInv'
    BY <1>24 DEF PressInv, RoundForeign, SignReturns, TypeOK
  <2>3. ASSUME NEW u \in Tx PROVE RequestInv(u)'
    BY <1>24, <2>1, ApprovedFacts DEF RequestInv, EscalationInv, SessionInv, RoundForeign,
       SignReturns, TypeOK
  <2>4. ASSUME NEW u \in Tx PROVE EscalationInv(u)'
    BY <1>24, ApprovedFacts DEF RequestInv, EscalationInv, SessionInv, RoundForeign,
       SignReturns, TypeOK
  <2>5. ASSUME NEW u \in Tx PROVE SessionInv(u)'
    BY <1>24, ApprovedFacts DEF RequestInv, EscalationInv, SessionInv, RoundForeign,
       SignReturns, TypeOK
  <2>6. MapsMatchGoroutines'
    BY <1>24 DEF RequestInv, EscalationInv, SessionInv, MapsMatchGoroutines, RoundForeign,
       SignReturns, TypeOK
  <2> QED
    BY <2>2, <2>3, <2>4, <2>5, <2>6 DEF IndInv
<1>25. ASSUME NEW t \in Tx, StoreOutcome(t)
      PROVE  IndInv'
  <2>1. \A u \in Tx : PolicyApproves(u) => PolicyApproves(u)'
    BY <1>25, PolicyStable DEF StoreOutcome, WriteStatus, TypeOK
  <2>2. PressInv'
    BY <1>25 DEF PressInv, StoreOutcome, WriteStatus, TypeOK
  <2>3. ASSUME NEW u \in Tx PROVE RequestInv(u)'
    BY <1>25, <2>1, ApprovedFacts DEF RequestInv, EscalationInv, SessionInv, StoreOutcome,
       WriteStatus, TypeOK
  <2>4. ASSUME NEW u \in Tx PROVE EscalationInv(u)'
    BY <1>25, ApprovedFacts DEF RequestInv, EscalationInv, SessionInv, StoreOutcome,
       WriteStatus, TypeOK
  <2>5. ASSUME NEW u \in Tx PROVE SessionInv(u)'
    BY <1>25, ApprovedFacts DEF RequestInv, EscalationInv, SessionInv, StoreOutcome,
       WriteStatus, TypeOK
  <2>6. MapsMatchGoroutines'
    BY <1>25 DEF RequestInv, EscalationInv, SessionInv, MapsMatchGoroutines, StoreOutcome,
       WriteStatus, TypeOK
  <2> QED
    BY <2>2, <2>3, <2>4, <2>5, <2>6 DEF IndInv
<1>26. ASSUME NEW t \in Tx, CloseSession(t)
      PROVE  IndInv'
  <2>1. \A u \in Tx : PolicyApproves(u) => PolicyApproves(u)'
    BY <1>26, PolicyStable DEF CloseSession, TypeOK
  <2>2. PressInv'
    BY <1>26 DEF PressInv, CloseSession, TypeOK
  <2>3. ASSUME NEW u \in Tx PROVE RequestInv(u)'
    BY <1>26, <2>1, ApprovedFacts DEF RequestInv, EscalationInv, SessionInv, CloseSession, TypeOK
  <2>4. ASSUME NEW u \in Tx PROVE EscalationInv(u)'
    BY <1>26, ApprovedFacts DEF RequestInv, EscalationInv, SessionInv, CloseSession, TypeOK
  <2>5. ASSUME NEW u \in Tx PROVE SessionInv(u)'
    BY <1>26, ApprovedFacts DEF RequestInv, EscalationInv, SessionInv, CloseSession, TypeOK
  <2>6. MapsMatchGoroutines'
    BY <1>26 DEF RequestInv, EscalationInv, SessionInv, MapsMatchGoroutines, CloseSession, TypeOK
  <2> QED
    BY <2>2, <2>3, <2>4, <2>5, <2>6 DEF IndInv
<1>27. ASSUME NEW t \in Tx, TssError(t)
      PROVE  IndInv'
  <2>1. \A u \in Tx : PolicyApproves(u) => PolicyApproves(u)'
    BY <1>27, PolicyStable DEF TssError, SignReturns, TypeOK
  <2>2. PressInv'
    BY <1>27 DEF PressInv, TssError, SignReturns, TypeOK
  <2>3. ASSUME NEW u \in Tx PROVE RequestInv(u)'
    BY <1>27, <2>1, ApprovedFacts DEF RequestInv, EscalationInv, SessionInv, TssError,
       SignReturns, TypeOK
  <2>4. ASSUME NEW u \in Tx PROVE EscalationInv(u)'
    BY <1>27, ApprovedFacts DEF RequestInv, EscalationInv, SessionInv, TssError, SignReturns,
       TypeOK
  <2>5. ASSUME NEW u \in Tx PROVE SessionInv(u)'
    BY <1>27, ApprovedFacts DEF RequestInv, EscalationInv, SessionInv, TssError, SignReturns,
       TypeOK
  <2>6. MapsMatchGoroutines'
    BY <1>27 DEF RequestInv, EscalationInv, SessionInv, MapsMatchGoroutines, TssError,
       SignReturns, TypeOK
  <2> QED
    BY <2>2, <2>3, <2>4, <2>5, <2>6 DEF IndInv
<1>28. ASSUME NEW t \in Tx, NEW b \in Buttons, Press(t, b)
      PROVE  IndInv'
  <2>1. \A u \in Tx : PolicyApproves(u) => PolicyApproves(u)'
    BY <1>28, PolicyStable DEF Press, TypeOK
  <2>2. PressInv'
    <3>1. \A u \in Tx : pressed[u] \subseteq pressed'[u]
      BY <1>28 DEF Press, TypeOK
    <3>2. pressed'[t] = pressed[t] \cup {b} /\ \A u \in Tx \ {t} : pressed'[u] = pressed[u]
      BY <1>28 DEF Press, TypeOK
    <3>3. b \in {"approve", "whitelist", "reject"}
      BY PartyBAssumption
    <3>4. \A u \in Tx : pressed'[u] # {} => u \in shown'
      BY <1>28, <3>2 DEF Press, PressInv
    <3>5. botTx' = t /\ (botPc' = "whitelist" => b = "whitelist") /\ (botYes' => b # "reject")
          /\ botPc' # "send" /\ UNCHANGED <<shown, handler, verdict, whitelist>>
      BY <1>28 DEF Press
    <3>6. \A u \in Tx : verdict[u] = "yes" => pressed'[u] \cap {"approve", "whitelist"} # {}
      BY <3>1 DEF PressInv
    <3>7. \A a \in whitelist : \/ a \in SeedWhitelist
                               \/ \E u \in Tx : a \in To[u] /\ "whitelist" \in pressed'[u]
      BY <3>1 DEF PressInv
    <3>8. /\ botPc' = "whitelist" => "whitelist" \in pressed'[botTx']
          /\ botYes' => pressed'[botTx'] \cap {"approve", "whitelist"} # {}
      BY <3>2, <3>3, <3>5
    <3> QED
      BY <3>4, <3>5, <3>6, <3>7, <3>8 DEF PressInv
  <2>3. ASSUME NEW u \in Tx PROVE RequestInv(u)'
    BY <1>28, <2>1, ApprovedFacts DEF RequestInv, EscalationInv, SessionInv, Press, TypeOK
  <2>4. ASSUME NEW u \in Tx PROVE EscalationInv(u)'
    BY <1>28, ApprovedFacts DEF RequestInv, EscalationInv, SessionInv, Press, TypeOK
  <2>5. ASSUME NEW u \in Tx PROVE SessionInv(u)'
    BY <1>28, ApprovedFacts DEF RequestInv, EscalationInv, SessionInv, Press, TypeOK
  <2>6. MapsMatchGoroutines'
    BY <1>28 DEF RequestInv, EscalationInv, SessionInv, MapsMatchGoroutines, Press, TypeOK
  <2> QED
    BY <2>2, <2>3, <2>4, <2>5, <2>6 DEF IndInv
<1>29. ASSUME NEW t \in Tx, NEW b \in Bytes \cup {None}, HandleSignReady(t, b)
      PROVE  IndInv'
  <2>1. \A u \in Tx : PolicyApproves(u) => PolicyApproves(u)'
    BY <1>29, PolicyStable DEF HandleSignReady, TypeOK
  <2>2. PressInv'
    BY <1>29 DEF PressInv, HandleSignReady, TypeOK
  <2>3. ASSUME NEW u \in Tx PROVE RequestInv(u)'
    BY <1>29, <2>1, ApprovedFacts DEF RequestInv, EscalationInv, SessionInv, HandleSignReady,
       TypeOK
  <2>4. ASSUME NEW u \in Tx PROVE EscalationInv(u)'
    BY <1>29, ApprovedFacts DEF RequestInv, EscalationInv, SessionInv, HandleSignReady, TypeOK
  <2>5. ASSUME NEW u \in Tx PROVE SessionInv(u)'
    BY <1>29, ApprovedFacts DEF RequestInv, EscalationInv, SessionInv, HandleSignReady, TypeOK
  <2>6. MapsMatchGoroutines'
    BY <1>29 DEF RequestInv, EscalationInv, SessionInv, MapsMatchGoroutines, HandleSignReady,
       TypeOK
  <2> QED
    BY <2>2, <2>3, <2>4, <2>5, <2>6 DEF IndInv
<1>30. ASSUME NEW m \in Round, HandleTSSRound(m)
      PROVE  IndInv'
  <2>1. \A u \in Tx : PolicyApproves(u) => PolicyApproves(u)'
    BY <1>30, PolicyStable DEF HandleTSSRound, TypeOK
  <2>2. PressInv'
    BY <1>30 DEF PressInv, HandleTSSRound, TypeOK
  <2>3. ASSUME NEW u \in Tx PROVE RequestInv(u)'
    BY <1>30, <2>1, ApprovedFacts DEF RequestInv, EscalationInv, SessionInv, HandleTSSRound,
       TypeOK
  <2>4. ASSUME NEW u \in Tx PROVE EscalationInv(u)'
    BY <1>30, ApprovedFacts DEF RequestInv, EscalationInv, SessionInv, HandleTSSRound, TypeOK
  <2>5. ASSUME NEW u \in Tx PROVE SessionInv(u)'
    BY <1>30, ApprovedFacts DEF RequestInv, EscalationInv, SessionInv, HandleTSSRound, TypeOK
  <2>6. MapsMatchGoroutines'
    BY <1>30 DEF RequestInv, EscalationInv, SessionInv, MapsMatchGoroutines, HandleTSSRound,
       TypeOK
  <2> QED
    BY <2>2, <2>3, <2>4, <2>5, <2>6 DEF IndInv
<1>31. ASSUME NEW p \in Path, HandleDeriveRequest(p)
      PROVE  IndInv'
  <2>1. \A u \in Tx : PolicyApproves(u) => PolicyApproves(u)'
    BY <1>31, PolicyStable DEF HandleDeriveRequest, TypeOK
  <2>2. PressInv'
    BY <1>31 DEF PressInv, HandleDeriveRequest, TypeOK
  <2>3. ASSUME NEW u \in Tx PROVE RequestInv(u)'
    BY <1>31, <2>1, ApprovedFacts DEF RequestInv, EscalationInv, SessionInv,
       HandleDeriveRequest, TypeOK
  <2>4. ASSUME NEW u \in Tx PROVE EscalationInv(u)'
    BY <1>31, ApprovedFacts DEF RequestInv, EscalationInv, SessionInv, HandleDeriveRequest, TypeOK
  <2>5. ASSUME NEW u \in Tx PROVE SessionInv(u)'
    BY <1>31, ApprovedFacts DEF RequestInv, EscalationInv, SessionInv, HandleDeriveRequest, TypeOK
  <2>6. MapsMatchGoroutines'
    BY <1>31 DEF RequestInv, EscalationInv, SessionInv, MapsMatchGoroutines,
       HandleDeriveRequest, TypeOK
  <2> QED
    BY <2>2, <2>3, <2>4, <2>5, <2>6 DEF IndInv
<1>32. ASSUME NEW v \in BOOLEAN, SetAutoMode(v)
      PROVE  IndInv'
  <2>1. \A u \in Tx : PolicyApproves(u) => PolicyApproves(u)'
    BY <1>32, PolicyStable DEF SetAutoMode, TypeOK
  <2>2. PressInv'
    BY <1>32 DEF PressInv, SetAutoMode, TypeOK
  <2>3. ASSUME NEW u \in Tx PROVE RequestInv(u)'
    BY <1>32, <2>1, ApprovedFacts DEF RequestInv, EscalationInv, SessionInv, SetAutoMode, TypeOK
  <2>4. ASSUME NEW u \in Tx PROVE EscalationInv(u)'
    BY <1>32, ApprovedFacts DEF RequestInv, EscalationInv, SessionInv, SetAutoMode, TypeOK
  <2>5. ASSUME NEW u \in Tx PROVE SessionInv(u)'
    BY <1>32, ApprovedFacts DEF RequestInv, EscalationInv, SessionInv, SetAutoMode, TypeOK
  <2>6. MapsMatchGoroutines'
    BY <1>32 DEF RequestInv, EscalationInv, SessionInv, MapsMatchGoroutines, SetAutoMode, TypeOK
  <2> QED
    BY <2>2, <2>3, <2>4, <2>5, <2>6 DEF IndInv
<1>33. ASSUME WhitelistAddrs
      PROVE  IndInv'
  <2>1. \A u \in Tx : PolicyApproves(u) => PolicyApproves(u)'
    BY <1>33, PolicyStable DEF WhitelistAddrs, TypeOK
  <2>2. PressInv'
    BY <1>33 DEF PressInv, WhitelistAddrs, TypeOK
  <2>3. ASSUME NEW u \in Tx PROVE RequestInv(u)'
    BY <1>33, <2>1, ApprovedFacts DEF RequestInv, EscalationInv, SessionInv, WhitelistAddrs,
       TypeOK
  <2>4. ASSUME NEW u \in Tx PROVE EscalationInv(u)'
    BY <1>33, ApprovedFacts DEF RequestInv, EscalationInv, SessionInv, WhitelistAddrs, TypeOK
  <2>5. ASSUME NEW u \in Tx PROVE SessionInv(u)'
    BY <1>33, ApprovedFacts DEF RequestInv, EscalationInv, SessionInv, WhitelistAddrs, TypeOK
  <2>6. MapsMatchGoroutines'
    BY <1>33 DEF RequestInv, EscalationInv, SessionInv, MapsMatchGoroutines, WhitelistAddrs,
       TypeOK
  <2> QED
    BY <2>2, <2>3, <2>4, <2>5, <2>6 DEF IndInv
<1>34. ASSUME LookupDecision
      PROVE  IndInv'
  <2>1. \A u \in Tx : PolicyApproves(u) => PolicyApproves(u)'
    BY <1>34, PolicyStable DEF LookupDecision, BotReturns, TypeOK
  <2>2. PressInv'
    <3>1. botTx \in pending => handler[botTx] \in {"registering", "reply", "done"}
      BY <1>34 DEF MapsMatchGoroutines, RequestInv, LookupDecision, TypeOK, HandlerPc
    <3>2. UNCHANGED <<shown, pressed, handler, verdict, whitelist>>
      BY <1>34 DEF LookupDecision
    <3>3. \/ botTx \in pending /\ botPc' = "send" /\ UNCHANGED <<botTx, botYes>>
          \/ botPc' = "idle"
      BY <1>34 DEF LookupDecision, BotReturns
    <3>4. botPc = "lookup"
      BY <1>34 DEF LookupDecision
    <3> QED
      BY <3>1, <3>2, <3>3, <3>4 DEF PressInv
  <2>3. ASSUME NEW u \in Tx PROVE RequestInv(u)'
    BY <1>34, <2>1, ApprovedFacts DEF RequestInv, EscalationInv, SessionInv, LookupDecision,
       BotReturns, TypeOK
  <2>4. ASSUME NEW u \in Tx PROVE EscalationInv(u)'
    BY <1>34, ApprovedFacts DEF RequestInv, EscalationInv, SessionInv, LookupDecision,
       BotReturns, TypeOK
  <2>5. ASSUME NEW u \in Tx PROVE SessionInv(u)'
    BY <1>34, ApprovedFacts DEF RequestInv, EscalationInv, SessionInv, LookupDecision,
       BotReturns, TypeOK
  <2>6. MapsMatchGoroutines'
    BY <1>34 DEF RequestInv, EscalationInv, SessionInv, MapsMatchGoroutines, LookupDecision,
       BotReturns, TypeOK
  <2> QED
    BY <2>2, <2>3, <2>4, <2>5, <2>6 DEF IndInv
<1>35. ASSUME SendDecision
      PROVE  IndInv'
  <2>1. \A u \in Tx : PolicyApproves(u) => PolicyApproves(u)'
    BY <1>35, PolicyStable DEF SendDecision, BotReturns, TypeOK
  <2>2. PressInv'
    BY <1>35 DEF PressInv, SendDecision, BotReturns, TypeOK
  <2>3. ASSUME NEW u \in Tx PROVE RequestInv(u)'
    BY <1>35, <2>1, ApprovedFacts DEF RequestInv, EscalationInv, SessionInv, SendDecision,
       BotReturns, TypeOK
  <2>4. ASSUME NEW u \in Tx PROVE EscalationInv(u)'
    <3>1. botTx \in Tx /\ handler[botTx] \in {"registering", "reply", "done"}
          /\ decisionCh[botTx] = "empty"
      BY <1>35 DEF SendDecision, PressInv, TypeOK
    <3>2. UNCHANGED <<handler, esc, sess, status>>
      BY <1>35 DEF SendDecision
    <3>3. CASE u # botTx
      <4>1. decisionCh'[u] = decisionCh[u] /\ verdict'[u] = verdict[u]
        BY <1>35, <3>3 DEF SendDecision, TypeOK
      <4> QED
        BY <3>2, <4>1 DEF EscalationInv
    <3>4. CASE u = botTx
      <4> DEFINE d == IF botYes THEN "yes" ELSE "no"
      <4>1. decisionCh'[u] = d /\ verdict'[u] = IF verdict[u] # "none" THEN verdict[u] ELSE d
        BY <1>35, <3>1, <3>4 DEF SendDecision, TypeOK
      <4>2. d # "empty"
        OBVIOUS
      <4> HIDE DEF d
      <4> QED
        BY <3>1, <3>2, <3>4, <4>1, <4>2 DEF EscalationInv
    <3> QED
      BY <3>3, <3>4
  <2>5. ASSUME NEW u \in Tx PROVE SessionInv(u)'
    BY <1>35, ApprovedFacts DEF RequestInv, EscalationInv, SessionInv, SendDecision,
       BotReturns, TypeOK
  <2>6. MapsMatchGoroutines'
    BY <1>35 DEF RequestInv, EscalationInv, SessionInv, MapsMatchGoroutines, SendDecision,
       BotReturns, TypeOK
  <2> QED
    BY <2>2, <2>3, <2>4, <2>5, <2>6 DEF IndInv
<1>36. ASSUME Restart
      PROVE  IndInv'
  <2>1. \A u \in Tx : PolicyApproves(u) => PolicyApproves(u)'
    BY <1>36, PolicyStable DEF Restart, BotReturns, TypeOK
  <2>2. PressInv'
    BY <1>36, SeedsBound DEF PressInv, Restart, BotReturns, TypeOK
  <2>3. ASSUME NEW u \in Tx PROVE RequestInv(u)'
    <3>1. /\ handler'[u] = IF handler[u] = "idle" THEN "idle" ELSE "done"
          /\ esc'[u] = IF esc[u] = "none" THEN "none" ELSE "done"
          /\ sess'[u] = IF sess[u] = "none" THEN "none" ELSE "ended"
          /\ resp'[u] = resp[u] /\ status'[u] = status[u]
      BY <1>36 DEF Restart
    <3>2. resp[u] = "none" /\ Committed(u) => PolicyApproves(u)
      BY DEF RequestInv, TypeOK, HandlerPc
    <3> QED
      BY <2>1, <3>1, <3>2 DEF RequestInv
  <2>4. ASSUME NEW u \in Tx PROVE EscalationInv(u)'
    BY <1>36, ApprovedFacts DEF RequestInv, EscalationInv, SessionInv, Restart, BotReturns, TypeOK
  <2>5. ASSUME NEW u \in Tx PROVE SessionInv(u)'
    BY <1>36, ApprovedFacts DEF RequestInv, EscalationInv, SessionInv, Restart, BotReturns, TypeOK
  <2>6. MapsMatchGoroutines'
    BY <1>36 DEF RequestInv, EscalationInv, SessionInv, MapsMatchGoroutines, Restart,
       BotReturns, TypeOK
  <2> QED
    BY <2>2, <2>3, <2>4, <2>5, <2>6 DEF IndInv
<1>37. ASSUME UNCHANGED vars
      PROVE  IndInv'
  <2>1. \A u \in Tx : PolicyApproves(u) => PolicyApproves(u)'
    BY <1>37, PolicyStable DEF vars, TypeOK
  <2>2. PressInv'
    BY <1>37 DEF PressInv, vars, TypeOK
  <2>3. ASSUME NEW u \in Tx PROVE RequestInv(u)'
    BY <1>37, <2>1, ApprovedFacts DEF RequestInv, EscalationInv, SessionInv, vars, TypeOK
  <2>4. ASSUME NEW u \in Tx PROVE EscalationInv(u)'
    BY <1>37, ApprovedFacts DEF RequestInv, EscalationInv, SessionInv, vars, TypeOK
  <2>5. ASSUME NEW u \in Tx PROVE SessionInv(u)'
    BY <1>37, ApprovedFacts DEF RequestInv, EscalationInv, SessionInv, vars, TypeOK
  <2>6. MapsMatchGoroutines'
    BY <1>37 DEF RequestInv, EscalationInv, SessionInv, MapsMatchGoroutines, vars, TypeOK
  <2> QED
    BY <2>2, <2>3, <2>4, <2>5, <2>6 DEF IndInv
<1>38. ASSUME NEW f \in feeding, FeedMessage(f)
      PROVE  IndInv'
  <2>1. \A u \in Tx : PolicyApproves(u) => PolicyApproves(u)'
    BY <1>38, PolicyStable DEF FeedMessage, TypeOK
  <2>2. PressInv'
    BY <1>38 DEF PressInv, FeedMessage, TypeOK
  <2>3. ASSUME NEW u \in Tx PROVE RequestInv(u)'
    BY <1>38, <2>1, ApprovedFacts DEF RequestInv, EscalationInv, SessionInv, FeedMessage, TypeOK
  <2>4. ASSUME NEW u \in Tx PROVE EscalationInv(u)'
    BY <1>38, ApprovedFacts DEF RequestInv, EscalationInv, SessionInv, FeedMessage, TypeOK
  <2>5. ASSUME NEW u \in Tx PROVE SessionInv(u)'
    BY <1>38, ApprovedFacts DEF RequestInv, EscalationInv, SessionInv, FeedMessage, TypeOK
  <2>6. MapsMatchGoroutines'
    BY <1>38 DEF RequestInv, EscalationInv, SessionInv, MapsMatchGoroutines, FeedMessage, TypeOK
  <2> QED
    BY <2>2, <2>3, <2>4, <2>5, <2>6 DEF IndInv
<1>39. ASSUME NEW t \in Tx, AutoNotified(t)
      PROVE  IndInv'
  <2>1. \A u \in Tx : PolicyApproves(u) => PolicyApproves(u)'
    BY <1>39, PolicyStable DEF AutoNotified, TypeOK
  <2>2. PressInv'
    BY <1>39 DEF PressInv, AutoNotified, TypeOK
  <2>3. ASSUME NEW u \in Tx PROVE RequestInv(u)'
    BY <1>39, <2>1, ApprovedFacts DEF RequestInv, EscalationInv, SessionInv, AutoNotified, TypeOK
  <2>4. ASSUME NEW u \in Tx PROVE EscalationInv(u)'
    BY <1>39, ApprovedFacts DEF RequestInv, EscalationInv, SessionInv, AutoNotified, TypeOK
  <2>5. ASSUME NEW u \in Tx PROVE SessionInv(u)'
    BY <1>39, ApprovedFacts DEF RequestInv, EscalationInv, SessionInv, AutoNotified, TypeOK
  <2>6. MapsMatchGoroutines'
    BY <1>39 DEF RequestInv, EscalationInv, SessionInv, MapsMatchGoroutines, AutoNotified, TypeOK
  <2> QED
    BY <2>2, <2>3, <2>4, <2>5, <2>6 DEF IndInv
<1>40. ASSUME NEW t \in Tx, NotifySent(t)
      PROVE  IndInv'
  <2>1. \A u \in Tx : PolicyApproves(u) => PolicyApproves(u)'
    BY <1>40, PolicyStable DEF NotifySent, TypeOK
  <2>2. PressInv'
    BY <1>40 DEF PressInv, NotifySent, TypeOK
  <2>3. ASSUME NEW u \in Tx PROVE RequestInv(u)'
    BY <1>40, <2>1, ApprovedFacts DEF RequestInv, EscalationInv, SessionInv, NotifySent, TypeOK
  <2>4. ASSUME NEW u \in Tx PROVE EscalationInv(u)'
    BY <1>40, ApprovedFacts DEF RequestInv, EscalationInv, SessionInv, NotifySent, TypeOK
  <2>5. ASSUME NEW u \in Tx PROVE SessionInv(u)'
    BY <1>40, ApprovedFacts DEF RequestInv, EscalationInv, SessionInv, NotifySent, TypeOK
  <2>6. MapsMatchGoroutines'
    BY <1>40 DEF RequestInv, EscalationInv, SessionInv, MapsMatchGoroutines, NotifySent, TypeOK
  <2> QED
    BY <2>2, <2>3, <2>4, <2>5, <2>6 DEF IndInv
<1>41. ASSUME NEW r \in handing, HandReady(r)
      PROVE  IndInv'
  <2>1. \A u \in Tx : PolicyApproves(u) => PolicyApproves(u)'
    BY <1>41, PolicyStable DEF HandReady, TypeOK
  <2>2. PressInv'
    BY <1>41 DEF PressInv, HandReady, TypeOK
  <2>3. ASSUME NEW u \in Tx PROVE RequestInv(u)'
    BY <1>41, <2>1, ApprovedFacts DEF RequestInv, EscalationInv, SessionInv, HandReady, TypeOK
  <2>4. ASSUME NEW u \in Tx PROVE EscalationInv(u)'
    BY <1>41, ApprovedFacts DEF RequestInv, EscalationInv, SessionInv, HandReady, TypeOK
  <2>5. ASSUME NEW u \in Tx PROVE SessionInv(u)'
    BY <1>41, ApprovedFacts DEF RequestInv, EscalationInv, SessionInv, HandReady, TypeOK
  <2>6. MapsMatchGoroutines'
    BY <1>41 DEF RequestInv, EscalationInv, SessionInv, MapsMatchGoroutines, HandReady, TypeOK
  <2> QED
    BY <2>2, <2>3, <2>4, <2>5, <2>6 DEF IndInv
<1> QED
  BY <1>1, <1>2, <1>3, <1>4, <1>5, <1>6, <1>7, <1>8, <1>9, <1>10, <1>11, <1>12, <1>13,
     <1>14, <1>15, <1>16, <1>17, <1>18, <1>19, <1>20, <1>21, <1>22, <1>23, <1>24, <1>25,
     <1>26, <1>27, <1>28, <1>29, <1>30, <1>31, <1>32, <1>33, <1>34, <1>35, <1>36, <1>37,
     <1>38, <1>39, <1>40, <1>41
     DEF Next, RequestStep, TelegramStep, EscalateFail, Analyzed, EscalationStep,
         SessionStep, BotStep

-----------------------------------------------------------------------------
(* The theorems.                                                           *)

\* Initially nothing was requested, shown, decided or signed.
LEMMA IndInit == Init => IndInv
<1> SUFFICES ASSUME Init PROVE IndInv
  OBVIOUS
<1>1. PressInv
  BY SeedsBound DEF Init, PressInv
<1>2. MapsMatchGoroutines
  BY DEF Init, MapsMatchGoroutines
<1>3. ASSUME NEW t \in Tx PROVE RequestInv(t) /\ EscalationInv(t) /\ SessionInv(t)
  BY DEF Init, RequestInv, EscalationInv, SessionInv, Early, Open, Committed
<1> QED
  BY <1>1, <1>2, <1>3 DEF IndInv

\* The inductive invariant: how the handler, the two goroutines, the bot and
\* the table of one transaction can stand to each other.
THEOREM Inductive == Spec => [](TypeOK /\ IndInv)
<1>1. Init => TypeOK /\ IndInv
  BY TypeInit, IndInit
<1>2. TypeOK /\ IndInv /\ [Next]_vars => (TypeOK /\ IndInv)'
  BY TypeStep, IndStep
<1> QED
  BY <1>1, <1>2, PTL DEF Spec

\* In every state of the inductive invariant, what Party B is committed to was
\* let through by the owner or by the policy.
LEMMA AuthorisedFromInv == TypeOK /\ IndInv => Authorised
<1> SUFFICES ASSUME TypeOK, IndInv, NEW t \in Tx, Committed(t)
             PROVE  IF esc[t] # "none" THEN OwnerApproved(t) ELSE PolicyApproves(t)
  BY DEF Authorised
<1>0. PressInv /\ RequestInv(t) /\ EscalationInv(t) /\ SessionInv(t)
  BY DEF IndInv
<1>1. CASE esc[t] # "none"
  BY <1>0, <1>1 DEF EscalationInv, PressInv, OwnerApproved
<1>2. CASE esc[t] = "none"
  <2>1. handler[t] \notin Early
    BY <1>0 DEF RequestInv, Committed, Open
  <2>2. handler[t] \in {"approved", "telling", "reply", "done"}
    BY <2>1 DEF TypeOK, HandlerPc, Early
  <2>3. resp[t] \notin {"reject", "escalate"}
    BY <1>0, <1>2 DEF RequestInv, Committed, Open
  <2>4. resp[t] \in {"none", "approve"}
    BY <2>3 DEF TypeOK
  <2> QED
    BY <1>0, <1>2, <2>2, <2>4 DEF RequestInv
<1> QED
  BY <1>1, <1>2

\* HandleSignRequest, escalate, startSigning: whatever Party A sends, however
\* presses, timers, failures and restarts interleave, Party B commits to an
\* escalated transaction only after the owner's approval was the first decision
\* delivered on it, and to any other only for a recipient the configuration or
\* an "Approve & Whitelist" on another transaction vouches for.
THEOREM CommitsAreAuthorised == Spec => []Authorised
  BY AuthorisedFromInv, Inductive, PTL

\* A transaction Party A was told is rejected is never approved or signed, and
\* no session is ever started for it.
THEOREM RejectIsFinal == Spec => []RejectReplyIsFinal
<1>1. IndInv => RejectReplyIsFinal
  BY DEF IndInv, RequestInv, RejectReplyIsFinal, Committed, Open
<1> QED
  BY <1>1, Inductive, PTL

\* pending, reqCache and signReady hold what running goroutines need, no more
\* and no less.
THEOREM MapsMatch == Spec => []MapsMatchGoroutines
<1>1. IndInv => MapsMatchGoroutines
  BY DEF IndInv
<1> QED
  BY <1>1, Inductive, PTL

-----------------------------------------------------------------------------

\* startSigning takes the router, CloseSession gives up only its own, and every
\* other step leaves the router and the set of running sessions alone.
LEMMA RouterStep == TypeOK /\ RouterServesNewest /\ [Next]_vars => RouterServesNewest'
<1> SUFFICES ASSUME TypeOK, RouterServesNewest, [Next]_vars PROVE RouterServesNewest'
  OBVIOUS
<1>1. ASSUME NEW t \in Tx, StartSigning(t) PROVE RouterServesNewest'
  BY <1>1, PartyBAssumption DEF RouterServesNewest, StartSigning, Live, TypeOK
<1>2. ASSUME NEW t \in Tx, CloseSession(t) PROVE RouterServesNewest'
  BY <1>2, PartyBAssumption DEF RouterServesNewest, CloseSession, Live, TypeOK
<1>3. ASSUME Restart PROVE RouterServesNewest'
  BY <1>3 DEF RouterServesNewest, Restart, Live
<1>4. ASSUME UNCHANGED <<sess, activeRouter, newest>> PROVE RouterServesNewest'
  BY <1>4 DEF RouterServesNewest, Live
<1>5. ASSUME NEW t \in Tx, t \in Live, NEW s \in SessPc \ {"none", "ended"},
             sess' = [sess EXCEPT ![t] = s] \/ sess' = sess, UNCHANGED routeVars
      PROVE  RouterServesNewest'
  <2>1. Live' = Live
    BY <1>5 DEF Live, TypeOK
  <2> QED
    BY <1>5, <2>1 DEF RouterServesNewest
<1>6. ASSUME NEW t \in Tx, AwaitReady(t) PROVE RouterServesNewest'
  <2>1. t \in Live /\ (sess' = [sess EXCEPT ![t] = "waiting"] \/ sess' = sess) /\ UNCHANGED routeVars
    BY <1>6 DEF AwaitReady, Live
  <2>2. "waiting" \in SessPc \ {"none", "ended"}
    BY DEF SessPc
  <2> QED
    BY <1>5, <2>1, <2>2
<1>7. ASSUME NEW t \in Tx, TakeReady(t) PROVE RouterServesNewest'
  <2>1. t \in Live /\ (sess' = [sess EXCEPT ![t] = "ready"] \/ sess' = sess) /\ UNCHANGED routeVars
    BY <1>7 DEF TakeReady, Live
  <2>2. "ready" \in SessPc \ {"none", "ended"}
    BY DEF SessPc
  <2> QED
    BY <1>5, <2>1, <2>2
<1>8. ASSUME NEW t \in Tx, ReadyTimeout(t) PROVE RouterServesNewest'
  <2>1. t \in Live /\ (sess' = [sess EXCEPT ![t] = "failed"] \/ sess' = sess) /\ UNCHANGED routeVars
    BY <1>8 DEF ReadyTimeout, SignReturns, Live
  <2>2. "failed" \in SessPc \ {"none", "ended"}
    BY DEF SessPc
  <2> QED
    BY <1>5, <2>1, <2>2
<1>9. ASSUME NEW t \in Tx, LoadKey(t) PROVE RouterServesNewest'
  <2>1. t \in Live /\ (sess' = [sess EXCEPT ![t] = "tss"] \/ sess' = sess) /\ UNCHANGED routeVars
    BY <1>9 DEF LoadKey, Live
  <2>2. "tss" \in SessPc \ {"none", "ended"}
    BY DEF SessPc
  <2> QED
    BY <1>5, <2>1, <2>2
<1>10. ASSUME NEW t \in Tx, KeyMissing(t) PROVE RouterServesNewest'
  <2>1. t \in Live /\ (sess' = [sess EXCEPT ![t] = "failed"] \/ sess' = sess) /\ UNCHANGED routeVars
    BY <1>10 DEF KeyMissing, SignReturns, Live
  <2>2. "failed" \in SessPc \ {"none", "ended"}
    BY DEF SessPc
  <2> QED
    BY <1>5, <2>1, <2>2
<1>11. ASSUME NEW t \in Tx, TssError(t) PROVE RouterServesNewest'
  <2>1. t \in Live /\ (sess' = [sess EXCEPT ![t] = "failed"] \/ sess' = sess) /\ UNCHANGED routeVars
    BY <1>11 DEF TssError, SignReturns, Live
  <2>2. "failed" \in SessPc \ {"none", "ended"}
    BY DEF SessPc
  <2> QED
    BY <1>5, <2>1, <2>2
<1>12. ASSUME NEW t \in Tx, StoreOutcome(t) PROVE RouterServesNewest'
  <2>1. t \in Live /\ (sess' = [sess EXCEPT ![t] = "closing"] \/ sess' = sess) /\ UNCHANGED routeVars
    BY <1>12 DEF StoreOutcome, Live
  <2>2. "closing" \in SessPc \ {"none", "ended"}
    BY DEF SessPc
  <2> QED
    BY <1>5, <2>1, <2>2
<1>13. ASSUME NEW t \in Tx, RoundForeign(t) PROVE RouterServesNewest'
  <2>1. t \in Live /\ (sess' = [sess EXCEPT ![t] = "failed"] \/ sess' = sess) /\ UNCHANGED routeVars
    BY <1>13 DEF RoundForeign, SignReturns, Live
  <2>2. "failed" \in SessPc \ {"none", "ended"}
    BY DEF SessPc
  <2> QED
    BY <1>5, <2>1, <2>2
<1>14. ASSUME NEW t \in Tx, RoundAccepted(t) PROVE RouterServesNewest'
  <2>1. t \in Live /\ (sess' = [sess EXCEPT ![t] = "signed"] \/ sess' = sess) /\ UNCHANGED routeVars
    BY <1>14 DEF RoundAccepted, SignReturns, Live
  <2>2. "signed" \in SessPc \ {"none", "ended"}
    BY DEF SessPc
  <2> QED
    BY <1>5, <2>1, <2>2
<1>15. ASSUME NEW t \in Tx,
             \/ ReceiveSignRequest(t) \/ AnalyzeReject(t) \/ AnalyzePass(t)
             \/ RouteAuto(t) \/ EscalateNotify(t) \/ Refuse(t)
             \/ AutoNotified(t) \/ NotifySent(t) \/ RegisterPending(t) \/ RegisterRequest(t) \/ Reply(t)
             \/ DecideApprove(t) \/ DecideReject(t) \/ EscalationTimeout(t)
             \/ PushApproved(t) \/ Unpend(t) \/ Uncache(t)
      PROVE  RouterServesNewest'
  BY <1>4, <1>15 DEF ReceiveSignRequest, AnalyzeReject, AnalyzePass, RouteAuto,
      EscalateNotify, Refuse, AutoNotified, NotifySent, RegisterPending, RegisterRequest, Reply,
      DecideApprove, DecideReject, EscalationTimeout, PushApproved, Unpend, Uncache
<1>16. ASSUME NEW t \in Tx, StartAuto(t) \/ StartEscalated(t) PROVE RouterServesNewest'
  BY <1>1, <1>16 DEF StartAuto, StartEscalated
<1>17. ASSUME NEW t \in Tx,
             \/ \E b \in Buttons : Press(t, b)
             \/ \E b \in Bytes \cup {None} : HandleSignReady(t, b)
      PROVE  RouterServesNewest'
  BY <1>4, <1>17 DEF Press, HandleSignReady
<1>18. ASSUME
              \/ \E m \in Round : HandleTSSRound(m)
              \/ \E f \in feeding : FeedMessage(f)
              \/ \E r \in handing : HandReady(r)
              \/ \E p \in Path : HandleDeriveRequest(p)
              \/ \E v \in BOOLEAN : SetAutoMode(v)
              \/ BotStep
              \/ UNCHANGED vars
      PROVE  RouterServesNewest'
  BY <1>4, <1>18
     DEF HandleTSSRound, FeedMessage, HandReady, HandleDeriveRequest, SetAutoMode, BotStep,
         WhitelistAddrs, LookupDecision, SendDecision, vars
<1> QED
  BY <1>2, <1>3, <1>6, <1>7, <1>8, <1>9, <1>10, <1>11, <1>12, <1>13, <1>14, <1>15,
      <1>16, <1>17, <1>18
     DEF Next, RequestStep, TelegramStep, EscalateFail, EscalationStep, SessionStep

\* Rounds reach the newest running session for any number of overlapping ones,
\* in whatever order they end.
THEOREM RouterCorrect == Spec => []RouterServesNewest
<1>1. Init => RouterServesNewest
  BY PartyBAssumption DEF Init, RouterServesNewest, Live
<1>2. TypeOK /\ RouterServesNewest /\ [Next]_vars => RouterServesNewest'
  BY RouterStep
<1> QED
  BY <1>1, <1>2, TypeCorrect, PTL DEF Spec

-----------------------------------------------------------------------------

\* An UPDATE of a row that exists is one move of its status; any other write
\* changes nothing.
LEMMA WriteMoves ==
  ASSUME NEW t \in Tx, NEW s, NEW b, WriteStatus(t, s, b)
  PROVE  UNCHANGED status \/ (status[t] # "none" /\ LC!Move(t, s))
  BY DEF WriteStatus, LC!Move

\* Every step of Party B is a step of TxLifecycle or leaves the column alone.
LEMMA LifecycleStep == TypeOK /\ IndInv /\ [Next]_vars => [LC!Next]_status
<1> SUFFICES ASSUME TypeOK, IndInv, [Next]_vars PROVE LC!Next \/ UNCHANGED status
  OBVIOUS
<1>0. \A u \in Tx : RequestInv(u) /\ EscalationInv(u) /\ SessionInv(u)
  BY DEF IndInv
<1>1. ASSUME NEW t \in Tx, status[t] \in Open, WriteStatus(t, "rejected", None)
      PROVE  LC!Next \/ UNCHANGED status
  BY <1>1, WriteMoves DEF LC!Next, LC!Reject, Open
<1>2. ASSUME NEW t \in Tx, status[t] \in Open, WriteStatus(t, "approved", None)
      PROVE  LC!Next \/ UNCHANGED status
  BY <1>2, WriteMoves DEF LC!Next, LC!Approve, Open
<1>3. ASSUME NEW t \in Tx, ReceiveSignRequest(t) PROVE LC!Next \/ UNCHANGED status
  <2>1. status[t] = "none"
    BY <1>0, <1>3 DEF ReceiveSignRequest, RequestInv
  <2> QED
    BY <1>3, <2>1 DEF ReceiveSignRequest, LC!Next, LC!Submit, LC!Move
<1>4. ASSUME NEW t \in Tx, AnalyzeReject(t) \/ EscalateFail(t)
      PROVE  LC!Next \/ UNCHANGED status
  <2>1. status[t] \in Open
    BY <1>0, <1>4 DEF AnalyzeReject, EscalateFail, Analyzed, RequestInv, Early
  <2> QED
    BY <1>1, <1>4, <2>1 DEF AnalyzeReject, EscalateFail, Refuse
<1>5. ASSUME NEW t \in Tx, RouteAuto(t) PROVE LC!Next \/ UNCHANGED status
  <2>1. status[t] \in Open
    BY <1>0, <1>5 DEF RouteAuto, AutoApproves, RequestInv, Early
  <2> QED
    BY <1>2, <1>5, <2>1 DEF RouteAuto
<1>6. ASSUME NEW t \in Tx, DecideApprove(t) PROVE LC!Next \/ UNCHANGED status
  <2>1. status[t] \in Open
    BY <1>0, <1>6 DEF DecideApprove, EscalationInv
  <2> QED
    BY <1>2, <1>6, <2>1 DEF DecideApprove
<1>7. ASSUME NEW t \in Tx, DecideReject(t) \/ EscalationTimeout(t)
      PROVE  LC!Next \/ UNCHANGED status
  <2>1. status[t] \in Open
    BY <1>0, <1>7 DEF DecideReject, EscalationTimeout, EscalationInv
  <2> QED
    BY <1>1, <1>7, <2>1 DEF DecideReject, EscalationTimeout
<1>8. ASSUME NEW t \in Tx, StoreOutcome(t) PROVE LC!Next \/ UNCHANGED status
  <2>1. status[t] \in Approved
    BY <1>0, <1>8 DEF StoreOutcome, SessionInv
  <2>2. \/ WriteStatus(t, "signed", msg[t])
        \/ WriteStatus(t, "rejected", None)
    BY <1>8 DEF StoreOutcome
  <2>3. UNCHANGED status \/ (status[t] # "none" /\ (LC!Move(t, "signed") \/ LC!Move(t, "rejected")))
    BY <2>2, WriteMoves
  <2>4. status[t] # "none" => status[t] = "approved" \/ (StoreMayFail /\ status[t] = "pending_review")
    BY <2>1 DEF Approved
  <2> QED
    BY <2>3, <2>4 DEF LC!Next, LC!Sign, LC!Reject
<1>9. ASSUME NEW t \in Tx,
             \/ AnalyzePass(t) \/ StartAuto(t) \/ EscalateNotify(t)
             \/ AutoNotified(t) \/ NotifySent(t)
             \/ RegisterPending(t) \/ RegisterRequest(t) \/ Reply(t)
             \/ PushApproved(t) \/ StartEscalated(t) \/ Unpend(t) \/ Uncache(t)
             \/ AwaitReady(t) \/ TakeReady(t) \/ ReadyTimeout(t) \/ LoadKey(t)
             \/ KeyMissing(t) \/ RoundAccepted(t) \/ RoundForeign(t)
             \/ CloseSession(t) \/ TssError(t)
      PROVE  UNCHANGED status
  BY <1>9 DEF AnalyzePass, StartAuto, EscalateNotify, AutoNotified, NotifySent, RegisterPending,
      RegisterRequest, Reply, PushApproved, StartEscalated, Unpend, Uncache, AwaitReady, TakeReady,
      ReadyTimeout, LoadKey, KeyMissing, RoundAccepted, RoundForeign, CloseSession,
      TssError
<1>10. ASSUME NEW t \in Tx,
             \/ \E b \in Buttons : Press(t, b)
             \/ \E b \in Bytes \cup {None} : HandleSignReady(t, b)
      PROVE  UNCHANGED status
  BY <1>10 DEF Press, HandleSignReady
<1>11. ASSUME
              \/ \E m \in Round : HandleTSSRound(m)
              \/ \E f \in feeding : FeedMessage(f)
              \/ \E r \in handing : HandReady(r)
              \/ \E p \in Path : HandleDeriveRequest(p)
              \/ \E v \in BOOLEAN : SetAutoMode(v)
              \/ BotStep
              \/ Restart
              \/ UNCHANGED vars
      PROVE  UNCHANGED status
  BY <1>11
     DEF HandleTSSRound, FeedMessage, HandReady, HandleDeriveRequest, SetAutoMode, BotStep,
         WhitelistAddrs, LookupDecision, SendDecision, Restart, vars
<1> QED
  BY <1>3, <1>4, <1>5, <1>6, <1>7, <1>8, <1>9, <1>10, <1>11
     DEF Next, RequestStep, TelegramStep, EscalateFail, EscalationStep, SessionStep

\* The transactions table of Party B implements TxLifecycle: although handlers
\* and goroutines overwrite the column unconditionally, rejected and signed are
\* final and nothing is signed that was not approved.
THEOREM ImplementsLifecycle == Spec => FollowsLifecycle
<1>1. Init => LC!Init
  BY DEF Init, LC!Init
<1>2. TypeOK /\ IndInv /\ [Next]_vars => [LC!Next]_status
  BY LifecycleStep
<1> QED
  BY <1>1, <1>2, Inductive, PTL DEF Spec, FollowsLifecycle, LC!Spec

-----------------------------------------------------------------------------
(* The table and the sessions, as Party A's side depends on them.          *)

\* Replies and rejections are final, only a signed session is recorded as
\* signed, a session fails before its first round or while it takes rounds, and
\* the table agrees with the sessions.
LEMMA MovesStep ==
  ASSUME TypeOK, TypeOK', IndInv, \A t \in Tx : RecordInv(t), [Next]_vars, NEW u \in Tx
  PROVE  Moves(u) /\ RecordInv(u)'
<1>0. RequestInv(u) /\ EscalationInv(u) /\ SessionInv(u) /\ RecordInv(u)
  BY DEF IndInv
<1> USE <1>0, ApprovedFacts, PartyBAssumption
<1> USE DEF Early, Open, Unbegun, Beaten, Moves, RecordInv, RequestInv, EscalationInv, SessionInv
<1>1. ASSUME NEW t \in Tx, ReceiveSignRequest(t)
      PROVE  Moves(u) /\ RecordInv(u)'
  BY <1>1 DEF TypeOK, ReceiveSignRequest
<1>2. ASSUME NEW t \in Tx, AnalyzeReject(t)
      PROVE  Moves(u) /\ RecordInv(u)'
  BY <1>2 DEF TypeOK, AnalyzeReject, WriteStatus
<1>3. ASSUME NEW t \in Tx, AnalyzePass(t)
      PROVE  Moves(u) /\ RecordInv(u)'
  BY <1>3 DEF TypeOK, AnalyzePass
<1>4. ASSUME NEW t \in Tx, RouteAuto(t)
      PROVE  Moves(u) /\ RecordInv(u)'
  BY <1>4 DEF TypeOK, RouteAuto, AutoApproves, WriteStatus
<1>5. ASSUME NEW t \in Tx, StartAuto(t)
      PROVE  Moves(u) /\ RecordInv(u)'
  BY <1>5 DEF TypeOK, StartAuto, StartSigning
<1>6. ASSUME NEW t \in Tx, EscalateNotify(t)
      PROVE  Moves(u) /\ RecordInv(u)'
  BY <1>6 DEF TypeOK, EscalateNotify, Analyzed
<1>7. ASSUME NEW t \in Tx, handler[t] \in {"listed", "unlisted", "asking"}, Refuse(t)
      PROVE  Moves(u) /\ RecordInv(u)'
  BY <1>7 DEF TypeOK, Refuse, WriteStatus
<1>8. ASSUME NEW t \in Tx, RegisterPending(t)
      PROVE  Moves(u) /\ RecordInv(u)'
  BY <1>8 DEF TypeOK, RegisterPending
<1>9. ASSUME NEW t \in Tx, RegisterRequest(t)
      PROVE  Moves(u) /\ RecordInv(u)'
  BY <1>9 DEF TypeOK, RegisterRequest
<1>10. ASSUME NEW t \in Tx, Reply(t)
      PROVE  Moves(u) /\ RecordInv(u)'
  BY <1>10 DEF TypeOK, Reply
<1>11. ASSUME NEW t \in Tx, DecideApprove(t)
      PROVE  Moves(u) /\ RecordInv(u)'
  BY <1>11 DEF TypeOK, DecideApprove, WriteStatus
<1>12. ASSUME NEW t \in Tx, DecideReject(t)
      PROVE  Moves(u) /\ RecordInv(u)'
  BY <1>12 DEF TypeOK, DecideReject, WriteStatus
<1>13. ASSUME NEW t \in Tx, EscalationTimeout(t)
      PROVE  Moves(u) /\ RecordInv(u)'
  BY <1>13 DEF TypeOK, EscalationTimeout, WriteStatus
<1>14. ASSUME NEW t \in Tx, PushApproved(t)
      PROVE  Moves(u) /\ RecordInv(u)'
  BY <1>14 DEF TypeOK, PushApproved
<1>15. ASSUME NEW t \in Tx, StartEscalated(t)
      PROVE  Moves(u) /\ RecordInv(u)'
  BY <1>15 DEF TypeOK, StartEscalated, StartSigning
<1>16. ASSUME NEW t \in Tx, Unpend(t)
      PROVE  Moves(u) /\ RecordInv(u)'
  BY <1>16 DEF TypeOK, Unpend
<1>17. ASSUME NEW t \in Tx, Uncache(t)
      PROVE  Moves(u) /\ RecordInv(u)'
  BY <1>17 DEF TypeOK, Uncache
<1>18. ASSUME NEW t \in Tx, AwaitReady(t)
      PROVE  Moves(u) /\ RecordInv(u)'
  BY <1>18 DEF TypeOK, AwaitReady
<1>19. ASSUME NEW t \in Tx, TakeReady(t)
      PROVE  Moves(u) /\ RecordInv(u)'
  BY <1>19 DEF TypeOK, TakeReady
<1>20. ASSUME NEW t \in Tx, ReadyTimeout(t)
      PROVE  Moves(u) /\ RecordInv(u)'
  BY <1>20 DEF TypeOK, ReadyTimeout, SignReturns
<1>21. ASSUME NEW t \in Tx, LoadKey(t)
      PROVE  Moves(u) /\ RecordInv(u)'
  BY <1>21 DEF TypeOK, LoadKey
<1>22. ASSUME NEW t \in Tx, KeyMissing(t)
      PROVE  Moves(u) /\ RecordInv(u)'
  BY <1>22 DEF TypeOK, KeyMissing, SignReturns
<1>23. ASSUME NEW t \in Tx, RoundAccepted(t)
      PROVE  Moves(u) /\ RecordInv(u)'
  BY SMTT(60), <1>23 DEF TypeOK, RoundAccepted, SignReturns
<1>24. ASSUME NEW t \in Tx, RoundForeign(t)
      PROVE  Moves(u) /\ RecordInv(u)'
  BY <1>24 DEF TypeOK, RoundForeign, SignReturns
<1>25. ASSUME NEW t \in Tx, StoreOutcome(t)
      PROVE  Moves(u) /\ RecordInv(u)'
  BY <1>25 DEF TypeOK, StoreOutcome, WriteStatus
<1>26. ASSUME NEW t \in Tx, CloseSession(t)
      PROVE  Moves(u) /\ RecordInv(u)'
  BY <1>26 DEF TypeOK, CloseSession
<1>27. ASSUME NEW t \in Tx, TssError(t)
      PROVE  Moves(u) /\ RecordInv(u)'
  BY <1>27 DEF TypeOK, TssError, SignReturns
<1>28. ASSUME NEW t \in Tx, NEW b \in Buttons, Press(t, b)
      PROVE  Moves(u) /\ RecordInv(u)'
  BY <1>28 DEF TypeOK, Press
<1>29. ASSUME NEW t \in Tx, NEW b \in Bytes \cup {None}, HandleSignReady(t, b)
      PROVE  Moves(u) /\ RecordInv(u)'
  BY <1>29 DEF TypeOK, HandleSignReady
<1>30. ASSUME NEW m \in Round, HandleTSSRound(m)
      PROVE  Moves(u) /\ RecordInv(u)'
  BY <1>30 DEF TypeOK, HandleTSSRound
<1>31. ASSUME NEW p \in Path, HandleDeriveRequest(p)
      PROVE  Moves(u) /\ RecordInv(u)'
  BY <1>31 DEF TypeOK, HandleDeriveRequest
<1>32. ASSUME NEW v \in BOOLEAN, SetAutoMode(v)
      PROVE  Moves(u) /\ RecordInv(u)'
  BY <1>32 DEF TypeOK, SetAutoMode
<1>33. ASSUME WhitelistAddrs
      PROVE  Moves(u) /\ RecordInv(u)'
  BY <1>33 DEF TypeOK, WhitelistAddrs
<1>34. ASSUME LookupDecision
      PROVE  Moves(u) /\ RecordInv(u)'
  BY <1>34 DEF TypeOK, LookupDecision
<1>35. ASSUME SendDecision
      PROVE  Moves(u) /\ RecordInv(u)'
  BY <1>35 DEF TypeOK, SendDecision
<1>36. ASSUME Restart
      PROVE  Moves(u) /\ RecordInv(u)'
  BY <1>36 DEF TypeOK, Restart
<1>37. ASSUME UNCHANGED vars
      PROVE  Moves(u) /\ RecordInv(u)'
  BY <1>37 DEF TypeOK, vars
<1>38. ASSUME NEW f \in feeding, FeedMessage(f)
      PROVE  Moves(u) /\ RecordInv(u)'
  BY <1>38 DEF TypeOK, FeedMessage
<1>39. ASSUME NEW t \in Tx, AutoNotified(t)
      PROVE  Moves(u) /\ RecordInv(u)'
  BY <1>39 DEF TypeOK, AutoNotified
<1>40. ASSUME NEW t \in Tx, NotifySent(t)
      PROVE  Moves(u) /\ RecordInv(u)'
  BY <1>40 DEF TypeOK, NotifySent
<1>41. ASSUME NEW r \in handing, HandReady(r)
      PROVE  Moves(u) /\ RecordInv(u)'
  BY <1>41 DEF TypeOK, HandReady
<1> QED
  BY <1>1, <1>2, <1>3, <1>4, <1>5, <1>6, <1>7, <1>8, <1>9, <1>10, <1>11, <1>12, <1>13,
     <1>14, <1>15, <1>16, <1>17, <1>18, <1>19, <1>20, <1>21, <1>22, <1>23, <1>24, <1>25,
     <1>26, <1>27, <1>28, <1>29, <1>30, <1>31, <1>32, <1>33, <1>34, <1>35, <1>36, <1>37,
     <1>38, <1>39, <1>40, <1>41
     DEF Next, RequestStep, TelegramStep, EscalateFail, Analyzed, EscalationStep,
         SessionStep, BotStep

\* Initially no transaction is recorded and no session runs.
LEMMA RecordInit == Init => \A t \in Tx : RecordInv(t)
  BY DEF Init, RecordInv
=============================================================================

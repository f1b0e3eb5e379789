--------------------------- MODULE TransportProofs ---------------------------
(***************************************************************************)
(* Theorems about Transport: type correctness, that a request only ever    *)
(* gets its own answer, that the table of pending requests holds exactly   *)
(* the requests that wait, and that rounds reach the client in order, for  *)
(* any number of requests, connections, restarts and messages.             *)
(***************************************************************************)
EXTENDS Transport, TLAPS

\* A message belongs to the call it names, and travels on that call's
\* connection.
Fits(m, k) == m.of \in Req /\ call[m.of].conn = k /\ call[m.of].id = m.id

\* Requests and replies on every connection, and in the hands of a handler,
\* belong to a call made on that connection.
WireInv ==
    \A k \in Conn :
        /\ \A i \in 1..Len(up[k]) : up[k][i].type = "request" => Fits(up[k][i], k)
        /\ at[k].type = "request" => Fits(at[k], k)
        /\ \A i \in 1..Len(down[k]) : down[k][i].id # 0 => Fits(down[k][i], k)

\* The client only knows connections its own incarnation dialled, and is
\* never dialling while it reads.
ConnInv ==
    /\ \A k \in {cconn, reader, dial} \ {0} : owner[k] = epoch /\ link[k] # "unused"
    /\ reader # 0 => dial = 0

\* A call that was written belongs to the incarnation that dialled its
\* connection, and ids are unique within an incarnation.
CallInv ==
    /\ \A r \in Req :
          /\ call[r].pc = "new" => call[r].conn = 0 /\ call[r].answer = None
          /\ call[r].pc \in {"writing", "waiting"} => call[r].conn # 0 /\ call[r].epoch = epoch
          /\ call[r].conn # 0 =>
                /\ link[call[r].conn] # "unused"
                /\ call[r].epoch = owner[call[r].conn]
                /\ call[r].epoch <= epoch
                /\ call[r].epoch = epoch => call[r].id \in 1..seq
    /\ \A r, s \in Req : /\ call[r].conn # 0 /\ call[s].conn # 0
                         /\ call[r].epoch = call[s].epoch /\ call[r].id = call[s].id
                         => r = s

\* The reply that was taken out of the table is its call's own, and finds the
\* call's channel empty.
HandInv ==
    taken = NoReply \/ /\ taken.to \in Req /\ taken.of = taken.to
                       /\ call[taken.to].answer = None /\ call[taken.to].conn # 0

\* The table against the calls.
TableInv ==
    /\ \A p \in pending : Live(p[2]) /\ call[p[2]].id = p[1]
    /\ \A r \in Req : Live(r) => <<call[r].id, r>> \in pending
    /\ HandInv

\* Rounds under way to the client, those it received, and those sent.
OrderInv ==
    /\ \A k \in Conn : link[k] = "unused" => down[k] = <<>>
    /\ \A k \in Conn : \A i \in 1..Len(down[k]) :
          down[k][i].type = "round" => down[k][i].n <= sent.down
    /\ \A k \in Conn : \A i, j \in 1..Len(down[k]) :
          i < j /\ down[k][i].type = "round" /\ down[k][j].type = "round"
          => down[k][i].n < down[k][j].n
    /\ \A g \in 1..Len(got) : got[g] <= sent.down
    /\ \A k \in {reader, dial} \ {0} : \A i \in 1..Len(down[k]), g \in 1..Len(got) :
          down[k][i].type = "round" => got[g] < down[k][i].n
    /\ RoundsInOrder

TIndInv == WireInv /\ ConnInv /\ CallInv /\ TableInv /\ ReplyIsOwn

-----------------------------------------------------------------------------
(* The queues: what Deliver and Tail do to the messages of a connection.   *)

LEMMA AppendFacts ==
  ASSUME NEW S, NEW s \in Seq(S), NEW e \in S
  PROVE  /\ Append(s, e) \in Seq(S)
         /\ Len(Append(s, e)) = Len(s) + 1
         /\ \A i \in 1..Len(s) : Append(s, e)[i] = s[i]
         /\ Append(s, e)[Len(s) + 1] = e
  OBVIOUS

LEMMA TailFacts ==
  ASSUME NEW S, NEW s \in Seq(S), s # <<>>
  PROVE  /\ Head(s) \in S /\ Head(s) = s[1] /\ Len(s) > 0
         /\ Tail(s) \in Seq(S)
         /\ Len(Tail(s)) = Len(s) - 1
         /\ \A i \in 1..Len(Tail(s)) : i + 1 \in 1..Len(s) /\ Tail(s)[i] = s[i + 1]
  OBVIOUS

LEMMA Delivered ==
  ASSUME NEW q \in [Conn -> Seq(MessageType)], NEW k \in Conn, NEW m \in MessageType
  PROVE  /\ Deliver(q, k, m) \in [Conn -> Seq(MessageType)]
         /\ link[k] # "open" => Deliver(q, k, m) = q
         /\ \A j \in Conn : \A i \in 1..Len(Deliver(q, k, m)[j]) :
               \/ i \in 1..Len(q[j]) /\ Deliver(q, k, m)[j][i] = q[j][i]
               \/ j = k /\ i = Len(q[j]) + 1 /\ Deliver(q, k, m)[j][i] = m
<1>1. CASE link[k] = "open"
  <2> DEFINE d == [q EXCEPT ![k] = Append(q[k], m)]
  <2>1. Deliver(q, k, m) = d
    BY <1>1 DEF Deliver
  <2>2. q[k] \in Seq(MessageType)
    OBVIOUS
  <2>3. /\ Append(q[k], m) \in Seq(MessageType)
        /\ Len(Append(q[k], m)) = Len(q[k]) + 1
        /\ \A i \in 1..Len(q[k]) : Append(q[k], m)[i] = q[k][i]
        /\ Append(q[k], m)[Len(q[k]) + 1] = m
    BY <2>2, AppendFacts
  <2>4. d \in [Conn -> Seq(MessageType)] /\ d[k] = Append(q[k], m)
    BY <2>3
  <2>5. \A j \in Conn \ {k} : d[j] = q[j]
    OBVIOUS
  <2>6. ASSUME NEW j \in Conn, NEW i \in 1..Len(d[j])
        PROVE  \/ i \in 1..Len(q[j]) /\ d[j][i] = q[j][i]
               \/ j = k /\ i = Len(q[j]) + 1 /\ d[j][i] = m
    <3> HIDE DEF d
    <3>0. Len(q[k]) \in Nat
      BY <2>2
    <3>1. CASE j = k
      <4>1. i \in 1..(Len(q[k]) + 1) /\ d[j][i] = Append(q[k], m)[i]
        BY <3>1, <2>3, <2>4
      <4>2. CASE i = Len(q[k]) + 1
        BY <4>1, <4>2, <3>1, <2>3
      <4>3. CASE i \in 1..Len(q[k])
        BY <4>1, <4>3, <3>1, <2>3
      <4> QED
        BY <4>1, <4>2, <4>3, <3>0
    <3>2. CASE j # k
      BY <3>2, <2>5
    <3> QED
      BY <3>1, <3>2
  <2> QED
    BY <1>1, <2>1, <2>4, <2>6
<1>2. CASE link[k] # "open"
  BY <1>2 DEF Deliver
<1> QED
  BY <1>1, <1>2

LEMMA Taken ==
  ASSUME NEW q \in [Conn -> Seq(MessageType)], NEW k \in Conn, q[k] # <<>>,
         NEW d, d = [q EXCEPT ![k] = Tail(@)]
  PROVE  /\ d \in [Conn -> Seq(MessageType)]
         /\ Head(q[k]) \in MessageType /\ Head(q[k]) = q[k][1] /\ 1 \in 1..Len(q[k])
         /\ \A j \in Conn \ {k} : d[j] = q[j]
         /\ \A i \in 1..Len(d[k]) : i + 1 \in 1..Len(q[k]) /\ d[k][i] = q[k][i + 1]
<1>1. q[k] \in Seq(MessageType)
  OBVIOUS
<1>2. /\ Head(q[k]) \in MessageType /\ Head(q[k]) = q[k][1] /\ Len(q[k]) > 0
      /\ Tail(q[k]) \in Seq(MessageType)
      /\ Len(Tail(q[k])) = Len(q[k]) - 1
      /\ \A i \in 1..Len(Tail(q[k])) :
            i + 1 \in 1..Len(q[k]) /\ Tail(q[k])[i] = q[k][i + 1]
  BY <1>1, TailFacts
<1>3. d[k] = Tail(q[k]) /\ \A j \in Conn \ {k} : d[j] = q[j]
  OBVIOUS
<1>4. d \in [Conn -> Seq(MessageType)]
  BY <1>2
<1>5. Len(q[k]) \in Nat
  BY <1>1
<1> QED
  BY <1>2, <1>3, <1>4, <1>5

-----------------------------------------------------------------------------
(* Type correctness.                                                       *)

LEMMA MessagesTyped ==
  ASSUME TTypeOK
  PROVE  /\ NoMessage \in MessageType
         /\ \A r \in Req : Message("request", call[r].id, r, 0) \in MessageType
         /\ Message("round", seq + 1, None, sent.up + 1) \in MessageType
         /\ Message("round", 0, None, sent.down + 1) \in MessageType
         /\ Message("push", 0, None, 0) \in MessageType
         /\ \A k \in Conn : Message("reply", at[k].id, at[k].of, 0) \in MessageType
<1>1. /\ seq \in Nat /\ sent.up \in Nat /\ sent.down \in Nat
      /\ \A r \in Req : call[r].id \in Nat
      /\ \A k \in Conn : at[k].id \in Nat /\ at[k].of \in Req \cup {None}
  BY DEF TTypeOK, MessageType, CallType
<1> QED
  BY <1>1 DEF MessageType, Message, NoMessage

LEMMA CallEdits ==
  ASSUME NEW f \in [Req -> CallType], NEW r \in Req
  PROVE  /\ \A p \in {"waiting", "answered", "failed"} :
               [f EXCEPT ![r].pc = p] \in [Req -> CallType]
         /\ \A a \in Req \cup {None} : [f EXCEPT ![r].answer = a] \in [Req -> CallType]
         /\ \A c \in CallType : [f EXCEPT ![r] = c] \in [Req -> CallType]
<1>1. f[r] \in CallType
  OBVIOUS
<1>2. ASSUME NEW p \in {"waiting", "answered", "failed"}
      PROVE  [f EXCEPT ![r].pc = p] \in [Req -> CallType]
  <2>1. [f[r] EXCEPT !.pc = p] \in CallType
    BY <1>1 DEF CallType
  <2> QED
    BY <2>1
<1>3. ASSUME NEW a \in Req \cup {None}
      PROVE  [f EXCEPT ![r].answer = a] \in [Req -> CallType]
  <2>1. [f[r] EXCEPT !.answer = a] \in CallType
    BY <1>1 DEF CallType
  <2> QED
    BY <2>1
<1> QED
  BY <1>2, <1>3

LEMMA SentEdits ==
  ASSUME sent \in [up : Nat, down : Nat, push : Nat]
  PROVE  /\ [sent EXCEPT !.up = @ + 1] \in [up : Nat, down : Nat, push : Nat]
         /\ [sent EXCEPT !.down = @ + 1] \in [up : Nat, down : Nat, push : Nat]
         /\ [sent EXCEPT !.push = @ + 1] \in [up : Nat, down : Nat, push : Nat]
  OBVIOUS

LEMMA TypeInit == Init => TTypeOK
  BY BoundAssumption, NoneAssumption DEF Init, TTypeOK, MessageType, CallType, NewCall,
     NoMessage, NoReply, Message

LEMMA TypeStep == TTypeOK /\ CallInv /\ [Next]_vars => TTypeOK' 
<1> SUFFICES ASSUME TTypeOK, CallInv, [Next]_vars  PROVE TTypeOK'
  OBVIOUS
<1>1. ASSUME NEW k \in Conn, Accept(k)  PROVE TTypeOK'
  BY <1>1, MessagesTyped, BoundAssumption DEF Accept, TTypeOK, client, server, net
<1>2. CASE Connected
  BY <1>2, MessagesTyped, BoundAssumption DEF Connected, TTypeOK, client, server, net
<1>3. CASE DialFails
  BY <1>3, MessagesTyped, BoundAssumption DEF DialFails, TTypeOK, client, server, net
<1>4. ASSUME NEW k \in Conn, Break(k)  PROVE TTypeOK'
  BY <1>4, MessagesTyped, BoundAssumption DEF Break, TTypeOK, client, server, net
<1>5. ASSUME NEW r \in Req, Register(r)  PROVE TTypeOK'
  <2>1. call' \in [Req -> CallType] /\ pending' \in SUBSET (Nat \X Req)
    <3>0. call \in [Req -> CallType] /\ pending \in SUBSET (Nat \X Req) /\ seq \in Nat
      BY DEF TTypeOK
    <3>1. CASE cconn = 0
      <4>1. call' = [call EXCEPT ![r].pc = "failed"] /\ pending' = pending
        BY <1>5, <3>1 DEF Register
      <4> QED
        BY <3>0, <4>1, CallEdits
    <3>2. CASE cconn # 0
      <4>1. [pc |-> "writing", id |-> seq + 1, epoch |-> epoch, conn |-> cconn,
             answer |-> None] \in CallType
        BY DEF TTypeOK, CallType
      <4>2. call' = [call EXCEPT ![r] = [pc |-> "writing", id |-> seq + 1, epoch |-> epoch,
                                         conn |-> cconn, answer |-> None]]
        BY <1>5, <3>2 DEF Register
      <4>3. pending' = pending \cup {<<seq + 1, r>>}
        BY <1>5, <3>2 DEF Register
      <4> QED
        BY <3>0, <4>1, <4>2, <4>3, CallEdits
    <3> QED
      BY <3>1, <3>2
  <2>2. seq' \in Nat
    <3>1. seq \in Nat
      BY DEF TTypeOK
    <3> QED
      BY <1>5, <3>1 DEF Register
  <2>3. UNCHANGED <<epoch, cconn, reader, dial, taken, inCh, got, pushed, server, net, sent>>
    BY <1>5 DEF Register
  <2> QED
    BY <2>1, <2>2, <2>3 DEF TTypeOK, server, net
<1>6. ASSUME NEW r \in Req, Write(r)  PROVE TTypeOK'
  <2>1. call[r].conn \in Conn /\ Message("request", call[r].id, r, 0) \in MessageType
    BY <1>6, MessagesTyped DEF CallInv, Write, TTypeOK, CallType
  <2>2. up' \in [Conn -> Seq(MessageType)]
    BY <1>6, <2>1, Delivered DEF Write, TTypeOK
  <2>0. call \in [Req -> CallType]
    BY DEF TTypeOK
  <2>3. call' \in [Req -> CallType]
    BY <1>6, <2>0, CallEdits DEF Write
  <2> QED
    BY <1>6, <2>2, <2>3 DEF Write, TTypeOK, server
<1>7. ASSUME NEW r \in Req, WriteFails(r)  PROVE TTypeOK'
  <2>0. call \in [Req -> CallType]
    BY DEF TTypeOK
  <2>1. call' \in [Req -> CallType]
    BY <1>7, <2>0, CallEdits DEF WriteFails
  <2>2. pending' \in SUBSET (Nat \X Req)
    BY <1>7 DEF WriteFails, Unregister, TTypeOK, CallType
  <2> QED
    BY <1>7, <2>1, <2>2 DEF WriteFails, TTypeOK, server, net
<1>8. ASSUME NEW r \in Req, Return(r)  PROVE TTypeOK'
  <2>0. call \in [Req -> CallType]
    BY DEF TTypeOK
  <2>1. call' \in [Req -> CallType]
    BY <1>8, <2>0, CallEdits DEF Return
  <2> QED
    BY <1>8, <2>1 DEF Return, TTypeOK, server, net
<1>9. ASSUME NEW r \in Req, Cancel(r)  PROVE TTypeOK'
  <2>0. call \in [Req -> CallType]
    BY DEF TTypeOK
  <2>1. call' \in [Req -> CallType]
    BY <1>9, <2>0, CallEdits DEF Cancel
  <2>2. pending' \in SUBSET (Nat \X Req)
    BY <1>9 DEF Cancel, Unregister, TTypeOK, CallType
  <2> QED
    BY <1>9, <2>1, <2>2 DEF Cancel, TTypeOK, server, net
<1>10. CASE SendRound
  <2>1. up' \in [Conn -> Seq(MessageType)]
    BY <1>10, MessagesTyped, Delivered DEF SendRound, TTypeOK
  <2>0. sent \in [up : Nat, down : Nat, push : Nat]
    BY DEF TTypeOK
  <2>2. sent' \in [up : Nat, down : Nat, push : Nat]
    BY <1>10, <2>0, SentEdits DEF SendRound
  <2> QED
    <3>0. seq \in Nat
      BY DEF TTypeOK
    <3>1. /\ UNCHANGED <<epoch, cconn, reader, dial, pending, call, taken, inCh, got, pushed, server,
                        link, owner, down>>
          /\ seq' \in Nat
      BY <1>10, <3>0 DEF SendRound, client
    <3> QED
      BY <2>1, <2>2, <3>1 DEF TTypeOK, client, server
<1>11. CASE ClientRead
  <2> DEFINE m == Head(down[reader])
  <2>1. reader \in Conn /\ down' \in [Conn -> Seq(MessageType)] /\ m \in MessageType
    BY <1>11, Taken DEF ClientRead, TTypeOK
  <2>0. m.id \in Nat /\ m.n \in Nat /\ m.of \in Req \cup {None}
    BY <2>1 DEF MessageType
  <2>2. CASE ReadReply(m)
    <3>1. PICK r \in Waiting(m) : /\ pending' = pending \ {<<m.id, r>>}
                                  /\ taken' = [to |-> r, of |-> m.of]
                                  /\ UNCHANGED <<call, inCh, got, pushed>>
      BY <2>2 DEF ReadReply
    <3>2. r \in Req
      BY DEF Waiting
    <3>3. taken' \in [to : Req \cup {None}, of : Req \cup {None}]
      BY <2>0, <3>1, <3>2
    <3>4. pending' \in SUBSET (Nat \X Req)
      BY <3>1 DEF TTypeOK
    <3> HIDE DEF m
    <3> QED
      BY <1>11, <2>1, <3>1, <3>3, <3>4 DEF ClientRead, TTypeOK, server
  <2>3. CASE ReadRound(m)
    <3>1. inCh' \in 0..InCap /\ got' \in Seq(Nat)
      <4> HIDE DEF m
      <4>1. CASE inCh < InCap
        <5>1. got' = Append(got, m.n) /\ inCh' = inCh + 1
          BY <2>3, <4>1 DEF ReadRound
        <5> QED
          <6>1. got \in Seq(Nat) /\ inCh \in 0..InCap
            BY DEF TTypeOK
          <6>2. Append(got, m.n) \in Seq(Nat)
            BY <6>1, <2>0, AppendFacts
          <6> QED
            BY <5>1, <4>1, <6>1, <6>2, BoundAssumption
      <4>2. CASE ~(inCh < InCap)
        BY <2>3, <4>2 DEF ReadRound, TTypeOK
      <4> QED
        BY <4>1, <4>2
    <3> HIDE DEF m
    <3> QED
      BY <1>11, <2>1, <2>3, <3>1 DEF ClientRead, ReadRound, TTypeOK, server
  <2>4. CASE ReadPush(m)
    <3>1. pushed' \in Nat
      BY <2>4 DEF ReadPush, TTypeOK
    <3> HIDE DEF m
    <3> QED
      BY <1>11, <2>1, <2>4, <3>1 DEF ClientRead, ReadPush, TTypeOK, server
  <2> QED
    BY <1>11, <2>2, <2>3, <2>4 DEF ClientRead
<1>12. CASE ClientReadError
  BY <1>12, MessagesTyped, BoundAssumption DEF ClientReadError, TTypeOK, client, server, net
<1>13. CASE Receive
  <2>1. inCh' \in 0..InCap
    BY <1>13, BoundAssumption DEF Receive, TTypeOK
  <2> QED
    BY <1>13, <2>1 DEF Receive, TTypeOK, server, net
<1>14. ASSUME NEW k \in Conn, ServerRead(k)  PROVE TTypeOK'
  <2>1. up' \in [Conn -> Seq(MessageType)] /\ Head(up[k]) \in MessageType
    BY <1>14, Taken DEF ServerRead, TTypeOK
  <2> QED
    BY <1>14, <2>1 DEF ServerRead, TTypeOK, client
<1>15. ASSUME NEW k \in Conn, Respond(k)  PROVE TTypeOK'
  <2>0. at[k] \in MessageType /\ at[k].n \in Nat
    BY DEF TTypeOK, MessageType
  <2>1. down' \in [Conn -> Seq(MessageType)]
    <3>1. Deliver(down, k, Message("reply", at[k].id, at[k].of, 0)) \in [Conn -> Seq(MessageType)]
      BY MessagesTyped, Delivered DEF TTypeOK
    <3> QED
      BY <1>15, <3>1 DEF Respond, TTypeOK
  <2>2. fed' \in Seq(Nat)
    <3>1. fed \in Seq(Nat)
      BY DEF TTypeOK
    <3>2. Append(fed, at[k].n) \in Seq(Nat)
      BY <2>0, <3>1, AppendFacts
    <3> QED
      BY <1>15, <3>1, <3>2 DEF Respond
  <2> QED
    BY <1>15, <2>1, <2>2, MessagesTyped DEF Respond, TTypeOK, client
<1>16. ASSUME NEW k \in Conn, ServerError(k)  PROVE TTypeOK'
  BY <1>16, MessagesTyped, BoundAssumption DEF ServerError, TTypeOK, client, server, net
<1>17. CASE ServerSendRound
  <2>1. down' \in [Conn -> Seq(MessageType)]
    BY <1>17, MessagesTyped, Delivered DEF ServerSendRound, TTypeOK
  <2>0. sent \in [up : Nat, down : Nat, push : Nat]
    BY DEF TTypeOK
  <2>2. sent' \in [up : Nat, down : Nat, push : Nat]
    BY <1>17, <2>0, SentEdits DEF ServerSendRound
  <2> QED
    <3>0. seq \in Nat
      BY DEF TTypeOK
    <3>1. UNCHANGED <<client, server, link, owner, up>> /\ seq' \in Nat
      BY <1>17, <3>0 DEF ServerSendRound, client
    <3> QED
      BY <2>1, <2>2, <3>1 DEF TTypeOK, client, server
<1>18. CASE Push
  <2>1. down' \in [Conn -> Seq(MessageType)]
    BY <1>18, MessagesTyped, Delivered DEF Push, TTypeOK
  <2>0. sent \in [up : Nat, down : Nat, push : Nat]
    BY DEF TTypeOK
  <2>2. sent' \in [up : Nat, down : Nat, push : Nat]
    BY <1>18, <2>0, SentEdits DEF Push
  <2> QED
    <3>0. seq \in Nat
      BY DEF TTypeOK
    <3>1. UNCHANGED <<client, server, link, owner, up>> /\ seq' \in Nat
      BY <1>18, <3>0 DEF Push, client
    <3> QED
      BY <2>1, <2>2, <3>1 DEF TTypeOK, client, server
<1>19. CASE ClientRestart
  <2>1. call' \in [Req -> CallType]
    <3>1. \A r \in Req : call[r] \in CallType /\ [call[r] EXCEPT !.pc = "failed"] \in CallType
      BY ZenonT(60) DEF TTypeOK, CallType
    <3> QED
      BY <1>19, <3>1 DEF ClientRestart
  <2>2. link' \in [Conn -> {"unused", "open", "broken", "closed"}]
    BY <1>19 DEF ClientRestart, Broken, TTypeOK
  <2>3. inCh' \in 0..InCap
    BY <1>19, BoundAssumption DEF ClientRestart
  <2> QED
    <3>1. UNCHANGED <<got, pushed, server, owner, up, down, sent>> /\ pending' = {}
      BY <1>19 DEF ClientRestart
    <3>2. /\ epoch' \in Nat /\ seq' \in Nat /\ cconn' = 0 /\ reader' = 0 /\ dial' = 0
          /\ taken' \in [to : Req \cup {None}, of : Req \cup {None}]
      <4>1. epoch \in Nat
        BY DEF TTypeOK
      <4> QED
        BY <1>19, <4>1 DEF ClientRestart, NoReply
    <3> QED
      BY <2>1, <2>2, <2>3, <3>1, <3>2 DEF TTypeOK, server
<1>20. CASE ServerRestart
  BY <1>20, MessagesTyped, BoundAssumption DEF ServerRestart, Broken, TTypeOK, client, server, net
<1>21. CASE UNCHANGED vars
  BY <1>21, MessagesTyped, BoundAssumption DEF vars, TTypeOK, client, server, net
<1>22. CASE HandReply
  <2>1. call' \in [Req -> CallType]
    <3>1. call \in [Req -> CallType] /\ taken.of \in Req \cup {None}
      BY DEF TTypeOK
    <3>2. taken.to \in Req \/ taken.to \notin Req
      OBVIOUS
    <3>3. CASE taken.to \in Req
      BY <1>22, <3>1, <3>3, CallEdits DEF HandReply
    <3>4. CASE taken.to \notin Req
      <4>1. call' = call
        BY <1>22, <3>1, <3>4 DEF HandReply
      <4> QED
        BY <3>1, <4>1
    <3> QED
      BY <3>3, <3>4
  <2>2. taken' \in [to : Req \cup {None}, of : Req \cup {None}]
    BY <1>22 DEF HandReply, NoReply
  <2> QED
    BY <1>22, <2>1, <2>2 DEF HandReply, TTypeOK, server, net
<1> QED
  BY <1>1, <1>2, <1>3, <1>4, <1>5, <1>6, <1>7, <1>8, <1>9, <1>10, <1>11, <1>12, <1>13, <1>14,
     <1>15, <1>16, <1>17, <1>18, <1>19, <1>20, <1>21, <1>22 DEF Next

-----------------------------------------------------------------------------
(* The inductive invariant.                                                *)

LEMMA ZeroNotConn == 0 \notin Conn
  BY DEF Conn

LEMMA PcEdit ==
  ASSUME NEW f \in [Req -> CallType], NEW r \in Req, NEW p,
         NEW g, g = [f EXCEPT ![r].pc = p]
  PROVE  /\ g[r].pc = p
         /\ \A s \in Req \ {r} : g[s].pc = f[s].pc
         /\ \A s \in Req : /\ g[s].id = f[s].id /\ g[s].conn = f[s].conn
                           /\ g[s].epoch = f[s].epoch /\ g[s].answer = f[s].answer
<1>1. \A s \in Req : f[s] \in CallType
  OBVIOUS
<1>2. g[r] = [f[r] EXCEPT !.pc = p] /\ \A s \in Req \ {r} : g[s] = f[s]
  OBVIOUS
<1> QED
  BY <1>1, <1>2 DEF CallType

LEMMA AnswerEdit ==
  ASSUME NEW f \in [Req -> CallType], NEW r \in Req, NEW a,
         NEW g, g = [f EXCEPT ![r].answer = a]
  PROVE  /\ g[r].answer = a
         /\ \A s \in Req \ {r} : g[s].answer = f[s].answer
         /\ \A s \in Req : /\ g[s].id = f[s].id /\ g[s].conn = f[s].conn
                           /\ g[s].epoch = f[s].epoch /\ g[s].pc = f[s].pc
<1>1. \A s \in Req : f[s] \in CallType
  OBVIOUS
<1>2. g[r] = [f[r] EXCEPT !.answer = a] /\ \A s \in Req \ {r} : g[s] = f[s]
  OBVIOUS
<1> QED
  BY <1>1, <1>2 DEF CallType

LEMMA CoreStep ==
  TTypeOK /\ TIndInv /\ [Next]_vars => (ConnInv /\ CallInv /\ TableInv /\ ReplyIsOwn)' 
<1> SUFFICES ASSUME TTypeOK, WireInv, ConnInv, CallInv, TableInv, ReplyIsOwn, [Next]_vars
             PROVE  (ConnInv /\ CallInv /\ TableInv /\ ReplyIsOwn)'
  BY DEF TIndInv
<1>1. ASSUME NEW k \in Conn, Accept(k)  PROVE (ConnInv /\ CallInv /\ TableInv /\ ReplyIsOwn)'
  <2>1. ConnInv'
    BY <1>1, ZeroNotConn, NoneAssumption DEF Accept, TTypeOK, CallType, ConnInv
  <2>2. CallInv'
    BY <1>1, ZeroNotConn, NoneAssumption DEF Accept, TTypeOK, CallType, CallInv, ConnInv
  <2>3. TableInv'
    BY <1>1, ZeroNotConn, NoneAssumption DEF Accept, TTypeOK, CallType, TableInv, HandInv, CallInv, Live
  <2>4. ReplyIsOwn'
    BY <1>1, ZeroNotConn, NoneAssumption DEF Accept, TTypeOK, CallType, ReplyIsOwn, CallInv
  <2> QED
    BY <2>1, <2>2, <2>3, <2>4
<1>2. CASE Connected
  <2>1. ConnInv'
    BY <1>2, ZeroNotConn, NoneAssumption DEF Connected, TTypeOK, CallType, ConnInv, server, net
  <2>2. CallInv'
    BY <1>2, ZeroNotConn, NoneAssumption DEF Connected, TTypeOK, CallType, CallInv, ConnInv,
       server, net
  <2>3. TableInv'
    BY <1>2, ZeroNotConn, NoneAssumption DEF Connected, TTypeOK, CallType, TableInv, HandInv, CallInv,
       Live, server, net
  <2>4. ReplyIsOwn'
    BY <1>2, ZeroNotConn, NoneAssumption DEF Connected, TTypeOK, CallType, ReplyIsOwn, CallInv,
       server, net
  <2> QED
    BY <2>1, <2>2, <2>3, <2>4
<1>3. CASE DialFails
  <2>1. ConnInv'
    BY <1>3, ZeroNotConn, NoneAssumption DEF DialFails, TTypeOK, CallType, ConnInv, server, net
  <2>2. CallInv'
    BY <1>3, ZeroNotConn, NoneAssumption DEF DialFails, TTypeOK, CallType, CallInv, ConnInv,
       server, net
  <2>3. TableInv'
    BY <1>3, ZeroNotConn, NoneAssumption DEF DialFails, TTypeOK, CallType, TableInv, HandInv, CallInv,
       Live, server, net
  <2>4. ReplyIsOwn'
    BY <1>3, ZeroNotConn, NoneAssumption DEF DialFails, TTypeOK, CallType, ReplyIsOwn, CallInv,
       server, net
  <2> QED
    BY <2>1, <2>2, <2>3, <2>4
<1>4. ASSUME NEW k \in Conn, Break(k)  PROVE (ConnInv /\ CallInv /\ TableInv /\ ReplyIsOwn)'
  <2>1. ConnInv'
    BY <1>4, ZeroNotConn, NoneAssumption DEF Break, TTypeOK, CallType, ConnInv, client, server
  <2>2. CallInv'
    BY <1>4, ZeroNotConn, NoneAssumption DEF Break, TTypeOK, CallType, CallInv, ConnInv,
       client, server
  <2>3. TableInv'
    BY <1>4, ZeroNotConn, NoneAssumption DEF Break, TTypeOK, CallType, TableInv, HandInv, CallInv, Live,
       client, server
  <2>4. ReplyIsOwn'
    BY <1>4, ZeroNotConn, NoneAssumption DEF Break, TTypeOK, CallType, ReplyIsOwn, CallInv,
       client, server
  <2> QED
    BY <2>1, <2>2, <2>3, <2>4
<1>5. ASSUME NEW r \in Req, Register(r)  PROVE (ConnInv /\ CallInv /\ TableInv /\ ReplyIsOwn)'
  <2>0. /\ call \in [Req -> CallType] /\ pending \in SUBSET (Nat \X Req)
        /\ seq \in Nat /\ epoch \in Nat /\ cconn \in Conn \cup {0}
    BY DEF TTypeOK
  <2>1. /\ call[r].pc = "new" /\ seq' = seq + 1
        /\ UNCHANGED <<epoch, cconn, reader, dial, link, owner>>
    BY <1>5 DEF Register, net
  <2>2. call[r].conn = 0 /\ call[r].answer = None /\ ~Live(r)
    BY <2>1 DEF CallInv, Live
  <2>6. taken' = taken /\ taken.to # r
    BY <1>5, <2>2, NoneAssumption DEF Register, TableInv, HandInv, NoReply
  <2>3. ConnInv'
    BY <2>1 DEF ConnInv
  <2>4. CASE cconn = 0
    <3>1. call' = [call EXCEPT ![r].pc = "failed"] /\ pending' = pending
      BY <1>5, <2>4 DEF Register
    <3>2. /\ call'[r].pc = "failed"
          /\ \A s \in Req \ {r} : call'[s].pc = call[s].pc
          /\ \A s \in Req : /\ call'[s].id = call[s].id /\ call'[s].conn = call[s].conn
                            /\ call'[s].epoch = call[s].epoch /\ call'[s].answer = call[s].answer
      BY <2>0, <3>1, PcEdit
    <3>3. \A s \in Req : Live(s)' <=> Live(s)
      BY <2>2, <2>6, <3>2 DEF Live
    <3>4. CallInv'
      BY <2>0, <2>1, <2>2, <3>2 DEF CallInv
    <3>5. TableInv'
      BY <2>0, <2>6, <3>1, <3>2, <3>3 DEF TableInv, HandInv
    <3>6. ReplyIsOwn'
      BY <3>2 DEF ReplyIsOwn
    <3> QED
      BY <2>3, <3>4, <3>5, <3>6
  <2>5. CASE cconn # 0
    <3> DEFINE c == [pc |-> "writing", id |-> seq + 1, epoch |-> epoch, conn |-> cconn,
                     answer |-> None]
    <3>1. call' = [call EXCEPT ![r] = c] /\ pending' = pending \cup {<<seq + 1, r>>}
      BY <1>5, <2>5 DEF Register
    <3>2. call'[r] = c /\ \A s \in Req \ {r} : call'[s] = call[s]
      BY <2>0, <3>1
    <3>3. /\ call'[r].pc = "writing" /\ call'[r].id = seq + 1 /\ call'[r].epoch = epoch
          /\ call'[r].conn = cconn /\ call'[r].answer = None
      BY <3>2
    <3> HIDE DEF c
    <3>4. Live(r)' /\ \A s \in Req \ {r} : Live(s)' <=> Live(s)
      BY <2>6, <3>2, <3>3 DEF Live
    <3>5. link[cconn] # "unused" /\ owner[cconn] = epoch
      BY <2>5 DEF ConnInv
    <3>6. CallInv'
      BY <2>0, <2>1, <2>5, <3>2, <3>3, <3>5 DEF CallInv
    <3>7. TableInv'
      <4>1. HandInv'
        BY <2>6, <3>2 DEF TableInv, HandInv
      <4> QED
        BY <2>0, <2>2, <3>1, <3>2, <3>3, <3>4, <4>1 DEF TableInv
    <3>8. ReplyIsOwn'
      BY <3>2, <3>3 DEF ReplyIsOwn
    <3> QED
      BY <2>3, <3>6, <3>7, <3>8
  <2> QED
    BY <2>4, <2>5
<1>6. ASSUME NEW r \in Req, Write(r)  PROVE (ConnInv /\ CallInv /\ TableInv /\ ReplyIsOwn)'
  <2>0. call \in [Req -> CallType] /\ pending \in SUBSET (Nat \X Req)
    BY DEF TTypeOK
  <2>1. call' = [call EXCEPT ![r].pc = "waiting"]
    BY <1>6 DEF Write
  <2>2. UNCHANGED <<epoch, seq, cconn, reader, dial, link, owner>>
    BY <1>6 DEF Write
  <2>3. /\ call'[r].pc = "waiting"
        /\ \A s \in Req \ {r} : call'[s].pc = call[s].pc
        /\ \A s \in Req : /\ call'[s].id = call[s].id /\ call'[s].conn = call[s].conn
                          /\ call'[s].epoch = call[s].epoch /\ call'[s].answer = call[s].answer
    BY <2>0, <2>1, PcEdit
  <2>4. call[r].pc = "writing"
    BY <1>6 DEF Write
  <2>5. ConnInv'
    BY <2>2 DEF ConnInv
  <2>6. CallInv'
    BY <2>2, <2>3, <2>4 DEF CallInv
  <2>7. pending' = pending /\ taken' = taken /\ \A s \in Req : Live(s)' <=> Live(s)
    BY <1>6, <2>3, <2>4 DEF Write, Live
  <2>8. TableInv'
    BY <2>0, <2>3, <2>7 DEF TableInv, HandInv
  <2>9. ReplyIsOwn'
    BY <2>3 DEF ReplyIsOwn
  <2> QED
    BY <2>5, <2>6, <2>8, <2>9
<1>7. ASSUME NEW r \in Req, WriteFails(r)  PROVE (ConnInv /\ CallInv /\ TableInv /\ ReplyIsOwn)'
  <2>0. call \in [Req -> CallType] /\ pending \in SUBSET (Nat \X Req)
    BY DEF TTypeOK
  <2>1. call' = [call EXCEPT ![r].pc = "failed"]
    BY <1>7 DEF WriteFails
  <2>2. UNCHANGED <<epoch, seq, cconn, reader, dial, link, owner>>
    BY <1>7 DEF WriteFails, net
  <2>3. /\ call'[r].pc = "failed"
        /\ \A s \in Req \ {r} : call'[s].pc = call[s].pc
        /\ \A s \in Req : /\ call'[s].id = call[s].id /\ call'[s].conn = call[s].conn
                          /\ call'[s].epoch = call[s].epoch /\ call'[s].answer = call[s].answer
    BY <2>0, <2>1, PcEdit
  <2>4. call[r].pc = "writing"
    BY <1>7 DEF WriteFails
  <2>5. ConnInv'
    BY <2>2 DEF ConnInv
  <2>6. CallInv'
    BY <2>2, <2>3, <2>4 DEF CallInv
  <2>7. pending' = pending \ {<<call[r].id, r>>} /\ taken' = taken
    BY <1>7 DEF WriteFails, Unregister
  <2>8. TableInv'
    <3>1. \A q \in pending' : q \in pending /\ q[2] \in Req /\ q[2] # r
      BY <2>0, <2>7 DEF TableInv
    <3>2. \A q \in pending' : Live(q[2])' /\ call'[q[2]].id = q[1]
      BY <2>3, <2>7, <3>1 DEF TableInv, Live
    <3>3. \A s \in Req : Live(s)' => s # r /\ Live(s)
      BY <2>3, <2>7 DEF Live
    <3>4. \A s \in Req : Live(s)' => <<call'[s].id, s>> \in pending'
      BY <2>3, <2>7, <3>3 DEF TableInv
    <3>5. HandInv'
      BY <2>3, <2>7 DEF TableInv, HandInv
    <3> QED
      BY <3>2, <3>4, <3>5 DEF TableInv
  <2>9. ReplyIsOwn'
    BY <2>3 DEF ReplyIsOwn
  <2> QED
    BY <2>5, <2>6, <2>8, <2>9
<1>8. ASSUME NEW r \in Req, Return(r)  PROVE (ConnInv /\ CallInv /\ TableInv /\ ReplyIsOwn)'
  <2>0. call \in [Req -> CallType] /\ pending \in SUBSET (Nat \X Req)
    BY DEF TTypeOK
  <2>1. call' = [call EXCEPT ![r].pc = "answered"]
    BY <1>8 DEF Return
  <2>2. UNCHANGED <<epoch, seq, cconn, reader, dial, link, owner>>
    BY <1>8 DEF Return, net
  <2>3. /\ call'[r].pc = "answered"
        /\ \A s \in Req \ {r} : call'[s].pc = call[s].pc
        /\ \A s \in Req : /\ call'[s].id = call[s].id /\ call'[s].conn = call[s].conn
                          /\ call'[s].epoch = call[s].epoch /\ call'[s].answer = call[s].answer
    BY <2>0, <2>1, PcEdit
  <2>4. call[r].pc = "waiting" /\ call[r].answer # None
    BY <1>8 DEF Return
  <2>5. ConnInv'
    BY <2>2 DEF ConnInv
  <2>6. CallInv'
    BY <2>2, <2>3, <2>4 DEF CallInv
  <2>7. pending' = pending /\ taken' = taken /\ \A s \in Req : Live(s)' <=> Live(s)
    BY <1>8, <2>3, <2>4 DEF Return, Live
  <2>8. TableInv'
    BY <2>0, <2>3, <2>7 DEF TableInv, HandInv
  <2>9. ReplyIsOwn'
    BY <2>3 DEF ReplyIsOwn
  <2> QED
    BY <2>5, <2>6, <2>8, <2>9
<1>9. ASSUME NEW r \in Req, Cancel(r)  PROVE (ConnInv /\ CallInv /\ TableInv /\ ReplyIsOwn)'
  <2>0. call \in [Req -> CallType] /\ pending \in SUBSET (Nat \X Req)
    BY DEF TTypeOK
  <2>1. call' = [call EXCEPT ![r].pc = "failed"]
    BY <1>9 DEF Cancel
  <2>2. UNCHANGED <<epoch, seq, cconn, reader, dial, link, owner>>
    BY <1>9 DEF Cancel, net
  <2>3. /\ call'[r].pc = "failed"
        /\ \A s \in Req \ {r} : call'[s].pc = call[s].pc
        /\ \A s \in Req : /\ call'[s].id = call[s].id /\ call'[s].conn = call[s].conn
                          /\ call'[s].epoch = call[s].epoch /\ call'[s].answer = call[s].answer
    BY <2>0, <2>1, PcEdit
  <2>4. call[r].pc = "waiting"
    BY <1>9 DEF Cancel
  <2>5. ConnInv'
    BY <2>2 DEF ConnInv
  <2>6. CallInv'
    BY <2>2, <2>3, <2>4 DEF CallInv
  <2>7. pending' = pending \ {<<call[r].id, r>>} /\ taken' = taken
    BY <1>9 DEF Cancel, Unregister
  <2>8. TableInv'
    <3>1. \A q \in pending' : q \in pending /\ q[2] \in Req /\ q[2] # r
      BY <2>0, <2>7 DEF TableInv
    <3>2. \A q \in pending' : Live(q[2])' /\ call'[q[2]].id = q[1]
      BY <2>3, <2>7, <3>1 DEF TableInv, Live
    <3>3. \A s \in Req : Live(s)' => s # r /\ Live(s)
      BY <2>3, <2>7 DEF Live
    <3>4. \A s \in Req : Live(s)' => <<call'[s].id, s>> \in pending'
      BY <2>3, <2>7, <3>3 DEF TableInv
    <3>5. HandInv'
      BY <2>3, <2>7 DEF TableInv, HandInv
    <3> QED
      BY <3>2, <3>4, <3>5 DEF TableInv
  <2>9. ReplyIsOwn'
    BY <2>3 DEF ReplyIsOwn
  <2> QED
    BY <2>5, <2>6, <2>8, <2>9
<1>10. CASE SendRound
  <2>1. ConnInv'
    BY <1>10, ZeroNotConn, NoneAssumption DEF SendRound, TTypeOK, CallType, ConnInv, server
  <2>2. CallInv'
    BY <1>10, ZeroNotConn, NoneAssumption DEF SendRound, TTypeOK, CallType, CallInv, ConnInv,
       server
  <2>3. TableInv'
    BY <1>10, ZeroNotConn, NoneAssumption DEF SendRound, TTypeOK, CallType, TableInv, HandInv, CallInv,
       Live, server
  <2>4. ReplyIsOwn'
    BY <1>10, ZeroNotConn, NoneAssumption DEF SendRound, TTypeOK, CallType, ReplyIsOwn,
       CallInv, server
  <2> QED
    BY <2>1, <2>2, <2>3, <2>4
<1>11. CASE ClientRead
  <2> DEFINE m == Head(down[reader])
  <2>1. /\ reader \in Conn /\ m \in MessageType
        /\ m = down[reader][1] /\ 1 \in 1..Len(down[reader])
    BY <1>11, Taken DEF ClientRead, TTypeOK
  <2>2. UNCHANGED <<epoch, seq, cconn, reader, dial, link, owner>>
    BY <1>11 DEF ClientRead
  <2>3. CASE ReadReply(m)
    <3>1. PICK r \in Waiting(m) : /\ pending' = pending \ {<<m.id, r>>}
                                  /\ taken' = [to |-> r, of |-> m.of]
                                  /\ call' = call
      BY <2>3 DEF ReadReply
    <3>2. r \in Req /\ <<m.id, r>> \in pending
      BY DEF Waiting
    <3>3. Live(r) /\ call[r].id = m.id
      BY <3>2 DEF TableInv
    <3>4. call[r].conn # 0 /\ call[r].epoch = epoch /\ m.id # 0
      BY SMTT(30), <3>2, <3>3 DEF CallInv, Live, TTypeOK, CallType
    <3>5. m.of \in Req /\ call[m.of].conn = reader /\ call[m.of].id = m.id
      BY <2>1, <3>4 DEF WireInv, Fits
    <3>6. call[m.of].epoch = epoch
      BY <2>1, <3>5, ZeroNotConn DEF CallInv, ConnInv
    <3>7. m.of = r
      <4> HIDE DEF m
      <4> QED
        BY <2>1, <3>2, <3>3, <3>4, <3>5, <3>6, ZeroNotConn DEF CallInv
    <3>8. taken'.to = r /\ taken'.of = r
      BY <3>1, <3>7
    <3>9. pending' = pending \ {<<call[r].id, r>>}
      BY <3>1, <3>3
    <3>10. \A q \in Req : taken.to # q
      BY <1>11, NoneAssumption DEF ClientRead, NoReply
    <3> HIDE DEF m
    <3>11. ConnInv' /\ CallInv' /\ ReplyIsOwn'
      BY <2>2, <3>1 DEF ConnInv, CallInv, ReplyIsOwn
    <3>12. TableInv'
      <4>1. \A p \in pending' : p \in pending /\ p # <<call[r].id, r>> /\ p[2] \in Req
        BY <3>9 DEF TTypeOK
      <4>2. \A p \in pending' : p[2] # r
        BY <4>1, <3>9 DEF TableInv, TTypeOK
      <4>3. \A p \in pending' : Live(p[2])' /\ call'[p[2]].id = p[1]
        BY <3>1, <3>8, <4>1, <4>2 DEF TableInv, Live
      <4>4. \A q \in Req : Live(q)' => q # r /\ Live(q)
        BY <3>1, <3>8, <3>10 DEF Live
      <4>5. \A q \in Req : Live(q)' => <<call'[q].id, q>> \in pending'
        BY <3>1, <3>9, <4>4 DEF TableInv
      <4>6. HandInv'
        BY <3>1, <3>2, <3>3, <3>4, <3>8 DEF HandInv, Live
      <4> QED
        BY <4>3, <4>5, <4>6 DEF TableInv
    <3> QED
      BY <3>11, <3>12
  <2>4. CASE ReadRound(m) \/ ReadPush(m)
    <3>1. UNCHANGED <<pending, call, taken>>
      BY <2>4 DEF ReadRound, ReadPush
    <3> QED
      BY <2>2, <3>1 DEF ConnInv, CallInv, TableInv, HandInv, Live, ReplyIsOwn
  <2> QED
    BY <1>11, <2>3, <2>4 DEF ClientRead
<1>12. CASE ClientReadError
  <2>1. ConnInv'
    BY <1>12, ZeroNotConn, NoneAssumption DEF ClientReadError, TTypeOK, CallType, ConnInv,
       server, net
  <2>2. CallInv'
    BY <1>12, ZeroNotConn, NoneAssumption DEF ClientReadError, TTypeOK, CallType, CallInv,
       ConnInv, server, net
  <2>3. TableInv'
    BY <1>12, ZeroNotConn, NoneAssumption DEF ClientReadError, TTypeOK, CallType, TableInv,
       HandInv, CallInv, Live, server, net
  <2>4. ReplyIsOwn'
    BY <1>12, ZeroNotConn, NoneAssumption DEF ClientReadError, TTypeOK, CallType, ReplyIsOwn,
       CallInv, server, net
  <2> QED
    BY <2>1, <2>2, <2>3, <2>4
<1>13. CASE Receive
  <2>1. ConnInv'
    BY <1>13, ZeroNotConn, NoneAssumption DEF Receive, TTypeOK, CallType, ConnInv, server, net
  <2>2. CallInv'
    BY <1>13, ZeroNotConn, NoneAssumption DEF Receive, TTypeOK, CallType, CallInv, ConnInv,
       server, net
  <2>3. TableInv'
    BY <1>13, ZeroNotConn, NoneAssumption DEF Receive, TTypeOK, CallType, TableInv, HandInv, CallInv,
       Live, server, net
  <2>4. ReplyIsOwn'
    BY <1>13, ZeroNotConn, NoneAssumption DEF Receive, TTypeOK, CallType, ReplyIsOwn, CallInv,
       server, net
  <2> QED
    BY <2>1, <2>2, <2>3, <2>4
<1>14. ASSUME NEW k \in Conn, ServerRead(k)  PROVE (ConnInv /\ CallInv /\ TableInv /\ ReplyIsOwn)'
  <2>1. ConnInv'
    BY <1>14, ZeroNotConn, NoneAssumption DEF ServerRead, TTypeOK, CallType, ConnInv, client
  <2>2. CallInv'
    BY <1>14, ZeroNotConn, NoneAssumption DEF ServerRead, TTypeOK, CallType, CallInv, ConnInv,
       client
  <2>3. TableInv'
    BY <1>14, ZeroNotConn, NoneAssumption DEF ServerRead, TTypeOK, CallType, TableInv, HandInv, CallInv,
       Live, client
  <2>4. ReplyIsOwn'
    BY <1>14, ZeroNotConn, NoneAssumption DEF ServerRead, TTypeOK, CallType, ReplyIsOwn,
       CallInv, client
  <2> QED
    BY <2>1, <2>2, <2>3, <2>4
<1>15. ASSUME NEW k \in Conn, Respond(k)  PROVE (ConnInv /\ CallInv /\ TableInv /\ ReplyIsOwn)'
  <2>1. ConnInv'
    BY <1>15, ZeroNotConn, NoneAssumption DEF Respond, TTypeOK, CallType, ConnInv, client
  <2>2. CallInv'
    BY <1>15, ZeroNotConn, NoneAssumption DEF Respond, TTypeOK, CallType, CallInv, ConnInv, client
  <2>3. TableInv'
    BY <1>15, ZeroNotConn, NoneAssumption DEF Respond, TTypeOK, CallType, TableInv, HandInv, CallInv,
       Live, client
  <2>4. ReplyIsOwn'
    BY <1>15, ZeroNotConn, NoneAssumption DEF Respond, TTypeOK, CallType, ReplyIsOwn, CallInv,
       client
  <2> QED
    BY <2>1, <2>2, <2>3, <2>4
<1>16. ASSUME NEW k \in Conn, ServerError(k)  PROVE (ConnInv /\ CallInv /\ TableInv /\ ReplyIsOwn)'
  <2>1. ConnInv'
    BY <1>16, ZeroNotConn, NoneAssumption DEF ServerError, TTypeOK, CallType, ConnInv, client, net
  <2>2. CallInv'
    BY <1>16, ZeroNotConn, NoneAssumption DEF ServerError, TTypeOK, CallType, CallInv, ConnInv,
       client, net
  <2>3. TableInv'
    BY <1>16, ZeroNotConn, NoneAssumption DEF ServerError, TTypeOK, CallType, TableInv,
       HandInv, CallInv, Live, client, net
  <2>4. ReplyIsOwn'
    BY <1>16, ZeroNotConn, NoneAssumption DEF ServerError, TTypeOK, CallType, ReplyIsOwn,
       CallInv, client, net
  <2> QED
    BY <2>1, <2>2, <2>3, <2>4
<1>17. CASE ServerSendRound
  <2>1. ConnInv'
    BY <1>17, ZeroNotConn, NoneAssumption DEF ServerSendRound, TTypeOK, CallType, ConnInv,
       client, server
  <2>2. CallInv'
    BY <1>17, ZeroNotConn, NoneAssumption DEF ServerSendRound, TTypeOK, CallType, CallInv,
       ConnInv, client, server
  <2>3. TableInv'
    BY <1>17, ZeroNotConn, NoneAssumption DEF ServerSendRound, TTypeOK, CallType, TableInv,
       HandInv, CallInv, Live, client, server
  <2>4. ReplyIsOwn'
    BY <1>17, ZeroNotConn, NoneAssumption DEF ServerSendRound, TTypeOK, CallType, ReplyIsOwn,
       CallInv, client, server
  <2> QED
    BY <2>1, <2>2, <2>3, <2>4
<1>18. CASE Push
  <2>1. ConnInv'
    BY <1>18, ZeroNotConn, NoneAssumption DEF Push, TTypeOK, CallType, ConnInv, client, server
  <2>2. CallInv'
    BY <1>18, ZeroNotConn, NoneAssumption DEF Push, TTypeOK, CallType, CallInv, ConnInv,
       client, server
  <2>3. TableInv'
    BY <1>18, ZeroNotConn, NoneAssumption DEF Push, TTypeOK, CallType, TableInv, HandInv, CallInv, Live,
       client, server
  <2>4. ReplyIsOwn'
    BY <1>18, ZeroNotConn, NoneAssumption DEF Push, TTypeOK, CallType, ReplyIsOwn, CallInv,
       client, server
  <2> QED
    BY <2>1, <2>2, <2>3, <2>4
<1>19. CASE ClientRestart
  <2>0. call \in [Req -> CallType] /\ epoch \in Nat /\ seq \in Nat
    BY DEF TTypeOK
  <2>1. /\ epoch' = epoch + 1 /\ cconn' = 0 /\ reader' = 0 /\ dial' = 0 /\ pending' = {}
        /\ owner' = owner /\ link' = Broken({epoch})
    BY <1>19 DEF ClientRestart
  <2>2. \A r \in Req :
           /\ call'[r].id = call[r].id /\ call'[r].conn = call[r].conn
           /\ call'[r].epoch = call[r].epoch /\ call'[r].answer = call[r].answer
           /\ call'[r].pc \notin {"writing", "waiting"}
           /\ call'[r].pc = "new" => call[r].pc = "new"
    <3>1. \A r \in Req : call[r] \in CallType
      BY <2>0
    <3>2. \A r \in Req : call'[r] = IF call[r].pc \in {"writing", "waiting"}
                                    THEN [call[r] EXCEPT !.pc = "failed"] ELSE call[r]
      BY <1>19 DEF ClientRestart
    <3> QED
      BY <3>1, <3>2 DEF CallType
  <2>3. \A k \in Conn : link'[k] = "unused" => link[k] = "unused"
    BY <2>1 DEF Broken
  <2>4. ConnInv'
    BY <2>1 DEF ConnInv
  <2>5. CallInv'
    <3>1. \A r \in Req : call[r].conn \in Conn \cup {0} /\ call[r].epoch \in Nat
      BY <2>0 DEF CallType
    <3>2. \A r \in Req : call[r].conn # 0 => call[r].epoch <= epoch' /\ call[r].epoch # epoch'
      BY <2>0, <2>1, <3>1 DEF CallInv
    <3>3. ASSUME NEW r \in Req
          PROVE  /\ call'[r].pc = "new" => call'[r].conn = 0 /\ call'[r].answer = None
                 /\ call'[r].pc \notin {"writing", "waiting"}
                 /\ call'[r].conn # 0 =>
                       /\ link'[call'[r].conn] # "unused"
                       /\ call'[r].epoch = owner'[call'[r].conn]
                       /\ call'[r].epoch <= epoch'
                       /\ call'[r].epoch # epoch'
      <4>1. call[r].conn # 0 => /\ link[call[r].conn] # "unused" /\ call[r].conn \in Conn
                                /\ call[r].epoch = owner[call[r].conn]
        BY <3>1 DEF CallInv
      <4>2. call[r].pc = "new" => call[r].conn = 0 /\ call[r].answer = None
        BY DEF CallInv
      <4>3. owner' = owner
        BY <2>1
      <4>4. call[r].conn # 0 => link'[call[r].conn] # "unused"
        BY <2>3, <4>1
      <4> QED
        BY <2>2, <3>2, <4>1, <4>2, <4>3, <4>4
    <3>4. \A r, s \in Req : /\ call'[r].conn # 0 /\ call'[s].conn # 0
                            /\ call'[r].epoch = call'[s].epoch /\ call'[r].id = call'[s].id
                            => r = s
      BY <2>2 DEF CallInv
    <3> QED
      BY <3>3, <3>4 DEF CallInv
  <2>6. TableInv'
    BY <1>19, <2>1, <2>2 DEF TableInv, HandInv, Live, ClientRestart
  <2>7. ReplyIsOwn'
    BY <2>2 DEF ReplyIsOwn
  <2> QED
    BY <2>4, <2>5, <2>6, <2>7
<1>20. CASE ServerRestart
  <2>1. ConnInv'
    BY <1>20, ZeroNotConn, NoneAssumption DEF ServerRestart, TTypeOK, CallType, ConnInv,
       client, Broken
  <2>2. CallInv'
    BY <1>20, ZeroNotConn, NoneAssumption DEF ServerRestart, TTypeOK, CallType, CallInv,
       ConnInv, client, Broken
  <2>3. TableInv'
    BY <1>20, ZeroNotConn, NoneAssumption DEF ServerRestart, TTypeOK, CallType, TableInv,
       HandInv, CallInv, Live, client, Broken
  <2>4. ReplyIsOwn'
    BY <1>20, ZeroNotConn, NoneAssumption DEF ServerRestart, TTypeOK, CallType, ReplyIsOwn,
       CallInv, client, Broken
  <2> QED
    BY <2>1, <2>2, <2>3, <2>4
<1>21. CASE UNCHANGED vars
  <2>1. ConnInv'
    BY <1>21, ZeroNotConn, NoneAssumption DEF vars, TTypeOK, CallType, ConnInv, client, server,
       net
  <2>2. CallInv'
    BY <1>21, ZeroNotConn, NoneAssumption DEF vars, TTypeOK, CallType, CallInv, ConnInv,
       client, server, net
  <2>3. TableInv'
    BY <1>21, ZeroNotConn, NoneAssumption DEF vars, TTypeOK, CallType, TableInv, HandInv, CallInv, Live,
       client, server, net
  <2>4. ReplyIsOwn'
    BY <1>21, ZeroNotConn, NoneAssumption DEF vars, TTypeOK, CallType, ReplyIsOwn, CallInv,
       client, server, net
  <2> QED
    BY <2>1, <2>2, <2>3, <2>4
<1>22. CASE HandReply
  <2>0. call \in [Req -> CallType]
    BY DEF TTypeOK
  <2>1. /\ taken # NoReply /\ taken' = NoReply
        /\ UNCHANGED <<epoch, seq, cconn, reader, dial, pending, link, owner>>
    BY <1>22 DEF HandReply, net
  <2>2. PICK r \in Req : taken.to = r /\ taken.of = r /\ call[r].conn # 0
    BY <2>1 DEF TableInv, HandInv
  <2>3. call' = [call EXCEPT ![r].answer = r]
    BY <1>22, <2>2 DEF HandReply
  <2>4. /\ call'[r].answer = r
        /\ \A q \in Req \ {r} : call'[q].answer = call[q].answer
        /\ \A q \in Req : /\ call'[q].id = call[q].id /\ call'[q].conn = call[q].conn
                          /\ call'[q].epoch = call[q].epoch /\ call'[q].pc = call[q].pc
    BY <2>0, <2>3, AnswerEdit
  <2>5. ConnInv'
    BY <2>1 DEF ConnInv
  <2>6. CallInv'
    BY <2>1, <2>2, <2>4 DEF CallInv
  <2>7. \A q \in Req : Live(q)' <=> Live(q)
    BY <2>1, <2>2, <2>4, NoneAssumption DEF Live, NoReply
  <2>8. TableInv'
    <3>1. \A p \in pending : p[2] \in Req
      BY DEF TTypeOK
    <3> QED
      BY <2>1, <2>4, <2>7, <3>1 DEF TableInv, HandInv
  <2>9. ReplyIsOwn'
    BY <2>4 DEF ReplyIsOwn
  <2> QED
    BY <2>5, <2>6, <2>8, <2>9
<1> QED
  BY <1>1, <1>2, <1>3, <1>4, <1>5, <1>6, <1>7, <1>8, <1>9, <1>10, <1>11, <1>12, <1>13, <1>14,
     <1>15, <1>16, <1>17, <1>18, <1>19, <1>20, <1>21, <1>22 DEF Next

\* A call that was written keeps its connection and its id.
LEMMA Kept ==
  ASSUME TTypeOK, CallInv, [Next]_vars
  PROVE  \A r \in Req : call[r].conn # 0 =>
             call'[r].conn = call[r].conn /\ call'[r].id = call[r].id
<1>0. call \in [Req -> CallType]
  BY DEF TTypeOK
<1>1. CASE UNCHANGED call
  BY <1>1
<1>2. ASSUME NEW r \in Req, NEW p, call' = [call EXCEPT ![r].pc = p]
      PROVE  \A s \in Req : call'[s].conn = call[s].conn /\ call'[s].id = call[s].id
  BY <1>0, <1>2, PcEdit
<1>3. ASSUME NEW r \in Req, Register(r)
      PROVE  \A s \in Req : call[s].conn # 0 =>
                 call'[s].conn = call[s].conn /\ call'[s].id = call[s].id
  <2>1. call[r].conn = 0
    BY <1>3 DEF Register, CallInv
  <2>2. \A s \in Req \ {r} : call'[s] = call[s]
    BY <1>0, <1>3 DEF Register
  <2> QED
    BY <2>1, <2>2
<1>4. CASE ClientRead
  BY <1>1, <1>4 DEF ClientRead, ReadReply, ReadRound, ReadPush
<1>5. CASE ClientRestart
  <2>1. \A r \in Req : /\ call[r] \in CallType
                       /\ \/ call'[r] = call[r]
                          \/ call'[r] = [call[r] EXCEPT !.pc = "failed"]
    BY <1>0, <1>5 DEF ClientRestart
  <2> QED
    BY <2>1 DEF CallType
<1>6. ASSUME NEW r \in Req, Write(r) \/ WriteFails(r) \/ Return(r) \/ Cancel(r)
      PROVE  \A s \in Req : call'[s].conn = call[s].conn /\ call'[s].id = call[s].id
  BY <1>2, <1>6 DEF Write, WriteFails, Return, Cancel
<1>7. CASE \/ Connected \/ DialFails \/ SendRound \/ ClientReadError \/ Receive
           \/ ServerSendRound \/ Push \/ ServerRestart \/ UNCHANGED vars
  BY <1>1, <1>7 DEF Connected, DialFails, SendRound, ClientReadError, Receive,
       ServerSendRound, Push, ServerRestart, vars, client
<1>8. ASSUME NEW k \in Conn,
             Accept(k) \/ Break(k) \/ ServerRead(k) \/ Respond(k) \/ ServerError(k)
      PROVE  UNCHANGED call
  BY <1>8 DEF Accept, Break, ServerRead, Respond, ServerError, client
<1>9. CASE HandReply
  <2>1. CASE taken.to \in Req
    BY <1>0, <1>9, <2>1, AnswerEdit DEF HandReply
  <2>2. CASE taken.to \notin Req
    <3>1. call' = call
      BY <1>0, <1>9, <2>2 DEF HandReply
    <3> QED
      BY <3>1
  <2> QED
    BY <2>1, <2>2
<1> QED
  BY <1>1, <1>3, <1>4, <1>5, <1>6, <1>7, <1>8, <1>9 DEF Next

LEMMA WireStep == TTypeOK /\ CallInv /\ WireInv /\ [Next]_vars => WireInv' 
<1> SUFFICES ASSUME TTypeOK, CallInv, WireInv, [Next]_vars  PROVE WireInv'
  OBVIOUS
<1>0. \A m : \A k \in Conn : Fits(m, k) => Fits(m, k)'
  BY Kept, ZeroNotConn DEF Fits
<1>1. ASSUME NEW k \in Conn, Accept(k)  PROVE WireInv'
  <2>1. UNCHANGED <<up, at, down>>
    BY <1>1 DEF Accept
  <2> QED
    BY <2>1, <1>0 DEF WireInv
<1>2. CASE Connected
  <2>1. UNCHANGED <<up, at, down>>
    BY <1>2 DEF Connected, server, net
  <2> QED
    BY <2>1, <1>0 DEF WireInv
<1>3. CASE DialFails
  <2>1. UNCHANGED <<up, at, down>>
    BY <1>3 DEF DialFails, server, net
  <2> QED
    BY <2>1, <1>0 DEF WireInv
<1>4. ASSUME NEW k \in Conn, Break(k)  PROVE WireInv'
  <2>1. UNCHANGED <<up, at, down>>
    BY <1>4 DEF Break, server
  <2> QED
    BY <2>1, <1>0 DEF WireInv
<1>5. ASSUME NEW r \in Req, Register(r)  PROVE WireInv'
  <2>1. UNCHANGED <<up, at, down>>
    BY <1>5 DEF Register, server, net
  <2> QED
    BY <2>1, <1>0 DEF WireInv
<1>6. ASSUME NEW r \in Req, Write(r)  PROVE WireInv'
  <2> DEFINE m == Message("request", call[r].id, r, 0)
  <2>1. UNCHANGED <<at, down>> /\ up' = Deliver(up, call[r].conn, m)
    BY <1>6 DEF Write, server
  <2>2. call[r].conn \in Conn /\ m \in MessageType
    BY <1>6, MessagesTyped DEF Write, CallInv, TTypeOK, CallType
  <2>3. Fits(m, call[r].conn)
    BY <2>2 DEF Fits, Message
  <2> HIDE DEF m
  <2>4. \A j \in Conn : \A i \in 1..Len(up'[j]) :
           \/ i \in 1..Len(up[j]) /\ up'[j][i] = up[j][i]
           \/ j = call[r].conn /\ up'[j][i] = m
    <3>1. up \in [Conn -> Seq(MessageType)]
      BY DEF TTypeOK
    <3>2. \A j \in Conn : \A i \in 1..Len(Deliver(up, call[r].conn, m)[j]) :
             \/ i \in 1..Len(up[j]) /\ Deliver(up, call[r].conn, m)[j][i] = up[j][i]
             \/ j = call[r].conn /\ i = Len(up[j]) + 1 /\ Deliver(up, call[r].conn, m)[j][i] = m
      BY <2>2, <3>1, <2>1, Delivered
    <3> QED
      BY <2>1, <3>2
  <2>5. \A j \in Conn : \A i \in 1..Len(up'[j]) :
           up'[j][i].type = "request" => Fits(up'[j][i], j)
    BY <2>3, <2>4 DEF WireInv
  <2> QED
    BY <2>1, <2>5, <1>0 DEF WireInv
<1>7. ASSUME NEW r \in Req, WriteFails(r)  PROVE WireInv'
  <2>1. UNCHANGED <<up, at, down>>
    BY <1>7 DEF WriteFails, server, net
  <2> QED
    BY <2>1, <1>0 DEF WireInv
<1>8. ASSUME NEW r \in Req, Return(r)  PROVE WireInv'
  <2>1. UNCHANGED <<up, at, down>>
    BY <1>8 DEF Return, server, net
  <2> QED
    BY <2>1, <1>0 DEF WireInv
<1>9. ASSUME NEW r \in Req, Cancel(r)  PROVE WireInv'
  <2>1. UNCHANGED <<up, at, down>>
    BY <1>9 DEF Cancel, server, net
  <2> QED
    BY <2>1, <1>0 DEF WireInv
<1>10. CASE SendRound
  <2> DEFINE m == Message("round", seq + 1, None, sent.up + 1)
  <2>1. UNCHANGED <<at, down>> /\ up' = Deliver(up, cconn, m) /\ cconn \in Conn
    BY <1>10 DEF SendRound, server, TTypeOK
  <2>2. m \in MessageType /\ m.type # "request"
    BY MessagesTyped DEF Message
  <2> HIDE DEF m
  <2>3. \A j \in Conn : \A i \in 1..Len(up'[j]) :
           \/ i \in 1..Len(up[j]) /\ up'[j][i] = up[j][i]
           \/ up'[j][i] = m
    <3>1. up \in [Conn -> Seq(MessageType)]
      BY DEF TTypeOK
    <3>2. \A j \in Conn : \A i \in 1..Len(Deliver(up, cconn, m)[j]) :
             \/ i \in 1..Len(up[j]) /\ Deliver(up, cconn, m)[j][i] = up[j][i]
             \/ j = cconn /\ i = Len(up[j]) + 1 /\ Deliver(up, cconn, m)[j][i] = m
      BY <2>2, <3>1, <2>1, Delivered
    <3> QED
      BY <2>1, <3>2
  <2>4. \A j \in Conn : \A i \in 1..Len(up'[j]) :
           up'[j][i].type = "request" => Fits(up'[j][i], j)
    BY <2>2, <2>3 DEF WireInv
  <2> QED
    BY <2>1, <2>4, <1>0 DEF WireInv
<1>11. CASE ClientRead
  <2>1. /\ reader \in Conn /\ UNCHANGED <<up, at>> /\ down[reader] # <<>>
        /\ down' = [down EXCEPT ![reader] = Tail(@)]
    BY <1>11 DEF ClientRead, TTypeOK, server
  <2>2. /\ \A j \in Conn \ {reader} : down'[j] = down[j]
        /\ \A i \in 1..Len(down'[reader]) :
              i + 1 \in 1..Len(down[reader]) /\ down'[reader][i] = down[reader][i + 1]
    BY <2>1, Taken DEF TTypeOK
  <2>3. \A j \in Conn : \A i \in 1..Len(down'[j]) : down'[j][i].id # 0 => Fits(down'[j][i], j)
    BY <2>2 DEF WireInv
  <2> QED
    BY <2>1, <2>3, <1>0 DEF WireInv
<1>12. CASE ClientReadError
  <2>1. UNCHANGED <<up, at, down>>
    BY <1>12 DEF ClientReadError, server, net
  <2> QED
    BY <2>1, <1>0 DEF WireInv
<1>13. CASE Receive
  <2>1. UNCHANGED <<up, at, down>>
    BY <1>13 DEF Receive, server, net
  <2> QED
    BY <2>1, <1>0 DEF WireInv
<1>14. ASSUME NEW k \in Conn, ServerRead(k)  PROVE WireInv'
  <2>1. /\ UNCHANGED down /\ up[k] # <<>>
        /\ at' = [at EXCEPT ![k] = Head(up[k])] /\ up' = [up EXCEPT ![k] = Tail(@)]
    BY <1>14 DEF ServerRead
  <2>2. /\ Head(up[k]) = up[k][1] /\ 1 \in 1..Len(up[k])
        /\ \A j \in Conn \ {k} : up'[j] = up[j]
        /\ \A i \in 1..Len(up'[k]) : i + 1 \in 1..Len(up[k]) /\ up'[k][i] = up[k][i + 1]
    <3>1. up \in [Conn -> Seq(MessageType)]
      BY DEF TTypeOK
    <3> QED
      BY <2>1, <3>1, Taken
  <2>3. \A j \in Conn : at'[j] = at[j] \/ (j = k /\ at'[j] = up[k][1])
    <3>1. at \in [Conn -> MessageType]
      BY DEF TTypeOK
    <3>2. at' = [at EXCEPT ![k] = up[k][1]]
      BY <2>1, <2>2, Zenon
    <3>3. at'[k] = up[k][1] /\ \A j \in Conn \ {k} : at'[j] = at[j]
      BY <3>1, <3>2, Zenon
    <3> QED
      BY <3>3
  <2>4. \A j \in Conn : \A i \in 1..Len(up'[j]) :
           up'[j][i].type = "request" => Fits(up'[j][i], j)
    BY <2>2 DEF WireInv
  <2>5. \A j \in Conn : at'[j].type = "request" => Fits(at'[j], j)
    BY <2>2, <2>3 DEF WireInv
  <2> QED
    BY <2>1, <2>4, <2>5, <1>0 DEF WireInv
<1>15. ASSUME NEW k \in Conn, Respond(k)  PROVE WireInv'
  <2> DEFINE m == Message("reply", at[k].id, at[k].of, 0)
  <2>1. UNCHANGED up /\ at' = [at EXCEPT ![k] = NoMessage]
    BY <1>15 DEF Respond
  <2>2. \A j \in Conn : at'[j] = at[j] \/ at'[j] = NoMessage
    BY <2>1 DEF TTypeOK
  <2>3. \A j \in Conn : at'[j].type = "request" => Fits(at'[j], j)
    BY <2>2 DEF WireInv, NoMessage, Message
  <2>4. \A j \in Conn : \A i \in 1..Len(down'[j]) : down'[j][i].id # 0 => Fits(down'[j][i], j)
    <3>1. CASE UNCHANGED down
      BY <3>1 DEF WireInv
    <3>2. CASE at[k].type = "request" /\ down' = Deliver(down, k, m)
      <4>1. m \in MessageType
        BY MessagesTyped
      <4>2. Fits(m, k)
        BY <3>2 DEF WireInv, Fits, Message
      <4> HIDE DEF m
      <4>3. \A j \in Conn : \A i \in 1..Len(down'[j]) :
               \/ i \in 1..Len(down[j]) /\ down'[j][i] = down[j][i]
               \/ j = k /\ down'[j][i] = m
        <5>1. down \in [Conn -> Seq(MessageType)]
          BY DEF TTypeOK
        <5>2. \A j \in Conn : \A i \in 1..Len(Deliver(down, k, m)[j]) :
                 \/ i \in 1..Len(down[j]) /\ Deliver(down, k, m)[j][i] = down[j][i]
                 \/ j = k /\ i = Len(down[j]) + 1 /\ Deliver(down, k, m)[j][i] = m
          BY <4>1, <5>1, Delivered
        <5> QED
          BY <3>2, <5>2
      <4> QED
        BY <4>2, <4>3 DEF WireInv
    <3> QED
      BY <1>15, <3>1, <3>2 DEF Respond
  <2> QED
    BY <2>1, <2>3, <2>4, <1>0 DEF WireInv
<1>16. ASSUME NEW k \in Conn, ServerError(k)  PROVE WireInv'
  <2>1. UNCHANGED <<up, at, down>>
    BY <1>16 DEF ServerError, net
  <2> QED
    BY <2>1, <1>0 DEF WireInv
<1>17. CASE ServerSendRound
  <2> DEFINE m == Message("round", 0, None, sent.down + 1)
  <2>1. UNCHANGED <<at, up>> /\ down' = Deliver(down, sconn, m) /\ sconn \in Conn
    BY <1>17 DEF ServerSendRound, server, TTypeOK
  <2>2. m \in MessageType /\ m.id = 0
    BY MessagesTyped DEF Message
  <2> HIDE DEF m
  <2>3. \A j \in Conn : \A i \in 1..Len(down'[j]) :
           \/ i \in 1..Len(down[j]) /\ down'[j][i] = down[j][i]
           \/ down'[j][i] = m
    <3>1. down \in [Conn -> Seq(MessageType)]
      BY DEF TTypeOK
    <3>2. \A j \in Conn : \A i \in 1..Len(Deliver(down, sconn, m)[j]) :
             \/ i \in 1..Len(down[j]) /\ Deliver(down, sconn, m)[j][i] = down[j][i]
             \/ j = sconn /\ i = Len(down[j]) + 1 /\ Deliver(down, sconn, m)[j][i] = m
      BY <2>2, <3>1, <2>1, Delivered
    <3> QED
      BY <2>1, <3>2
  <2>4. \A j \in Conn : \A i \in 1..Len(down'[j]) : down'[j][i].id # 0 => Fits(down'[j][i], j)
    BY <2>2, <2>3 DEF WireInv
  <2> QED
    BY <2>1, <2>4, <1>0 DEF WireInv
<1>18. CASE Push
  <2> DEFINE m == Message("push", 0, None, 0)
  <2>1. UNCHANGED <<at, up>> /\ down' = Deliver(down, sconn, m) /\ sconn \in Conn
    BY <1>18 DEF Push, server, TTypeOK
  <2>2. m \in MessageType /\ m.id = 0
    BY MessagesTyped DEF Message
  <2> HIDE DEF m
  <2>3. \A j \in Conn : \A i \in 1..Len(down'[j]) :
           \/ i \in 1..Len(down[j]) /\ down'[j][i] = down[j][i]
           \/ down'[j][i] = m
    <3>1. down \in [Conn -> Seq(MessageType)]
      BY DEF TTypeOK
    <3>2. \A j \in Conn : \A i \in 1..Len(Deliver(down, sconn, m)[j]) :
             \/ i \in 1..Len(down[j]) /\ Deliver(down, sconn, m)[j][i] = down[j][i]
             \/ j = sconn /\ i = Len(down[j]) + 1 /\ Deliver(down, sconn, m)[j][i] = m
      BY <2>2, <3>1, <2>1, Delivered
    <3> QED
      BY <2>1, <3>2
  <2>4. \A j \in Conn : \A i \in 1..Len(down'[j]) : down'[j][i].id # 0 => Fits(down'[j][i], j)
    BY <2>2, <2>3 DEF WireInv
  <2> QED
    BY <2>1, <2>4, <1>0 DEF WireInv
<1>19. CASE ClientRestart
  <2>1. UNCHANGED <<up, at, down>>
    BY <1>19 DEF ClientRestart, server
  <2> QED
    BY <2>1, <1>0 DEF WireInv
<1>20. CASE ServerRestart
  <2>1. UNCHANGED <<up, down>> /\ \A k \in Conn : at'[k] = NoMessage
    BY <1>20 DEF ServerRestart
  <2>2. NoMessage.type # "request"
    BY DEF NoMessage, Message
  <2> QED
    BY <2>1, <2>2, <1>0 DEF WireInv
<1>21. CASE UNCHANGED vars
  <2>1. UNCHANGED <<up, at, down>>
    BY <1>21 DEF vars, server, net
  <2> QED
    BY <2>1, <1>0 DEF WireInv
<1>22. CASE HandReply
  BY <1>0, <1>22 DEF HandReply, WireInv, server, net
<1> QED
  BY <1>1, <1>2, <1>3, <1>4, <1>5, <1>6, <1>7, <1>8, <1>9, <1>10, <1>11, <1>12, <1>13, <1>14,
     <1>15, <1>16, <1>17, <1>18, <1>19, <1>20, <1>21, <1>22 DEF Next

LEMMA OrderStep == TTypeOK /\ ConnInv /\ OrderInv /\ [Next]_vars => OrderInv' 
<1> SUFFICES ASSUME TTypeOK, ConnInv, OrderInv, [Next]_vars  PROVE OrderInv'
  OBVIOUS
<1>1. ASSUME NEW k \in Conn, Accept(k)  PROVE OrderInv'
  <2>1. /\ UNCHANGED <<down, got, sent, reader>> /\ reader = 0 /\ dial' = k
        /\ link[k] = "unused"
    BY <1>1 DEF Accept
  <2>2. \A j \in Conn : link'[j] = "unused" => link[j] = "unused"
    BY <1>1 DEF Accept, TTypeOK
  <2>3. down[k] = <<>> /\ Len(down[k]) = 0
    BY <2>1 DEF OrderInv
  <2>4. \A j \in {reader', dial'} \ {0} : \A i \in 1..Len(down'[j]), g \in 1..Len(got') :
           down'[j][i].type = "round" => got'[g] < down'[j][i].n
    BY <2>1, <2>3
  <2> QED
    BY <2>1, <2>2, <2>4 DEF OrderInv, RoundsInOrder, Increasing
<1>2. CASE Connected
  <2>1. UNCHANGED <<down, got, link>> /\ sent'.down = sent.down
    BY <1>2 DEF Connected, TTypeOK, net
  <2>2. \A k \in {reader', dial'} \ {0} : k \in {reader, dial}
    BY <1>2 DEF Connected
  <2> QED
    BY <2>1, <2>2 DEF OrderInv, RoundsInOrder, Increasing
<1>3. CASE DialFails
  <2>1. UNCHANGED <<down, got, link>> /\ sent'.down = sent.down
    BY <1>3 DEF DialFails, TTypeOK, net
  <2>2. \A k \in {reader', dial'} \ {0} : k \in {reader, dial}
    BY <1>3 DEF DialFails
  <2> QED
    BY <2>1, <2>2 DEF OrderInv, RoundsInOrder, Increasing
<1>4. ASSUME NEW k \in Conn, Break(k)  PROVE OrderInv'
  <2>1. UNCHANGED <<down, got, sent>>
    BY <1>4 DEF Break, client
  <2>2. \A j \in Conn : link'[j] = "unused" => link[j] = "unused"
    BY <1>4 DEF Break, Broken, TTypeOK
  <2>3. \A j \in {reader', dial'} \ {0} : j \in {reader, dial}
    BY <1>4 DEF Break, client
  <2> QED
    BY <2>1, <2>2, <2>3 DEF OrderInv, RoundsInOrder, Increasing
<1>5. ASSUME NEW r \in Req, Register(r)  PROVE OrderInv'
  <2>1. UNCHANGED <<down, got, link>> /\ sent'.down = sent.down
    BY <1>5 DEF Register, TTypeOK, net
  <2>2. \A k \in {reader', dial'} \ {0} : k \in {reader, dial}
    BY <1>5 DEF Register
  <2> QED
    BY <2>1, <2>2 DEF OrderInv, RoundsInOrder, Increasing
<1>6. ASSUME NEW r \in Req, Write(r)  PROVE OrderInv'
  <2>1. UNCHANGED <<down, got, link>> /\ sent'.down = sent.down
    BY <1>6 DEF Write, TTypeOK
  <2>2. \A k \in {reader', dial'} \ {0} : k \in {reader, dial}
    BY <1>6 DEF Write
  <2> QED
    BY <2>1, <2>2 DEF OrderInv, RoundsInOrder, Increasing
<1>7. ASSUME NEW r \in Req, WriteFails(r)  PROVE OrderInv'
  <2>1. UNCHANGED <<down, got, link>> /\ sent'.down = sent.down
    BY <1>7 DEF WriteFails, TTypeOK, net
  <2>2. \A k \in {reader', dial'} \ {0} : k \in {reader, dial}
    BY <1>7 DEF WriteFails
  <2> QED
    BY <2>1, <2>2 DEF OrderInv, RoundsInOrder, Increasing
<1>8. ASSUME NEW r \in Req, Return(r)  PROVE OrderInv'
  <2>1. UNCHANGED <<down, got, link>> /\ sent'.down = sent.down
    BY <1>8 DEF Return, TTypeOK, net
  <2>2. \A k \in {reader', dial'} \ {0} : k \in {reader, dial}
    BY <1>8 DEF Return
  <2> QED
    BY <2>1, <2>2 DEF OrderInv, RoundsInOrder, Increasing
<1>9. ASSUME NEW r \in Req, Cancel(r)  PROVE OrderInv'
  <2>1. UNCHANGED <<down, got, link>> /\ sent'.down = sent.down
    BY <1>9 DEF Cancel, TTypeOK, net
  <2>2. \A k \in {reader', dial'} \ {0} : k \in {reader, dial}
    BY <1>9 DEF Cancel
  <2> QED
    BY <2>1, <2>2 DEF OrderInv, RoundsInOrder, Increasing
<1>10. CASE SendRound
  <2>1. UNCHANGED <<down, got, link>> /\ sent'.down = sent.down
    BY <1>10 DEF SendRound, TTypeOK
  <2>2. \A k \in {reader', dial'} \ {0} : k \in {reader, dial}
    BY <1>10 DEF SendRound
  <2> QED
    BY <2>1, <2>2 DEF OrderInv, RoundsInOrder, Increasing
<1>11. CASE ClientRead
  <2> DEFINE m == Head(down[reader])
  <2>0. /\ down \in [Conn -> Seq(MessageType)] /\ reader \in Conn /\ got \in Seq(Nat)
        /\ sent.down \in Nat
    BY <1>11 DEF ClientRead, TTypeOK
  <2>1. /\ UNCHANGED <<link, reader, dial, sent>> /\ dial = 0 /\ down[reader] # <<>>
        /\ down' = [down EXCEPT ![reader] = Tail(@)]
    BY <1>11 DEF ClientRead, ConnInv
  <2>2. /\ m \in MessageType /\ m = down[reader][1] /\ 1 \in 1..Len(down[reader])
        /\ \A j \in Conn \ {reader} : down'[j] = down[j]
        /\ \A i \in 1..Len(down'[reader]) :
              i + 1 \in 1..Len(down[reader]) /\ down'[reader][i] = down[reader][i + 1]
    BY <2>0, <2>1, Taken
  <2>3. link[reader] # "unused"
    BY <2>0, <2>1 DEF OrderInv
  <2>4. \A j \in Conn : link'[j] = "unused" => down'[j] = <<>>
    BY <2>1, <2>2, <2>3 DEF OrderInv
  <2>5. \A j \in Conn : \A i \in 1..Len(down'[j]) :
           down'[j][i].type = "round" => down'[j][i].n <= sent'.down
    BY <2>1, <2>2 DEF OrderInv
  <2>6. \A j \in Conn : \A i, l \in 1..Len(down'[j]) :
           i < l /\ down'[j][i].type = "round" /\ down'[j][l].type = "round"
           => down'[j][i].n < down'[j][l].n
    <3>1. ASSUME NEW i \in 1..Len(down'[reader]), NEW l \in 1..Len(down'[reader]), i < l,
                 down'[reader][i].type = "round", down'[reader][l].type = "round"
          PROVE  down'[reader][i].n < down'[reader][l].n
      <4>1. /\ i + 1 \in 1..Len(down[reader]) /\ l + 1 \in 1..Len(down[reader])
            /\ i + 1 < l + 1
        BY <2>2, <3>1
      <4>2. \A a, b \in 1..Len(down[reader]) :
               a < b /\ down[reader][a].type = "round" /\ down[reader][b].type = "round"
               => down[reader][a].n < down[reader][b].n
        BY <2>0 DEF OrderInv
      <4>3. down'[reader][i] = down[reader][i + 1] /\ down'[reader][l] = down[reader][l + 1]
        BY <2>2
      <4> QED
        BY <3>1, <4>1, <4>2, <4>3
    <3> QED
      BY SMTT(30), <2>0, <2>2, <3>1 DEF OrderInv
  <2>7. \A g \in 1..Len(got) : got[g] \in Nat /\ got[g] <= sent.down
    BY <2>0 DEF OrderInv
  <2>8. \A i \in 1..Len(down'[reader]) : down'[reader][i].type = "round" =>
           /\ \A g \in 1..Len(got) : got[g] < down'[reader][i].n
           /\ m.type = "round" => m.n < down'[reader][i].n
    <3>1. ASSUME NEW i \in 1..Len(down'[reader]), down'[reader][i].type = "round"
          PROVE  /\ \A g \in 1..Len(got) : got[g] < down'[reader][i].n
                 /\ m.type = "round" => m.n < down'[reader][i].n
      <4> HIDE DEF m
      <4>1. i + 1 \in 1..Len(down[reader]) /\ down'[reader][i] = down[reader][i + 1] /\ 1 < i + 1
        BY <2>2, <3>1
      <4>2. \A g \in 1..Len(got) : got[g] < down'[reader][i].n
        BY <2>0, <3>1, <4>1, ZeroNotConn DEF OrderInv
      <4>3. m.type = "round" => m.n < down'[reader][i].n
        BY <2>0, <2>2, <3>1, <4>1 DEF OrderInv
      <4> QED
        BY <4>2, <4>3
    <3> QED
      BY <3>1
  <2>9. CASE UNCHANGED got
    <3>1. \A j \in {reader', dial'} \ {0} : \A i \in 1..Len(down'[j]), g \in 1..Len(got') :
            down'[j][i].type = "round" => got'[g] < down'[j][i].n
      BY <2>1, <2>8, <2>9
    <3> QED
      BY <2>1, <2>4, <2>5, <2>6, <2>9, <3>1 DEF OrderInv, RoundsInOrder, Increasing
  <2>10. CASE m.type = "round" /\ got' = Append(got, m.n)
    <3> HIDE DEF m
    <3>1. m.n \in Nat /\ m.n <= sent.down /\ \A g \in 1..Len(got) : got[g] < m.n
      <4>1. m.n \in Nat
        BY <2>2 DEF MessageType
      <4>2. m.n <= sent.down
        BY <2>0, <2>2, <2>10 DEF OrderInv
      <4>3. \A g \in 1..Len(got) : got[g] < m.n
        BY <2>0, <2>2, <2>10, ZeroNotConn DEF OrderInv
      <4> QED
        BY <4>1, <4>2, <4>3
    <3>2. /\ Len(got') = Len(got) + 1 /\ Len(got) \in Nat
          /\ \A g \in 1..Len(got) : got'[g] = got[g]
          /\ got'[Len(got) + 1] = m.n
      BY <2>0, <2>10, <3>1, AppendFacts
    <3>3. \A g \in 1..Len(got') : got'[g] = m.n \/ (g \in 1..Len(got) /\ got'[g] = got[g])
      <4>1. ASSUME NEW g \in 1..Len(got')
            PROVE  got'[g] = m.n \/ (g \in 1..Len(got) /\ got'[g] = got[g])
        <5>1. g = Len(got) + 1 \/ g \in 1..Len(got)
          BY <3>2
        <5> QED
          BY <3>2, <5>1
      <4> QED
        BY <4>1
    <3>4. \A g \in 1..Len(got') : got'[g] <= sent'.down
      BY <2>1, <2>7, <3>1, <3>3
    <3>5. \A j \in {reader', dial'} \ {0} : \A i \in 1..Len(down'[j]), g \in 1..Len(got') :
            down'[j][i].type = "round" => got'[g] < down'[j][i].n
      <4>1. ASSUME NEW i \in 1..Len(down'[reader]), NEW g \in 1..Len(got'),
                   down'[reader][i].type = "round"
            PROVE  got'[g] < down'[reader][i].n
        <5>1. CASE got'[g] = m.n
          BY <2>8, <2>10, <4>1, <5>1
        <5>2. CASE g \in 1..Len(got) /\ got'[g] = got[g]
          BY <2>8, <4>1, <5>2
        <5> QED
          BY <3>3, <5>1, <5>2
      <4>2. \A j \in {reader', dial'} \ {0} : j = reader
        BY <2>1
      <4> QED
        BY <4>1, <4>2
    <3>6. RoundsInOrder'
      <4>1. ASSUME NEW g \in 1..Len(got'), NEW h \in 1..Len(got'), g < h
            PROVE  got'[g] < got'[h]
        <5>1. g \in 1..Len(got)
          BY <3>2, <4>1
        <5>2. CASE h \in 1..Len(got)
          BY <3>2, <4>1, <5>1, <5>2 DEF OrderInv, RoundsInOrder, Increasing
        <5>3. CASE h = Len(got) + 1
          BY <3>1, <3>2, <5>1, <5>3
        <5> QED
          BY <3>2, <4>1, <5>2, <5>3
      <4> QED
        BY <4>1 DEF RoundsInOrder, Increasing
    <3> QED
      BY <2>4, <2>5, <2>6, <3>4, <3>5, <3>6 DEF OrderInv
  <2> QED
    BY <1>11, <2>9, <2>10 DEF ClientRead, ReadReply, ReadRound, ReadPush
<1>12. CASE ClientReadError
  <2>1. UNCHANGED <<down, got, link>> /\ sent'.down = sent.down
    BY <1>12 DEF ClientReadError, TTypeOK, net
  <2>2. \A k \in {reader', dial'} \ {0} : k \in {reader, dial}
    BY <1>12 DEF ClientReadError
  <2> QED
    BY <2>1, <2>2 DEF OrderInv, RoundsInOrder, Increasing
<1>13. CASE Receive
  <2>1. UNCHANGED <<down, got, link>> /\ sent'.down = sent.down
    BY <1>13 DEF Receive, TTypeOK, net
  <2>2. \A k \in {reader', dial'} \ {0} : k \in {reader, dial}
    BY <1>13 DEF Receive
  <2> QED
    BY <2>1, <2>2 DEF OrderInv, RoundsInOrder, Increasing
<1>14. ASSUME NEW k \in Conn, ServerRead(k)  PROVE OrderInv'
  <2>1. UNCHANGED <<down, got, link>> /\ sent'.down = sent.down
    BY <1>14 DEF ServerRead, TTypeOK, client
  <2>2. \A j \in {reader', dial'} \ {0} : j \in {reader, dial}
    BY <1>14 DEF ServerRead, client
  <2> QED
    BY <2>1, <2>2 DEF OrderInv, RoundsInOrder, Increasing
<1>15. ASSUME NEW k \in Conn, Respond(k)  PROVE OrderInv'
  <2> DEFINE m == Message("reply", at[k].id, at[k].of, 0)
  <2>0. /\ down \in [Conn -> Seq(MessageType)] /\ k \in Conn /\ m \in MessageType
        /\ sent \in [up : Nat, down : Nat, push : Nat] /\ got \in Seq(Nat)
    BY MessagesTyped DEF TTypeOK
  <2>1. UNCHANGED <<link, got, reader, dial, sent>>
    BY <1>15 DEF Respond, client
  <2>2. CASE down' = down
    BY <2>1, <2>2 DEF OrderInv, RoundsInOrder, Increasing
  <2>3. CASE down' = Deliver(down, k, m)
    <3>2. m.type # "round"
      BY DEF Message
    <3> HIDE DEF m
    <3>3. /\ link[k] # "open" => down' = down
          /\ \A j \in Conn : \A i \in 1..Len(down'[j]) :
                \/ i \in 1..Len(down[j]) /\ down'[j][i] = down[j][i]
                \/ j = k /\ i = Len(down[j]) + 1 /\ down'[j][i] = m
      <4>1. /\ link[k] # "open" => Deliver(down, k, m) = down
            /\ \A j \in Conn : \A i \in 1..Len(Deliver(down, k, m)[j]) :
                  \/ i \in 1..Len(down[j]) /\ Deliver(down, k, m)[j][i] = down[j][i]
                  \/ j = k /\ i = Len(down[j]) + 1 /\ Deliver(down, k, m)[j][i] = m
        BY <2>0, Delivered
      <4>2. down' = Deliver(down, k, m)
        BY <2>3
      <4> QED
        BY <4>1, <4>2
    <3>4. sent'.down = sent.down /\ sent.down \in Nat /\ \A j \in Conn : Len(down[j]) \in Nat
      BY <2>0, <2>1
    <3>5. \A j \in Conn : link'[j] = "unused" => down'[j] = <<>>
      <4>1. ASSUME NEW j \in Conn, link'[j] = "unused"  PROVE down'[j] = <<>>
        <5>1. down[j] = <<>> /\ link[j] # "open"
          BY <2>1, <4>1 DEF OrderInv
        <5>2. down'[j] = down[j]
          BY <2>0, <2>3, <3>3, <5>1 DEF Deliver
        <5> QED
          BY <5>1, <5>2
      <4> QED
        BY <4>1
    <3>6. \A j \in Conn : \A i \in 1..Len(down[j]) :
             /\ down[j][i].n \in Nat
             /\ down[j][i].type = "round" => down[j][i].n <= sent.down
      <4>1. \A j \in Conn : \A i \in 1..Len(down[j]) : down[j][i] \in MessageType
        BY <2>0
      <4> QED
        BY <4>1 DEF OrderInv, MessageType
    <3>7. \A j \in Conn : \A i \in 1..Len(down'[j]) :
             down'[j][i].type = "round" => down'[j][i].n <= sent'.down
      BY <3>2, <3>3, <3>4, <3>6
    <3>8. \A j \in Conn : \A i, l \in 1..Len(down'[j]) :
             i < l /\ down'[j][i].type = "round" /\ down'[j][l].type = "round"
             => down'[j][i].n < down'[j][l].n
      <4>1. ASSUME NEW j \in Conn, NEW i \in 1..Len(down'[j]), NEW l \in 1..Len(down'[j]),
                   i < l, down'[j][i].type = "round", down'[j][l].type = "round"
            PROVE  down'[j][i].n < down'[j][l].n
        <5>1. CASE l \in 1..Len(down[j]) /\ down'[j][l] = down[j][l]
          <6>1. i \in 1..Len(down[j]) /\ down'[j][i] = down[j][i]
            BY <3>3, <3>4, <4>1, <5>1
          <6> QED
            BY <4>1, <5>1, <6>1 DEF OrderInv
        <5>2. CASE l = Len(down[j]) + 1 /\ down'[j][l] = m
          <6>1. i \in 1..Len(down[j]) /\ down'[j][i] = down[j][i]
            BY <3>3, <3>4, <4>1, <5>2
          <6> QED
            BY <3>2, <3>4, <3>6, <4>1, <5>2, <6>1
        <5> QED
          BY <3>3, <5>1, <5>2
      <4> QED
        BY <4>1
    <3>9. \A g \in 1..Len(got') : got'[g] <= sent'.down /\ got[g] <= sent.down /\ got[g] \in Nat
      <4>1. \A g \in 1..Len(got) : got[g] \in Nat /\ got[g] <= sent.down
        BY <2>0 DEF OrderInv
      <4> QED
        BY <2>1, <3>4, <4>1
    <3>10. \A j \in {reader', dial'} \ {0} : \A i \in 1..Len(down'[j]), g \in 1..Len(got') :
              down'[j][i].type = "round" => got'[g] < down'[j][i].n
      <4>1. ASSUME NEW j \in {reader, dial} \ {0}, NEW i \in 1..Len(down'[j]),
                   NEW g \in 1..Len(got), down'[j][i].type = "round"
            PROVE  got[g] < down'[j][i].n
        <5>1. j \in Conn
          BY DEF TTypeOK
        <5>2. CASE i \in 1..Len(down[j]) /\ down'[j][i] = down[j][i]
          BY <4>1, <5>2 DEF OrderInv
        <5>3. CASE down'[j][i] = m
          BY <2>1, <3>2, <3>4, <3>9, <4>1, <5>3
        <5> QED
          BY <3>3, <5>1, <5>2, <5>3
      <4> QED
        BY <2>1, <4>1
    <3>11. RoundsInOrder'
      BY <2>1 DEF OrderInv, RoundsInOrder, Increasing
    <3> QED
      BY <3>5, <3>7, <3>8, <3>9, <3>10, <3>11 DEF OrderInv
  <2> QED
    BY <1>15, <2>2, <2>3 DEF Respond
<1>16. ASSUME NEW k \in Conn, ServerError(k)  PROVE OrderInv'
  <2>1. UNCHANGED <<down, got, link>> /\ sent'.down = sent.down
    BY <1>16 DEF ServerError, TTypeOK, client, net
  <2>2. \A j \in {reader', dial'} \ {0} : j \in {reader, dial}
    BY <1>16 DEF ServerError, client
  <2> QED
    BY <2>1, <2>2 DEF OrderInv, RoundsInOrder, Increasing
<1>17. CASE ServerSendRound
  <2> DEFINE m == Message("round", 0, None, sent.down + 1)
  <2>0. /\ down \in [Conn -> Seq(MessageType)] /\ sconn \in Conn /\ m \in MessageType
        /\ sent \in [up : Nat, down : Nat, push : Nat] /\ got \in Seq(Nat)
    BY <1>17, MessagesTyped DEF TTypeOK, ServerSendRound
  <2>1. /\ UNCHANGED <<link, got, reader, dial>> /\ down' = Deliver(down, sconn, m)
        /\ sent' = [sent EXCEPT !.down = @ + 1]
    BY <1>17 DEF ServerSendRound, client
  <2>2. m.type = "round" /\ m.n = sent.down + 1
    BY DEF Message
  <2> HIDE DEF m
  <2>3. /\ link[sconn] # "open" => down' = down
        /\ \A j \in Conn : \A i \in 1..Len(down'[j]) :
              \/ i \in 1..Len(down[j]) /\ down'[j][i] = down[j][i]
              \/ j = sconn /\ i = Len(down[j]) + 1 /\ down'[j][i] = m
    <3>1. /\ link[sconn] # "open" => Deliver(down, sconn, m) = down
          /\ \A j \in Conn : \A i \in 1..Len(Deliver(down, sconn, m)[j]) :
                \/ i \in 1..Len(down[j]) /\ Deliver(down, sconn, m)[j][i] = down[j][i]
                \/ j = sconn /\ i = Len(down[j]) + 1 /\ Deliver(down, sconn, m)[j][i] = m
      BY <2>0, Delivered
    <3>2. down' = Deliver(down, sconn, m)
      BY <2>1
    <3> QED
      BY <3>1, <3>2
  <2>4. sent'.down = sent.down + 1 /\ sent.down \in Nat /\ \A j \in Conn : Len(down[j]) \in Nat
    BY <2>0, <2>1
  <2>5. \A j \in Conn : link'[j] = "unused" => down'[j] = <<>>
    <3>1. ASSUME NEW j \in Conn, link'[j] = "unused"  PROVE down'[j] = <<>>
      <4>1. down[j] = <<>> /\ link[j] # "open"
        BY <2>1, <3>1 DEF OrderInv
      <4>2. down'[j] = down[j]
        BY <2>0, <2>1, <2>3, <4>1 DEF Deliver
      <4> QED
        BY <4>1, <4>2
    <3> QED
      BY <3>1
  <2>6. \A j \in Conn : \A i \in 1..Len(down[j]) :
           /\ down[j][i].n \in Nat
           /\ down[j][i].type = "round" => down[j][i].n <= sent.down
    <3>1. \A j \in Conn : \A i \in 1..Len(down[j]) : down[j][i] \in MessageType
      BY <2>0
    <3> QED
      BY <3>1 DEF OrderInv, MessageType
  <2>7. \A j \in Conn : \A i \in 1..Len(down'[j]) :
           down'[j][i].type = "round" => down'[j][i].n <= sent'.down
    BY SMTT(30), <2>2, <2>3, <2>4, <2>6
  <2>8. \A j \in Conn : \A i, l \in 1..Len(down'[j]) :
           i < l /\ down'[j][i].type = "round" /\ down'[j][l].type = "round"
           => down'[j][i].n < down'[j][l].n
    <3>1. ASSUME NEW j \in Conn, NEW i \in 1..Len(down'[j]), NEW l \in 1..Len(down'[j]),
                 i < l, down'[j][i].type = "round", down'[j][l].type = "round"
          PROVE  down'[j][i].n < down'[j][l].n
      <4>1. CASE l \in 1..Len(down[j]) /\ down'[j][l] = down[j][l]
        <5>1. i \in 1..Len(down[j]) /\ down'[j][i] = down[j][i]
          BY <2>3, <2>4, <3>1, <4>1
        <5> QED
          BY <3>1, <4>1, <5>1 DEF OrderInv
      <4>2. CASE l = Len(down[j]) + 1 /\ down'[j][l] = m
        <5>1. i \in 1..Len(down[j]) /\ down'[j][i] = down[j][i]
          BY <2>3, <2>4, <3>1, <4>2
        <5> QED
          BY <2>2, <2>4, <2>6, <3>1, <4>2, <5>1
      <4> QED
        BY <2>3, <4>1, <4>2
    <3> QED
      BY <3>1
  <2>9. \A g \in 1..Len(got') : got'[g] <= sent'.down /\ got[g] <= sent.down /\ got[g] \in Nat
    <3>1. \A g \in 1..Len(got) : got[g] \in Nat /\ got[g] <= sent.down
      BY <2>0 DEF OrderInv
    <3> QED
      BY <2>1, <2>4, <3>1
  <2>10. \A j \in {reader', dial'} \ {0} : \A i \in 1..Len(down'[j]), g \in 1..Len(got') :
            down'[j][i].type = "round" => got'[g] < down'[j][i].n
    <3>1. ASSUME NEW j \in {reader, dial} \ {0}, NEW i \in 1..Len(down'[j]),
                 NEW g \in 1..Len(got), down'[j][i].type = "round"
          PROVE  got[g] < down'[j][i].n
      <4>1. j \in Conn
        BY DEF TTypeOK
      <4>2. CASE i \in 1..Len(down[j]) /\ down'[j][i] = down[j][i]
        BY <3>1, <4>2 DEF OrderInv
      <4>3. CASE down'[j][i] = m
        BY <2>1, <2>2, <2>4, <2>9, <3>1, <4>3
      <4> QED
        BY <2>3, <4>1, <4>2, <4>3
    <3> QED
      BY <2>1, <3>1
  <2>11. RoundsInOrder'
    BY <2>1 DEF OrderInv, RoundsInOrder, Increasing
  <2> QED
    BY <2>5, <2>7, <2>8, <2>9, <2>10, <2>11 DEF OrderInv
<1>18. CASE Push
  <2> DEFINE m == Message("push", 0, None, 0)
  <2>0. /\ down \in [Conn -> Seq(MessageType)] /\ sconn \in Conn /\ m \in MessageType
        /\ sent \in [up : Nat, down : Nat, push : Nat] /\ got \in Seq(Nat)
    BY <1>18, MessagesTyped DEF TTypeOK, Push
  <2>1. /\ UNCHANGED <<link, got, reader, dial>> /\ down' = Deliver(down, sconn, m)
        /\ sent' = [sent EXCEPT !.push = @ + 1]
    BY <1>18 DEF Push, client
  <2>2. m.type # "round"
    BY DEF Message
  <2> HIDE DEF m
  <2>3. /\ link[sconn] # "open" => down' = down
        /\ \A j \in Conn : \A i \in 1..Len(down'[j]) :
              \/ i \in 1..Len(down[j]) /\ down'[j][i] = down[j][i]
              \/ j = sconn /\ i = Len(down[j]) + 1 /\ down'[j][i] = m
    <3>1. /\ link[sconn] # "open" => Deliver(down, sconn, m) = down
          /\ \A j \in Conn : \A i \in 1..Len(Deliver(down, sconn, m)[j]) :
                \/ i \in 1..Len(down[j]) /\ Deliver(down, sconn, m)[j][i] = down[j][i]
                \/ j = sconn /\ i = Len(down[j]) + 1 /\ Deliver(down, sconn, m)[j][i] = m
      BY <2>0, Delivered
    <3>2. down' = Deliver(down, sconn, m)
      BY <2>1
    <3> QED
      BY <3>1, <3>2
  <2>4. sent'.down = sent.down /\ sent.down \in Nat /\ \A j \in Conn : Len(down[j]) \in Nat
    BY <2>0, <2>1
  <2>5. \A j \in Conn : link'[j] = "unused" => down'[j] = <<>>
    <3>1. ASSUME NEW j \in Conn, link'[j] = "unused"  PROVE down'[j] = <<>>
      <4>1. down[j] = <<>> /\ link[j] # "open"
        BY <2>1, <3>1 DEF OrderInv
      <4>2. down'[j] = down[j]
        BY <2>0, <2>1, <2>3, <4>1 DEF Deliver
      <4> QED
        BY <4>1, <4>2
    <3> QED
      BY <3>1
  <2>6. \A j \in Conn : \A i \in 1..Len(down[j]) :
           /\ down[j][i].n \in Nat
           /\ down[j][i].type = "round" => down[j][i].n <= sent.down
    <3>1. \A j \in Conn : \A i \in 1..Len(down[j]) : down[j][i] \in MessageType
      BY <2>0
    <3> QED
      BY <3>1 DEF OrderInv, MessageType
  <2>7. \A j \in Conn : \A i \in 1..Len(down'[j]) :
           down'[j][i].type = "round" => down'[j][i].n <= sent'.down
    BY <2>2, <2>3, <2>4, <2>6
  <2>8. \A j \in Conn : \A i, l \in 1..Len(down'[j]) :
           i < l /\ down'[j][i].type = "round" /\ down'[j][l].type = "round"
           => down'[j][i].n < down'[j][l].n
    <3>1. ASSUME NEW j \in Conn, NEW i \in 1..Len(down'[j]), NEW l \in 1..Len(down'[j]),
                 i < l, down'[j][i].type = "round", down'[j][l].type = "round"
          PROVE  down'[j][i].n < down'[j][l].n
      <4>1. CASE l \in 1..Len(down[j]) /\ down'[j][l] = down[j][l]
        <5>1. i \in 1..Len(down[j]) /\ down'[j][i] = down[j][i]
          BY <2>3, <2>4, <3>1, <4>1
        <5> QED
          BY <3>1, <4>1, <5>1 DEF OrderInv
      <4>2. CASE l = Len(down[j]) + 1 /\ down'[j][l] = m
        <5>1. i \in 1..Len(down[j]) /\ down'[j][i] = down[j][i]
          BY <2>3, <2>4, <3>1, <4>2
        <5> QED
          BY <2>2, <2>4, <2>6, <3>1, <4>2, <5>1
      <4> QED
        BY <2>3, <4>1, <4>2
    <3> QED
      BY <3>1
  <2>9. \A g \in 1..Len(got') : got'[g] <= sent'.down /\ got[g] <= sent.down /\ got[g] \in Nat
    <3>1. \A g \in 1..Len(got) : got[g] \in Nat /\ got[g] <= sent.down
      BY <2>0 DEF OrderInv
    <3> QED
      BY <2>1, <2>4, <3>1
  <2>10. \A j \in {reader', dial'} \ {0} : \A i \in 1..Len(down'[j]), g \in 1..Len(got') :
            down'[j][i].type = "round" => got'[g] < down'[j][i].n
    <3>1. ASSUME NEW j \in {reader, dial} \ {0}, NEW i \in 1..Len(down'[j]),
                 NEW g \in 1..Len(got), down'[j][i].type = "round"
          PROVE  got[g] < down'[j][i].n
      <4>1. j \in Conn
        BY DEF TTypeOK
      <4>2. CASE i \in 1..Len(down[j]) /\ down'[j][i] = down[j][i]
        BY <3>1, <4>2 DEF OrderInv
      <4>3. CASE down'[j][i] = m
        BY <2>1, <2>2, <2>4, <2>9, <3>1, <4>3
      <4> QED
        BY <2>3, <4>1, <4>2, <4>3
    <3> QED
      BY <2>1, <3>1
  <2>11. RoundsInOrder'
    BY <2>1 DEF OrderInv, RoundsInOrder, Increasing
  <2> QED
    BY <2>5, <2>7, <2>8, <2>9, <2>10, <2>11 DEF OrderInv
<1>19. CASE ClientRestart
  <2>1. UNCHANGED <<down, got, sent>>
    BY <1>19 DEF ClientRestart
  <2>2. \A j \in Conn : link'[j] = "unused" => link[j] = "unused"
    BY <1>19 DEF ClientRestart, Broken, TTypeOK
  <2>3. \A j \in {reader', dial'} \ {0} : j \in {reader, dial}
    BY <1>19 DEF ClientRestart
  <2> QED
    BY <2>1, <2>2, <2>3 DEF OrderInv, RoundsInOrder, Increasing
<1>20. CASE ServerRestart
  <2>1. UNCHANGED <<down, got, sent>>
    BY <1>20 DEF ServerRestart, client
  <2>2. \A j \in Conn : link'[j] = "unused" => link[j] = "unused"
    BY <1>20 DEF ServerRestart, Broken, TTypeOK
  <2>3. \A j \in {reader', dial'} \ {0} : j \in {reader, dial}
    BY <1>20 DEF ServerRestart, client
  <2> QED
    BY <2>1, <2>2, <2>3 DEF OrderInv, RoundsInOrder, Increasing
<1>21. CASE UNCHANGED vars
  <2>1. UNCHANGED <<down, got, link>> /\ sent'.down = sent.down
    BY <1>21 DEF vars, TTypeOK, client, net
  <2>2. \A k \in {reader', dial'} \ {0} : k \in {reader, dial}
    BY <1>21 DEF vars, client
  <2> QED
    BY <2>1, <2>2 DEF OrderInv, RoundsInOrder, Increasing
<1>22. CASE HandReply
  BY <1>22 DEF HandReply, OrderInv, RoundsInOrder, server, net
<1> QED
  BY <1>1, <1>2, <1>3, <1>4, <1>5, <1>6, <1>7, <1>8, <1>9, <1>10, <1>11, <1>12, <1>13, <1>14,
     <1>15, <1>16, <1>17, <1>18, <1>19, <1>20, <1>21, <1>22 DEF Next

-----------------------------------------------------------------------------
(* The theorems.                                                           *)

LEMMA IndInit == Init => TIndInv /\ OrderInv
<1> SUFFICES ASSUME Init  PROVE TIndInv /\ OrderInv
  OBVIOUS
<1>1. WireInv
  BY DEF Init, WireInv, NoMessage, Message
<1>2. ConnInv
  BY DEF Init, ConnInv
<1>3. CallInv /\ TableInv /\ ReplyIsOwn
  BY DEF Init, CallInv, TableInv, HandInv, NoReply, ReplyIsOwn, Live, NewCall
<1>4. OrderInv
  BY DEF Init, OrderInv, RoundsInOrder, Increasing
<1> QED
  BY <1>1, <1>2, <1>3, <1>4 DEF TIndInv

\* The client, the server and the connections keep their types and the channel
\* of rounds its bound; the parts of TIndInv and OrderInv, which relate what
\* travels on each connection to the calls and the rounds received, hold in
\* every reachable state.
THEOREM TransportInductive == Spec => [](TTypeOK /\ TIndInv /\ OrderInv)
<1>1. Init => TTypeOK /\ TIndInv /\ OrderInv
  BY TypeInit, IndInit
<1>2. TTypeOK /\ TIndInv /\ OrderInv /\ [Next]_vars => (TTypeOK /\ TIndInv /\ OrderInv)'
  BY TypeStep, CoreStep, WireStep, OrderStep DEF TIndInv
<1> QED
  BY <1>1, <1>2, PTL DEF Spec

\* Type correctness (NewClient, NewServer and every handler).
THEOREM TransportTypeCorrect == Spec => []TTypeOK
  BY TransportInductive, PTL

\* A caller of Client.Request never gets the answer to another request,
\* although ids repeat from one incarnation of the client to the next: the
\* server answers on the connection the request came from, and a connection
\* belongs to one incarnation.
THEOREM RepliesAreOwn == Spec => []ReplyIsOwn
<1>1. TIndInv => ReplyIsOwn
  BY DEF TIndInv
<1> QED
  BY <1>1, TransportInductive, PTL

\* The table of pending requests holds exactly the requests that wait, one per
\* id, however requests, answers, cancellations and restarts interleave.
THEOREM PendingMatchesCalls == Spec => []PendingIsLive
<1>1. TTypeOK /\ TIndInv => PendingIsLive
  <2> SUFFICES ASSUME TTypeOK, CallInv, TableInv  PROVE PendingIsLive
    BY DEF TIndInv
  <2>1. ASSUME NEW p \in pending, NEW q \in pending, p[1] = q[1]  PROVE p = q
    <3>1. /\ p[2] \in Req /\ q[2] \in Req /\ p = <<p[1], p[2]>> /\ q = <<q[1], q[2]>>
      <4>1. pending \in SUBSET (Nat \X Req)
        BY DEF TTypeOK
      <4> QED
        BY <4>1
    <3>2. /\ call[p[2]].id = p[1] /\ call[q[2]].id = q[1]
          /\ Live(p[2]) /\ Live(q[2])
      BY DEF TableInv
    <3>3. p[2] = q[2]
      BY <2>1, <3>1, <3>2 DEF CallInv, Live
    <3> QED
      BY <2>1, <3>1, <3>3
  <2> QED
    BY <2>1 DEF TableInv, HandInv, PendingIsLive
<1> QED
  BY <1>1, TransportInductive, PTL

\* Rounds reach the client's channel in the order the server sent them, over
\* every change of connection and every restart.
THEOREM RoundsAreInOrder == Spec => []RoundsInOrder
<1>1. OrderInv => RoundsInOrder
  BY DEF OrderInv
<1> QED
  BY <1>1, TransportInductive, PTL
=============================================================================

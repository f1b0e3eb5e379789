------------------------------ MODULE Transport ------------------------------
(***************************************************************************)
(* The transport between the parties (internal/transport): Party A's       *)
(* client with its reconnecting read loop and its table of pending         *)
(* requests, Party B's server with one handling goroutine per connection.  *)
(* Connections break, lose what they carry, and are replaced; either       *)
(* process restarts.                                                       *)
(*                                                                         *)
(* TCP and TLS are external: a connection delivers in order until it       *)
(* breaks, and what was sent before may or may not still arrive.           *)
(***************************************************************************)
EXTENDS Naturals, Sequences, FiniteSets

CONSTANTS Req,        \* the requests Party A ever makes
          MaxConn,    \* bound: connections ever made
          MaxSends,   \* bound: requests, rounds and pushes ever sent
          MaxEpochs,  \* bound: incarnations of the client
          InCap,      \* capacity of the client's channel for TSS rounds
          None

ASSUME BoundAssumption ==
    /\ MaxConn \in Nat /\ MaxSends \in Nat /\ MaxEpochs \in Nat
    /\ InCap \in Nat
ASSUME NoneAssumption == None \notin Req

Conn == 1..MaxConn

VARIABLES
    link,      \* per connection: "unused", "open", "broken" (by the network or
               \* the client's end) or "closed" (by the server)
    owner,     \* per connection: the incarnation of the client that dialled
    up, down,  \* per connection: messages under way to the server, the client
    epoch,     \* incarnation of the client
    seq,       \* Client.msgIDSeq
    cconn,     \* Client.conn, 0 for nil
    reader,    \* the connection of the client's readLoop, 0 while reconnecting
    dial,      \* the connection the reconnect goroutine is setting up, or 0
    pending,   \* Client.pending, pairs <<id, request>>
    call,      \* the calls of Client.Request
    taken,     \* the reply readLoop is about to hand over, and the call it is for
    inCh,      \* rounds waiting in Client.incomingCh
    sconn,     \* Server.conn, 0 for nil
    serving,   \* per connection, handleConn: "none", "idle" or "busy"
    at,        \* per connection: the message its handler works on
    got, fed,  \* rounds in the order the client's channel, the server's
               \* session received them
    sent,      \* rounds sent by the client, by the server, and pushes
    pushed     \* pushes the client's handler received

client == <<epoch, seq, cconn, reader, dial, pending, call, taken, inCh, got, pushed>>
server == <<sconn, serving, at, fed>>
net == <<link, owner, up, down>>
vars == <<client, server, net, sent>>

\* A message: requests, replies and rounds of the client have an id of their
\* own, what the server sends on its own has id 0.  of names the request.
Message(type, id, of, n) == [type |-> type, id |-> id, of |-> of, n |-> n]
NoMessage == Message("none", 0, None, 0)

NewCall == [pc |-> "new", id |-> 0, epoch |-> 0, conn |-> 0, answer |-> None]
NoReply == [to |-> None, of |-> None]

Init ==
    /\ link = [k \in Conn |-> "unused"]
    /\ owner = [k \in Conn |-> 0]
    /\ up = [k \in Conn |-> <<>>]
    /\ down = [k \in Conn |-> <<>>]
    /\ epoch = 1 /\ seq = 0 /\ cconn = 0 /\ reader = 0 /\ dial = 0
    /\ pending = {}
    /\ call = [r \in Req |-> NewCall]
    /\ taken = NoReply
    /\ inCh = 0
    /\ sconn = 0
    /\ serving = [k \in Conn |-> "none"]
    /\ at = [k \in Conn |-> NoMessage]
    /\ got = <<>> /\ fed = <<>>
    /\ sent = [up |-> 0, down |-> 0, push |-> 0]
    /\ pushed = 0

(***************************************************************************)
(* Connections.                                                            *)
(***************************************************************************)

\* Mutant of Accept: a second connection is refused while there is one.
AcceptOnlyIfFree(k) ==
    /\ sconn = 0
    /\ reader = 0 /\ dial = 0
    /\ link[k] = "unused" /\ \A j \in Conn : j < k => link[j] # "unused"
    /\ dial' = k
    /\ link' = [link EXCEPT ![k] = "open"]
    /\ owner' = [owner EXCEPT ![k] = epoch]
    /\ sconn' = k
    /\ serving' = [serving EXCEPT ![k] = "idle"]
    /\ UNCHANGED <<epoch, seq, cconn, reader, pending, call, taken, inCh, got, pushed,
                   at, fed, up, down, sent>>

\* The reconnect goroutine dials and the server accepts: it closes the
\* connection it had and serves the new one.  (The client's handshake ends
\* only after the server's accept.)
Accept(k) ==
    /\ reader = 0 /\ dial = 0
    /\ link[k] = "unused" /\ \A j \in Conn : j < k => link[j] # "unused"
    /\ dial' = k
    /\ link' = [j \in Conn |-> IF j = k THEN "open"
                               ELSE IF j = sconn THEN "closed" ELSE link[j]]
    /\ owner' = [owner EXCEPT ![k] = epoch]
    /\ sconn' = k
    /\ serving' = [serving EXCEPT ![k] = "idle"]
    /\ UNCHANGED <<epoch, seq, cconn, reader, pending, call, taken, inCh, got, pushed,
                   at, fed, up, down, sent>>

\* connectWithRetry returns: the connection is set and its readLoop started.
Connected ==
    /\ dial # 0
    /\ cconn' = dial
    /\ reader' = dial
    /\ dial' = 0
    /\ UNCHANGED <<epoch, seq, pending, call, taken, inCh, got, pushed, server, net, sent>>

\* The handshake fails; after the backoff connectWithRetry dials again.
DialFails ==
    /\ dial # 0 /\ link[dial] # "open"
    /\ dial' = 0
    /\ UNCHANGED <<epoch, seq, cconn, reader, pending, call, taken, inCh, got, pushed,
                   server, net, sent>>

Break(k) ==
    /\ link[k] = "open"
    /\ link' = [link EXCEPT ![k] = "broken"]
    /\ UNCHANGED <<client, server, owner, up, down, sent>>

\* Writing to a connection that is gone fails, or seems to succeed and is lost.
Deliver(queues, k, m) ==
    IF link[k] = "open" THEN [queues EXCEPT ![k] = Append(@, m)] ELSE queues

\* The bound on what is sent.
MaySend ==
    sent.up + sent.down + sent.push + Cardinality({r \in Req : call[r].pc # "new"}) < MaxSends

(***************************************************************************)
(* The client.                                                             *)
(***************************************************************************)

\* Request takes an id, registers its channel and reads Client.conn.
Register(r) ==
    /\ call[r].pc = "new" /\ MaySend
    /\ seq' = seq + 1
    /\ IF cconn = 0
       THEN /\ call' = [call EXCEPT ![r].pc = "failed"]
            /\ UNCHANGED pending
       ELSE /\ call' = [call EXCEPT ![r] = [pc |-> "writing", id |-> seq + 1, epoch |-> epoch,
                                            conn |-> cconn, answer |-> None]]
            /\ pending' = pending \cup {<<seq + 1, r>>}
    /\ UNCHANGED <<epoch, cconn, reader, dial, taken, inCh, got, pushed, server, net, sent>>

\* WriteMessage under the write lock.
Write(r) ==
    /\ call[r].pc = "writing"
    /\ up' = Deliver(up, call[r].conn, Message("request", call[r].id, r, 0))
    /\ call' = [call EXCEPT ![r].pc = "waiting"]
    /\ UNCHANGED <<epoch, seq, cconn, reader, dial, pending, taken, inCh, got, pushed,
                   server, link, owner, down, sent>>

Unregister(r) == pending \ {<<call[r].id, r>>}

WriteFails(r) ==
    /\ call[r].pc = "writing"
    /\ link[call[r].conn] # "open"
    /\ call' = [call EXCEPT ![r].pc = "failed"]
    /\ pending' = Unregister(r)
    /\ UNCHANGED <<epoch, seq, cconn, reader, dial, taken, inCh, got, pushed, server, net, sent>>

\* The reply is in the request's channel.
Return(r) ==
    /\ call[r].pc = "waiting" /\ call[r].answer # None
    /\ call' = [call EXCEPT ![r].pc = "answered"]
    /\ UNCHANGED <<epoch, seq, cconn, reader, dial, pending, taken, inCh, got, pushed,
                   server, net, sent>>

\* Mutant of Cancel: the channel stays in Client.pending.
CancelLeaks(r) ==
    /\ call[r].pc = "waiting"
    /\ call' = [call EXCEPT ![r].pc = "failed"]
    /\ UNCHANGED <<pending, epoch, seq, cconn, reader, dial, taken, inCh, got, pushed, server, net, sent>>

\* The context ends (the HTTP client hung up); select may prefer it to a reply
\* that just came.
Cancel(r) ==
    /\ call[r].pc = "waiting"
    /\ call' = [call EXCEPT ![r].pc = "failed"]
    /\ pending' = Unregister(r)
    /\ UNCHANGED <<epoch, seq, cconn, reader, dial, taken, inCh, got, pushed, server, net, sent>>

\* Client.Send: a round of the TSS protocol, with an id of its own.
SendRound ==
    /\ cconn # 0 /\ MaySend
    /\ seq' = seq + 1
    /\ sent' = [sent EXCEPT !.up = @ + 1]
    /\ up' = Deliver(up, cconn, Message("round", seq + 1, None, sent.up + 1))
    /\ UNCHANGED <<epoch, cconn, reader, dial, pending, call, taken, inCh, got, pushed,
                   server, link, owner, down>>

\* The requests whose channel the message goes to: at most one.
Waiting(m) == {r \in Req : <<m.id, r>> \in pending}

\* A reply: its entry is taken out of Client.pending under the lock ...
ReadReply(m) ==
    \E r \in Waiting(m) :
        /\ pending' = pending \ {<<m.id, r>>}
        /\ taken' = [to |-> r, of |-> m.of]
        /\ UNCHANGED <<call, inCh, got, pushed>>

\* ... and sent, after it, into the call's channel, of capacity 1. The caller may
\* have given up by now; a full channel would hold the read loop.
HandReply ==
    /\ taken # NoReply
    /\ call[taken.to].answer = None
    /\ call' = [call EXCEPT ![taken.to].answer = taken.of]
    /\ taken' = NoReply
    /\ UNCHANGED <<epoch, seq, cconn, reader, dial, pending, inCh, got, pushed, server, net, sent>>

\* Mutant of ReadRound: the channel never refuses a round.
ReadRoundAlways(m) ==
    /\ Waiting(m) = {} /\ m.type = "round"
    /\ inCh' = inCh + 1 /\ got' = Append(got, m.n)
    /\ UNCHANGED <<pending, call, taken, pushed>>

\* A round goes to the channel, or is dropped when it is full.
ReadRound(m) ==
    /\ Waiting(m) = {} /\ m.type = "round"
    /\ IF inCh < InCap THEN inCh' = inCh + 1 /\ got' = Append(got, m.n)
                       ELSE UNCHANGED <<inCh, got>>
    /\ UNCHANGED <<pending, call, taken, pushed>>

\* Anything else goes to the handler; a reply nobody waits for is ignored.
ReadPush(m) ==
    /\ Waiting(m) = {} /\ m.type # "round"
    /\ pushed' = IF m.type = "push" THEN pushed + 1 ELSE pushed
    /\ UNCHANGED <<pending, call, taken, inCh, got>>

\* Mutant of ClientRead: the read loops of earlier connections go on beside the
\* one of the current connection.
ClientReadAny ==
    \E k \in Conn :
        /\ reader # 0 /\ taken = NoReply /\ owner[k] = epoch
        /\ down[k] # <<>>
        /\ LET m == Head(down[k]) IN ReadReply(m) \/ ReadRound(m) \/ ReadPush(m)
        /\ down' = [down EXCEPT ![k] = Tail(@)]
        /\ UNCHANGED <<epoch, seq, cconn, reader, dial, server, link, owner, up, sent>>

\* One turn of readLoop.
ClientRead ==
    /\ reader # 0 /\ taken = NoReply
    /\ down[reader] # <<>>
    /\ LET m == Head(down[reader]) IN ReadReply(m) \/ ReadRound(m) \/ ReadPush(m)
    /\ down' = [down EXCEPT ![reader] = Tail(@)]
    /\ UNCHANGED <<epoch, seq, cconn, reader, dial, server, link, owner, up, sent>>

\* ReadMessage fails: readLoop's defer clears the connection and reconnects.
ClientReadError ==
    /\ reader # 0 /\ taken = NoReply /\ link[reader] # "open"
    /\ cconn' = IF cconn = reader THEN 0 ELSE cconn
    /\ reader' = 0
    /\ UNCHANGED <<epoch, seq, dial, pending, call, taken, inCh, got, pushed, server, net, sent>>

\* A session takes a round from the channel.
Receive ==
    /\ inCh > 0
    /\ inCh' = inCh - 1
    /\ UNCHANGED <<epoch, seq, cconn, reader, dial, pending, call, taken, got, pushed,
                   server, net, sent>>

(***************************************************************************)
(* The server.                                                             *)
(***************************************************************************)

\* handleConn reads a message (not from a connection acceptLoop closed) ...
ServerRead(k) ==
    /\ serving[k] = "idle" /\ link[k] # "closed" /\ up[k] # <<>>
    /\ at' = [at EXCEPT ![k] = Head(up[k])]
    /\ serving' = [serving EXCEPT ![k] = "busy"]
    /\ up' = [up EXCEPT ![k] = Tail(@)]
    /\ UNCHANGED <<client, sconn, fed, link, owner, down, sent>>

\* Mutant of Respond: the response goes to the current connection, as
\* Server.Send does.
RespondToCurrent(k) ==
    /\ serving[k] = "busy"
    /\ \/ at[k].type = "round" /\ fed' = Append(fed, at[k].n) /\ UNCHANGED down
       \/ /\ at[k].type = "request" /\ sconn # 0
          /\ down' = Deliver(down, sconn, Message("reply", at[k].id, at[k].of, 0))
          /\ UNCHANGED fed
    /\ serving' = [serving EXCEPT ![k] = "idle"]
    /\ at' = [at EXCEPT ![k] = NoMessage]
    /\ UNCHANGED <<client, sconn, link, owner, up, sent>>

\* ... and, once the handler returned, writes its response to the connection
\* the message came from, if there is one: no response to a round, none after
\* an error.
Respond(k) ==
    /\ serving[k] = "busy"
    /\ \/ at[k].type = "round" /\ fed' = Append(fed, at[k].n) /\ UNCHANGED down
       \/ at[k].type = "request" /\ UNCHANGED <<fed, down>>
       \/ /\ at[k].type = "request"
          /\ down' = Deliver(down, k, Message("reply", at[k].id, at[k].of, 0))
          /\ UNCHANGED fed
    /\ serving' = [serving EXCEPT ![k] = "idle"]
    /\ at' = [at EXCEPT ![k] = NoMessage]
    /\ UNCHANGED <<client, sconn, link, owner, up, sent>>

\* A read or a write fails: the goroutine ends.
ServerError(k) ==
    /\ serving[k] = "idle" /\ link[k] # "open"
    /\ serving' = [serving EXCEPT ![k] = "none"]
    /\ sconn' = IF sconn = k THEN 0 ELSE sconn
    /\ UNCHANGED <<client, at, fed, net, sent>>

\* Server.Send: rounds and MsgSignApproved go to the current connection.
ServerSendRound ==
    /\ sconn # 0 /\ MaySend
    /\ sent' = [sent EXCEPT !.down = @ + 1]
    /\ down' = Deliver(down, sconn, Message("round", 0, None, sent.down + 1))
    /\ UNCHANGED <<client, server, link, owner, up>>

Push ==
    /\ sconn # 0 /\ MaySend
    /\ sent' = [sent EXCEPT !.push = @ + 1]
    /\ down' = Deliver(down, sconn, Message("push", 0, None, 0))
    /\ UNCHANGED <<client, server, link, owner, up>>

(***************************************************************************)
(* Restarts.                                                               *)
(***************************************************************************)
Broken(who) ==
    [k \in Conn |-> IF link[k] = "open" /\ owner[k] \in who THEN "broken" ELSE link[k]]

\* The new client counts its ids from 1 again.
ClientRestart ==
    /\ epoch < MaxEpochs
    /\ epoch' = epoch + 1
    /\ seq' = 0 /\ cconn' = 0 /\ reader' = 0 /\ dial' = 0 /\ inCh' = 0
    /\ pending' = {} /\ taken' = NoReply
    /\ call' = [r \in Req |-> IF call[r].pc \in {"writing", "waiting"}
                              THEN [call[r] EXCEPT !.pc = "failed"] ELSE call[r]]
    /\ link' = Broken({epoch})
    /\ UNCHANGED <<got, pushed, server, owner, up, down, sent>>

ServerRestart ==
    /\ link' = Broken(1..MaxEpochs)
    /\ serving' = [k \in Conn |-> "none"]
    /\ at' = [k \in Conn |-> NoMessage]
    /\ sconn' = 0
    /\ UNCHANGED <<client, fed, owner, up, down, sent>>

Next ==
    \/ Connected \/ DialFails \/ SendRound \/ ClientRead \/ HandReply \/ ClientReadError \/ Receive
    \/ ServerSendRound \/ Push \/ ClientRestart \/ ServerRestart
    \/ \E k \in Conn : Accept(k) \/ Break(k) \/ ServerRead(k) \/ Respond(k) \/ ServerError(k)
    \/ \E r \in Req : Register(r) \/ Write(r) \/ WriteFails(r) \/ Return(r) \/ Cancel(r)

Spec == Init /\ [][Next]_vars

\* The goroutines that reconnect and read go on; nothing is assumed of the
\* server's handlers, which may block for ever.
Fairness ==
    /\ WF_vars(Connected) /\ WF_vars(DialFails) /\ WF_vars(ClientReadError) /\ WF_vars(HandReply)
    /\ WF_vars(\E k \in Conn : Accept(k))

FairSpec == Spec /\ Fairness

-----------------------------------------------------------------------------

Live(r) == call[r].pc \in {"writing", "waiting"} /\ call[r].answer = None /\ taken.to # r

Increasing(s) == \A i, j \in 1..Len(s) : i < j => s[i] < s[j]

MessageType == [type : {"none", "request", "reply", "round", "push"}, id : Nat,
                of : Req \cup {None}, n : Nat]
CallType == [pc : {"new", "writing", "waiting", "answered", "failed"}, id : Nat, epoch : Nat,
             conn : Conn \cup {0}, answer : Req \cup {None}]

\* The client's and the server's fields have their types, every queue holds
\* messages of the wire format, and the channel of rounds (client.go:53) never
\* holds more than its capacity.
TTypeOK ==
    /\ link \in [Conn -> {"unused", "open", "broken", "closed"}]
    /\ owner \in [Conn -> Nat]
    /\ up \in [Conn -> Seq(MessageType)] /\ down \in [Conn -> Seq(MessageType)]
    /\ epoch \in Nat /\ seq \in Nat
    /\ cconn \in Conn \cup {0} /\ reader \in Conn \cup {0} /\ dial \in Conn \cup {0}
    /\ pending \in SUBSET (Nat \X Req)
    /\ call \in [Req -> CallType]
    /\ taken \in [to : Req \cup {None}, of : Req \cup {None}]
    /\ inCh \in 0..InCap
    /\ sconn \in Conn \cup {0}
    /\ serving \in [Conn -> {"none", "idle", "busy"}]
    /\ at \in [Conn -> MessageType]
    /\ got \in Seq(Nat) /\ fed \in Seq(Nat)
    /\ sent \in [up : Nat, down : Nat, push : Nat]
    /\ pushed \in Nat

\* A caller of Client.Request never gets the answer to another request
\* (client.go:138-150, server.go:190-193), although ids start at 1 again in
\* every incarnation of the client and a handler may still work on a request
\* of the incarnation before when it answers.
ReplyIsOwn ==
    \A r \in Req : call[r].answer # None => call[r].answer = r

\* Client.pending holds exactly the requests that still wait (client.go:213-237):
\* one that failed, was cancelled or was answered leaves no channel behind, and
\* every one that waits can be found, under an id no other request has. And the
\* channel a reply was taken for is empty (client.go:160), so that no order of
\* replies, cancelled calls and restarts makes the read loop block.
PendingIsLive ==
    /\ \A p \in pending : Live(p[2]) /\ call[p[2]].id = p[1]
    /\ \A r \in Req : Live(r) => <<call[r].id, r>> \in pending
    /\ \A p, q \in pending : p[1] = q[1] => p = q
    /\ taken # NoReply => call[taken.to].answer = None

\* The rounds reach the client's channel in the order the server sent them,
\* over every change of connection (client.go:117-176): the next connection is
\* only dialled once the read loop of the one before has ended.
RoundsInOrder == Increasing(got)

\* A client without a connection gets one again, whatever the server's
\* handlers of earlier connections do (client.go:68-115, server.go:135-141),
\* until the bound on connections is reached.
ClientComesBack ==
    (reader = 0) ~> (reader # 0 \/ \A k \in Conn : link[k] # "unused")

\* The rounds reach the server's session in the order the client sent them.
ServerRoundsInOrder == Increasing(fed)
=============================================================================

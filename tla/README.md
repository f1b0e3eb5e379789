# TLA+ verification of crypto-claw

crypto-claw signs blockchain transactions with a 2-of-2 threshold signature.
**Party A** runs next to the bot, offers an HTTP API, builds transactions and
assembles the signed ones. **Party B** runs on a separate server, reviews every
request (analyzer, whitelist, the owner in a Telegram chat) and takes part in
the signature only for what was approved. An **installer** deals the key shares
and sets both up. This directory holds TLA+ modules of these programs, the TLC
configurations that check them, and TLAPS proofs.

## 1. Inventory

| Component | State | Operations | Meets |
|---|---|---|---|
| Party B service (`internal/partyb/service.go`) | maps `pending`, `reqCache`, `signReady`; `activeRouter`; one goroutine per escalation and per session | HandleSignRequest, escalate, startSigning, sign, HandleSignReady, HandleTSSRound, HandleDeriveRequest, GetTxStatus, the two bot callbacks | store, bot, transport, TSS |
| Telegram bot (`internal/partyb/telegram`) | `autoMode`; one update loop | handleCallback, NotifyForReview, SetAutoMode | calls back into the service, from its own goroutine |
| Analyzer (`internal/partyb/analyzer`) | none | Analyze: decode, compare signable bytes, whitelist, rules, LLM | store, VM adapters, LLM |
| Store (`internal/store`) | tables transactions, whitelist, derived_keys, master_shares; one per party | SaveTx, UpdateTxStatus, DeleteTx, AddWhitelistEntry, SaveMasterShare, ClearDerivedKeys, ... | both services, the installer |
| Party A service (`internal/partya`) | `EscalationQueue`, message counter | Derive, Sign, runTSSSigning, HandleSignApproved, GetSignStatus | transport, store, TSS |
| Transport (`internal/transport`) | client: connection, id counter, pending requests, `incomingCh`; server: current connection, one goroutine per connection | Request, SendMessage, readLoop, connectWithRetry, acceptLoop, handleConn | everything between the parties |
| TSS (`internal/tss`) | a session's rounds | Sign, Deal, DeriveKey, DKG, Reshare | tss-lib, a message router |
| VM adapters (`internal/vm`) | registry by coin type | BuildUnsignedTx, DecodeTx, ExtractSignableBytes, AssembleSignedTx | chains' encodings |
| Solana's Anchor calls (`internal/vm/solana/anchor.go`, `idl.go`) | IDL cache, store of created accounts, both global | fetch an IDL, resolve accounts, serialise arguments | RPC node, concurrent handlers |
| Installer (`cmd/installer`, `installer/ui`) | `WizardState` under one mutex, two background jobs, prime generation, log stream | wizard handlers, install and update steps, dealing and importing shares | docker, SSH, the parties' databases |

What is hard here, and why tests hardly reach it:

* **Goroutines of one transaction.** The request handler, the bot's loop, the
  escalation goroutine with its timer and the signing goroutine share three
  maps, two channels and one table row, each map under a mutex of its own.
* **Sessions of several transactions.** Round messages carry no session id:
  both sides have one channel for all of them.
* **Push and pull.** Party B pushes an approval while Party A may still be
  recording the request; polls ask Party B while Party A signs.
* **Connections.** A new connection replaces the old one while the old
  goroutine may be in a handler; ids start again in a new process.
* **Two views of one transaction.** Party A builds it from the request, Party B
  decodes it and compares, with different parsers and notations per chain.
* **Shared caches.** Concurrent handlers build from the same IDL object.
* **Jobs beside a wizard.** The install reads settings the user may edit, over
  machines on which an earlier install may be running.
* **Failures.** Store errors are logged and ignored; a restart loses every
  goroutine and the queue but not the tables; a reconnect loses messages.

The properties that make the components correct: Party B commits only to what
the owner or the policy let through; a rejection is final; the status column
moves along a fixed lifecycle although every write is unconditional; nothing is
leaked or waited on for ever; what Party A tells its clients agrees with Party
B's record; a reply reaches its own request; what is signed is what was
reviewed; an install that ends well left shares that fit together. The hazards,
with the line where each bites and the properties aimed at it, are in
`PROJECT.json`.

## 2. Modules

| Module | Contents |
|---|---|
| `TxLifecycle` | Abstract specification of a transaction's status |
| `PartyB` | Party B with its bot and store, open to any Party A |
| `PartyBProofs` | Theorems about `PartyB` |
| `PartyA` | Party A's actions; messages are left to `Signing` |
| `Signing` | Both parties joined by the connection |
| `SigningProofs` | Theorems about `Signing`, and with it `PartyA` |
| `Transport` | Client and server of the connection itself |
| `TransportProofs` | Theorems about `Transport` |
| `Pipeline` | The content of a request: adapters, analyzer, whitelist, blockhash |
| `PipelineProofs` | Theorems about `Pipeline` |
| `Anchor` | Calls of Solana programs: IDL cache, account resolution, arguments |
| `AnchorProofs` | Theorems about `Anchor` |
| `Installer` | Wizard, jobs, and what they leave on the machines |
| `InstallerProofs` | Theorems about `Installer` |
| `MCPartyB`, `MCSigning`, `MCPipeline`, `MCAnchor`, `MCInstaller` | Instances for TLC |

The signing path is seen from three sides that the code keeps apart: who may
do what and when (`PartyB`, `PartyA`, `Signing`), how a message gets across
(`Transport`) and what is in it (`Pipeline`, `Anchor`). Each takes from the
others only what its own code relies on: `Signing` has wires that keep order
and lose their content when they break, which `Transport` examines; `PartyB`
takes the analyzer's outcome as a free choice, which `Pipeline` computes.

### PartyB

A transaction is the id HandleSignRequest gives it. Every handler invocation
and goroutine has a program counter per transaction (`handler`, `esc`, `sess`);
a step is what the code does between two points where another goroutine can
run: a channel operation, a map access under its mutex, a store or network
call. The correspondence:

| Code | Model |
|---|---|
| row of `transactions` | `status[t]` ("none": no row), `signedTx[t]` |
| `pending`, `reqCache`, `signReady` | sets of ids with an entry |
| decision channel, capacity 1 | `decisionCh[t]`: empty, yes, no |
| SignReady channel, capacity 1 | `readyCh[t]` |
| `ServerRouter.inCh` | `inbox[t]`, at most `RouterCap` |
| `FeedMessage` calls that have read their router and not yet sent | `feeding` |
| `HandleSignReady` calls that have found their channel and not yet sent | `handing`; with `feeding` at most `MaxFeeds`, one per read loop |
| `activeRouter` | the id of the session it belongs to, or None |
| the bot's loop | `botPc`, `botTx`, `botYes`: one press at a time |
| `updateTxStatus` | `WriteStatus`: both columns, missing rows and errors ignored |
| a call of Telegram under way | `handler[t]` is "asking" or "telling"; the owner may see the message as soon as it is made |

`pressed`, `presses`, `verdict` and `newest` are history variables: they record
what the owner pressed, the first decision delivered to an escalation and the
last session started, and no action of the code reads them (`presses` bounds
the owner). What Party A sends, what the owner presses, the analyzer's outcome
and every error are free choices, so what holds of `PartyB` holds for every
Party A. The analyzer is reduced to its effect on routing: a hard reject, or a
pass with or without a whitelisted recipient. A TSS session is the exchange of
`Rounds` messages per side about the same bytes; a message of another session
or about other bytes makes tss-lib err or wait, both are allowed.

### PartyA and Signing

`PartyA` models Derive, Sign with its three outcomes, runTSSSigning for both of
its callers, the push handler, the escalation queue, the table and
GetSignStatus, with `answers` and `handed` recording what HTTP clients got. A poll
of the table reads the row and deletes it in two steps, and a delete that fails
is ignored. The data of a result is what the properties tell apart: no signedTx, the assembled
transaction, or the signature JSON that Party B stores.

`Signing` extends it, instantiates `PartyB` and adds two FIFO wires. Party B's
read loop takes one message at a time and is busy (`serving`) during
HandleSignRequest, FeedMessage and the send of HandleSignReady; a derive or
status request that fails is answered with an error. Party A's read loop
dispatches. `Break` loses
what is on the wires and the answer of the running handler; a restart of a
party breaks the connection too.

### Transport

Every connection ever made has a number, two queues and a state. The client's
`cconn`, `reader` and `dial` are the fields and goroutines of `Client`: the
connection that writers use, the one its read loop reads, the one being set up.
`call[r]` follows one `Client.Request` through registration in `pending`, the
write, the wait and the return; `Cancel` is its context. The read loop takes a
reply's entry out of `pending` and sends into the channel it found there in two
steps (`taken`, `HandReply`). At the server
`sconn` is the connection `Send` uses and `serving[k]` the goroutine of
connection k, which goes on after the connection was replaced. A restart of
the client starts a new `epoch` with ids from 1. TCP is external: in order
until it breaks, and what was sent before may or may not still be read.
`answer`, `got`, `fed` and `pushed` are the histories the properties look at.

### Pipeline

One record per request goes through handleSign's checks, the adapter of its
chain, Party B's decoder, the analyzer, the routing, the owner, the fresh
blockhash and the assembly; requests interleave with each other, with presses
that grow the whitelist, with mode switches and with new blocks. Data is kept
as far as the code tells it apart:

| Code | Model |
|---|---|
| an amount's text | empty, a number, no number, a number followed by text, a number with leading zeros |
| limits of int64, uint64 and 100e18 | constants `MaxInt64`, `MaxUint64`, `Threshold`, of which `LimitAssumption` says only their order: TLC gives them three small numbers, the theorems hold for the real ones |
| an address | a text that stands for an account: as the decoder prints it, bare hex without 0x, or another text in which `HexToAddress` finds that account's bytes ("odd": too short, too long, hex only in front) |
| `strings.ToLower` | texts of one EVM or Cosmos account are one text; on Solana `Twins` are accounts whose texts differ in case only, and lower-casing makes them `Folded` |
| what Party B can read of a request | `carried`: everything, no transaction, no claimed bytes, or bytes of another transaction |
| the keypair an Anchor call makes up | `NewKey(i)`, another one for each request |
| a token account | `AtaOf(owner)` |
| gas price, chain id, fee, mint and instruction fields | `params`: all parse or not |
| digest or message to be signed | a term over what it covers: on Cosmos not the fields the envelope shows to Party B |
| the LLM | an error or any classification |

### Anchor

Each call is a handler goroutine: look up the cache, fetch, publish in the
cache (`LookupIDL`, `FetchIDL`, `PublishIDL`), look the method up (`Prepare`),
resolve the accounts in four passes, one account at a time (`Resolve`, with
`at` counting the visits), serialise the arguments and append them word by
word, store the accounts it creates, serialise the message (the bytes to sign) and
then the transaction, which serialises the message once more. Addresses are
terms over what they are derived from. `spare` is the array behind a
discriminator that sha256 returned, which is every one of the old format and
one that a new IDL leaves out: Go's `append` writes there when it has room,
which is where two handlers meet.

### Installer

A handler's critical section under `WizardState.mu` is one step. A job is at a
call it is to make (`job[w].at`: what it does, and for which party or curve),
and `Install`, `DeployLocal`, `DeployRemote`, `UpdateLocal` and `Launch` say
which call comes after which, in the code's order; an import (`imports[p]`) is
followed the same way. A failure is possible at each call of docker, SSH,
postgres or the file system, also where the code ignores the error or takes it
for something else (`SilentFail`): a failed clearing of derived keys, and a
share file that cannot be read, whose import is skipped (`ImportSkip`).
`published` is the port of Party B's container: the configured one remotely, a
fixed one (`LocalPort`) on this machine. `files`, `container`, `master` and `derived` are what is on the
machines, from an earlier install on; a running party derives keys from the
database meanwhile.
`stuck` says that the mutex is held by a goroutine that waits for it. A dealing
is a number, so that shares of two dealings of one mnemonic, which have the
same public key, are told apart.

## 3. Runs

| Run | Question | Bounds |
|---|---|---|
| `PartyB_sessions` | Do routing, maps and status survive overlapping sessions? | 2 transactions, 1 press, 1 round, router of capacity 1, 1 blocked read loop |
| `PartyB_failures` | Is every commitment authorised and every reject final, with failing store calls and restarts at any point? | 1 transaction, 3 presses |
| `PartyB_liveness` | Does everything that must end, end? | 1 transaction, 3 presses, fairness |
| `Signing_end_to_end` | Do Party A's answers agree with Party B's record, and was it authorised? | 1 transaction, 2 rounds, 2 polls, 1 break or restart, errors at Party A, none of Party B's store |
| `Signing_overlap` | What can stop Party B's read loop when sessions overlap? | 2 auto-approved transactions, router of capacity 1, sessions may fail, fairness |
| `Transport_connections` | Do replies, pending calls, rounds and the connection survive breaks, replacement and restarts? | 2 requests, 2 connections, 3 sends, 2 client processes, fairness |
| `Pipeline_content` | Does Party B's view agree with what Party A built, and what is signed with what was reviewed? | 2 requests at a time out of 91, 2 + 2 accounts, 1 new block |
| `Anchor_builds` | Do concurrent calls get their own arguments, accounts and signatures? | 2 calls, 2 methods, 15 published programs with every order of the accounts, room for 2 words |
| `Installer_jobs` | What does an install that ends well leave, over an earlier one? | 2 mnemonics, 3 edits, 1 install, local or remote, silent errors, 1 derived key, no log stream |
| `Installer_liveness` | Do jobs and the log stream end? | 1 install and 1 update at once with the log stream, 2 edits, errors, fairness |
| `Signing_lost_ready` | (violated) Is an approved transaction signed when nothing fails? | 1 transaction |
| `Installer_deadlock` | (violated) Does a deploy end? | 1 install, no errors |

Two transactions are the least that overlap, and the second one is also the
least that can be let through by the whitelisting of another; three presses
allow a decision, a contradicting one and a mode switch. A round more would
only repeat the exchange. Errors of Party B's store are off in
`Signing_end_to_end` to keep it small; the invariants hold with them too (1.9
million states), `PartyB_failures` has them, and the theorems cover both. Every
run has a bot (without one `escalate` refuses at once, which leaves nothing
more to interleave); the theorems hold for both values of `HasBot`.
`Signing` runs on one transaction except for
`Signing_overlap`; the free environment of `PartyB` already contains every
interleaving of several transactions at Party B. Two connections are an old one
and its replacement, and two client processes the least that reuse an id; the
theorems remove these bounds. In `Pipeline` a first request fills the whitelist
that the second one meets, and one block makes a blockhash stale. In `Anchor`
two calls share a cache entry or replace each other's, and the programs without
discriminators have a method whose arguments fit behind the hash and one whose
do not. In `Installer` the old
mnemonic and a new one tell stale shares and keys from fresh ones, the earlier
install is on both sites (a local install stops the parties before the import,
a remote one starts the new ones before it), and three edits are what an install needs (mnemonic and servers)
and one change while it runs.

**Fairness.** In `PartyB` and `Signing` `FairSpec` assumes weak fairness of
each goroutine's own steps (the Go scheduler runs what can run, timers fire),
of the bot's loop and of the read loops. That includes the calls that a request
makes of the store, the LLM and the ABI service, which have timeouts or are
local, and writes to the connection. Nothing is assumed of Telegram, whose HTTP
client has no timeout (`bot.go:35`), of the owner, of clients, of the other
party (in `PartyB`) or of errors. `RequestIsAnswered` therefore says that
nothing but a call of Telegram keeps a request, and `ReviewIsDecided` has
`TelegramAnswers`, that those calls return, as its premise: the timer of a
review is only started after one. In `Transport` the client's reconnecting
goroutine, its read loop's error and its sending of a reply (`HandReply`) and
the server's accept loop are fair: handlers may block for ever. In `Installer`
the two jobs, the prime generation and the log stream's ticker are fair.
"approved" need not be left: tss.Sign has no deadline, so a session whose peer
falls silent lasts for ever. `TxLifecycle!Decides` therefore promises only that
a review is decided.

Deadlock is checked in the `PartyB` runs, whose environment never stops, and in
`Pipeline`, where the owner can always switch the mode. In the other runs the
work is finite and the system may stop, so it is not.

Remarks on single properties:

* `WireDrainsUnlessHeld` names the two things that stop Party B's read loop: a
  call of Telegram that does not return, and a router that is full when its
  session ends, from which nobody receives any more. Both occur in
  `Signing_overlap` (without either exception TLC finds a violation), so the
  property says that there is no third.
* `RequestIsAnswered` and `RejectReplyIsFinal` meet in a notification that
  fails after the owner saw it: the reply is reject, and the buttons decide
  nothing.
* `SignedIsOnRecord` and `RejectedIsNeverSigned` are stated for an
  `Undisturbed` transaction: no other run of Party A's, and a library that does
  not err at Party B. With two sessions a misrouted round can fail Party B's
  side after Party A has finished, and the record then says rejected.
  `SignedIsAuthorised` needs no such condition.
* `SharesFit` is about the curves of which no import was skipped.
* `PartiesCanConnect` is about installs during which the servers were not
  edited: an edit in between does leave configurations that do not connect
  (drop `~touched` and TLC shows it). On this machine Party B's container
  publishes 9000 whatever the configured port is, so there the property asks
  for a published port only if 9000 is configured.
* `StaleOnlyIfRaced` excepts, besides a party that was up during the import, a
  clearing whose error nobody looks at (`SilentFail`).
* `WhitelistTakesEffect` is about presses that stored an address (a press may
  come before the request is cached, an insert may fail) and excepts Anchor
  calls with a signer of their own: the first account after the payer is then a
  fresh key, and the same call is never recognised.
* `AutoApprovedIsWhitelisted` is about simple transfers: of a redelegation
  Party B decodes, shows and whitelists the source validator only, and of a
  Solana call with several accounts the first after the payer. On Solana the
  recipient may be one that nobody whitelisted but whose address differs from a
  whitelisted one in case only. A transaction that Party B cannot decode is
  judged by the fields Party A claims, and is not covered.
* `MalformedStoppedOrShown` excepts the same undecodable transactions. The
  analyzer rejects an amount with text behind it and the zero address; a short
  or partly-hex EVM address becomes a non-zero one, which the review shows as a
  mismatch.
* `MismatchIsReal` names the honest requests for which the review does show a
  mismatch: token transfers and program calls on Solana, whose decoded
  recipient is an account of another kind, and an EVM address without 0x or an
  EVM amount with leading zeros, because the fields are compared as texts.
* `MixedOnlyIfShared` also covers `UnsignedTx.Hash`, the first of the two
  serialisations. Party A never reads it: `service.go:204` and `:310` extract
  the bytes to sign from the serialised transaction.
* `JobsEnd` and `StreamEnds` except the locked wizard of `Installer_deadlock`,
  so that they say something about everything else, and `StreamEnds` a deploy
  request that is refused for want of a mnemonic after it has reset the flag
  the stream waits for.

### Where the code does not do what is written

Two runs expect a violation; `findings` in `PROJECT.json` quotes the lines.

* `Signing_lost_ready`: Party B pushes the approval before it registers the
  channel for Party A's SignReady, which is then acknowledged and dropped.
  `Punctual` restricts the 30 s timer to fire only when nothing is under way
  that could still bring the bytes, so the counterexample is the race and not a
  slow network.
* `Installer_deadlock`: an install that starts before the safe primes are ready
  logs with the mutex held that logging takes.

Further statements are kept as definitions that no configuration lists. Adding
one to the configuration named here shows the behaviour:

| Definition | Configuration | Statement | What happens |
|---|---|---|---|
| `DecisionIsRouted` | `PartyB_failures` | "Route decision back to the service." (`internal/partyb/telegram/handlers.go:91`) | A press between notification and registration is dropped. |
| `UnansweredIsRejected` | `PartyB_liveness` with `MayRestart = TRUE` | "if the user doesn't respond via Telegram within the configured timeout (default 5 minutes), the transaction is rejected" (`BOT.md:421`) | A review interrupted by a restart stays pending_review. |
| `OneTimeRetrieval` | `Signing_end_to_end` | "Subsequent requests for the same `txId` will return 404." (`BOT.md:240`) | A signed transaction is handed out from the queue and again from the table. |
| `SignedTxIsTransaction` | `Signing_end_to_end` | "signedTx contains the signed transaction bytes" (`internal/partya/api.go:516`) | A poll can return Party B's signature JSON. |
| `WireDrains` | `Signing_overlap` | "FeedMessage pushes an incoming TSS message from Party A into the router." (`internal/transport/server.go:43`) | The read loop stays in FeedMessage when the router is full and its session ended. |
| `ServerRoundsInOrder` | `Transport_connections` | "in-order message delivery" (`README.md:267`) | The handler of a replaced connection feeds its round after those of the new one. |
| `DerivedMatchesMaster` | `Installer_jobs` | "If master keys change, all derived keys are cleared to prevent address mismatches." (`cmd/installer/deploy.go:629`) | A running party saves a key of the old master after the clearing. |
| `SharesAlwaysFit` | `Installer_jobs` | "file doesn't exist, skip" (`cmd/installer/deploy.go:643`) | Every error of the read skips the import, and the install ends well with an old or no share. |
| `LocalPortIsPublished` | `Installer_jobs` | "Party A connects to Party B via host network." (`cmd/installer/deploy.go:513`) | Party A dials the configured port, 443 by default, and the container publishes 9000. |
| `CarriesOwnArgs` | `Anchor_builds` | arguments are appended to the discriminator (`internal/vm/solana/anchor.go:178`) | Two concurrent calls of an instruction whose discriminator is computed append into one array; `MixedOnlyIfShared` says that this is the only way. |

Also met, and part of the model, but without a text that says what is right:
polls may return "approved" (`api.go:515` lists other statuses); several
sessions run at once although a comment speaks of one (`service.go:54`); a
whitelisting press just before the request is cached approves without
whitelisting (`service.go:407`); saving an LLM after having skipped it leaves
AI disabled (`handlers.go:557`); a token account's owner falls back to the
signer when the account it is named after comes later in the IDL
(`anchor.go:568`).

## 4. Proofs

`PartyBProofs` proves, for any sets of transactions, addresses, paths and
bytes, any whitelist and bounds, and with `StoreMayFail` and `MayRestart`
either way:

| Theorem | States |
|---|---|
| `TypeCorrect` | `TypeOK` |
| `Inductive` | the inductive invariant `IndInv` |
| `CommitsAreAuthorised` | `Authorised` |
| `RejectIsFinal` | `RejectReplyIsFinal` |
| `MapsMatch` | `MapsMatchGoroutines` |
| `RouterCorrect` | `RouterServesNewest` |
| `ImplementsLifecycle` | `PartyB` implements `TxLifecycle!Spec` |

The only assumption is `PartyBAssumption`, the types of the constants.

`Authorised` is not inductive: it says nothing about a decision that lies in a
channel or about a handler between analysis and reply. `IndInv` adds, per
transaction, what each program counter implies about the others and about the
row (`RequestInv`, `EscalationInv`, `SessionInv`) and, for the bot, that only
buttons that were shown are pressed and only pressed buttons act (`PressInv`).
Its key conjunct is that while an escalation waits, its channel holds exactly
the first decision delivered (`verdict`). The set `Approved` is what the row
may say while a decision to sign is carried out; "pending_review" is in it only
if writes may be lost, which is also where `TxLifecycle!Sign` allows
"approved" to be skipped. The refinement maps the status column to itself: each
write is a legal move because of what `IndInv` says of the row before it.
`RouterServesNewest` is inductive together with `TypeOK`.

`TransportProofs` proves, for any requests and any bounds on connections,
messages, processes and the channel's capacity:

| Theorem | States |
|---|---|
| `TransportTypeCorrect` | `TTypeOK` |
| `TransportInductive` | the inductive invariant `TTypeOK /\ TIndInv /\ OrderInv` |
| `RepliesAreOwn` | `ReplyIsOwn` |
| `PendingMatchesCalls` | `PendingIsLive` |
| `RoundsAreInOrder` | `RoundsInOrder` |

Its assumptions are `BoundAssumption` and `NoneAssumption`. `ReplyIsOwn` needs
to know where a reply can come from: a message belongs to a call made on the
connection it travels on (`WireInv`), the client only reads connections that
its own process dialled (`ConnInv`), and ids are unique within a process, to
which a call on a connection therefore belongs (`CallInv`). So a reply with a
reused id is on a connection that the new process never reads. `TableInv` ties
`pending` and the reply that is being handed over to the calls. `OrderInv` says that the rounds on the
connection being read or dialled are newer than all received ones; it holds
because the client dials only after its read loop has ended and never returns
to an older connection.

`SigningProofs` proves, for any sets of transactions, addresses, paths and
bytes, any number of rounds, polls, breaks and presses, any capacities, and
with every kind of failure either way:

| Theorem | States |
|---|---|
| `SigningInductive` | the inductive invariant `Inv` |
| `PartyBInside` | `Signing` implements `PartyB!Spec`, so the theorems of `PartyBProofs` hold of the whole system |
| `PartyATypeCorrect` | `ATypeOK` |
| `SignedAuthorised` | `SignedIsAuthorised` |
| `SignedOnRecord` | `SignedIsOnRecord` |
| `RejectedNeverSigned` | `RejectedIsNeverSigned` |

The assumptions are `PartyAAssumption` and `SigningAssumption`, the types of
the constants. What a client was answered is two machines away from Party B's
decision, so the invariant follows the evidence. `MessageInv`: a reply on the
wire says what Party B decided and still holds when it arrives. `ByteInv`: every
byte string that Party B holds for a transaction is the one Party A signs, which
is why an undisturbed session cannot fail by a mismatch once rounds flow.
`EvidenceInv`: until Party B's session has sent a round, nothing at Party A, on
a wire or in a table says "signed" or can make it so; with
`CommitsAreAuthorised` this gives `SignedAuthorised`. `RejectInv`: a rejection
that a client was told is Party B's own, or that of a run that ended without a
result. Party B's steps inside `Signing` are shown to be steps of
`PartyB!Next` (`BSideIsPartyB`), so nothing about Party B is proved twice; what
`Signing` needs beyond `IndInv` is `RecordInv`, of `PartyBProofs`.

`PipelineProofs` proves, for any requests of `RequestType`, any addresses and
whitelist, and for the real limits of the chains' integers:

| Theorem | States |
|---|---|
| `PipelineInductive` | the inductive invariant `PInv` |
| `PipelineTypeCorrect` | `PipelineTypeOK` |
| `WhitelistEffective` | `WhitelistTakesEffect` |
| `AutoWhitelisted` | `AutoApprovedIsWhitelisted` |
| `MalformedStopped` | `MalformedStoppedOrShown` |
| `MismatchReal` | `MismatchIsReal` |
| `SignedFresh` | `SignedIsFresh` |

The assumptions are `HashAssumption`, `LimitAssumption`, `AccountAssumption`
(which accounts are different) and `RequestAssumption`.
Requests meet only in the whitelist, which grows, and the blockhash, which
grows, so `ReqInv` follows one request against these two. The weight is in the
lemmas about the adapters: `EvmForm`, `TendermintForm` and `SolanaForm` say what
Party B decodes from what Party A built, `OneRecipient` that for each chain this
is one address, a function of the request (`Recipient`), `ChecksReject` that the
analyzer's checks stop what is not `WellFormed`, and `MismatchDiffers` that the
comparison of texts fails only for the requests listed in `Differs`.

`AnchorProofs` proves, for any calls, any published IDLs and any room behind a
discriminator:

| Theorem | States |
|---|---|
| `AnchorInductive` | the inductive invariant `AInv` |
| `AnchorTypeCorrect` | `AnchorTypeOK` |
| `MixedShared` | `MixedOnlyIfShared` |
| `SeedsFinal` | `PdaSeedsFinal` |
| `SlotsAllFilled` | `SlotsFilled` |

The assumptions are `SpareAssumption` and `ChainAssumption`: within an
instruction accounts have different names, as Anchor's compiler makes them, and
a well-known program does not sign. `ArrayInv` is about the array two handlers
share: as long as no rival has written behind the same discriminator, the first
words there are the handler's own arguments. `ResolvedInv` says of each
resolved account where its address came from; the seeds of a derived address
are final because a later visit never changes an address that is there. Both
must hold at every visit of the four passes, hence the lemma `VisitedInv`.

`InstallerProofs` proves, for any mnemonics, hosts and ports, any earlier
installs, any number of edits, installs, updates and derived keys, and with
failing tools, silent or not:

| Theorem | States |
|---|---|
| `InstallerInductive` | the inductive invariant `IInv` |
| `InstallerTypeCorrect` | `ITypeOK` |
| `SharesFitProved` | `SharesFit` |
| `CanConnect` | `PartiesCanConnect` |
| `StaleRaced` | `StaleOnlyIfRaced` |

The assumption is `InstallerAssumption`: types, and names that are different.
The properties speak of an install that has ended; `Facts(at)` says what must
hold when it is about to make the call `at`: the wizard's shares are of the last
dealing (`KeyFacts`), the job is on the site its mode asks for (`SiteFacts`),
which share files, configurations and imports are already in place (`FileFacts`,
`ConfFacts`, `ImportFacts`). The lemma `Forward` says that a call that changes
nothing else only has to hand its facts to the next one. The rest of `IInv`
holds at all times: `OutcomeInv` keeps what the last good install left against
the later ones, and `StaleInv` says of every party, unless it was up during an
import, that its derived keys are of its master key or, between clearing and
saving, will be (`Replaced`).

What stays with TLC: the liveness properties under fairness (`ReviewIsDecided`,
`RequestIsAnswered`, `ReadyWaitEnds`, `BotStuckOnlyOnEnded`, `WireDrainsUnlessHeld`,
`JobsEnd`, `StreamEnds`, `ClientComesBack`), which are out of the prover's
reach, and the two violations, which need a trace. Every other property of a
passing run is stated by a theorem. The inductive invariants are also
invariants that TLC can check: add `SigningProofs` to `MCSigning`'s EXTENDS and
`Inv` to `Signing_end_to_end.cfg`, and so on. No module uses a RECURSIVE operator.

## 5. Not modelled

* Cryptography: tss-lib's rounds, sharing, key derivation from the mnemonic
  (`mnemonic.go`, `ed25519_sign.go`, `internal/tss/derivation.go`). They are
  arithmetic on large numbers without shared state, and test vectors cover them.
  DKG and resharing are run by no command.
* Byte encodings of chains, address formats, certificates and the frame's
  length prefix: without state; the models use terms.
* Handlers that only read (health, list of keys, API documents, wizard status),
  label updates, sweeping of funds and exports, tests of credentials.
* The decoding of calldata and the wording of summaries, prompts and
  notifications: they do not reach the decision.
* Loading of configuration, the UI, contracts and scripts.

Worth adding: a composition of `Transport` with `Signing`, so that the wires'
order and loss are a theorem and not a part of the model; and more of what only
reads or writes single rows at Party A.

------------------------------- MODULE Anchor -------------------------------
(***************************************************************************)
(* Party A builds Solana transactions for calls of an Anchor program       *)
(* (internal/vm/solana/anchor.go, idl.go and the Solana adapter).  Every   *)
(* POST /sign handler is a goroutine; the handlers share the IDL cache and *)
(* the store of accounts created by earlier calls.  One program is         *)
(* modelled: both tables are keyed by the program, so programs do not meet.*)
(*                                                                         *)
(* An address is the term it is derived from: <<"pda", program, seeds>>,   *)
(* <<"ata", owner, token program>>, ...  FindProgramAddress (external) is  *)
(* injective and fails only for a seed of more than 32 bytes, that is for  *)
(* an account with a long name.                                            *)
(***************************************************************************)
EXTENDS Naturals, Sequences, FiniteSets, Functions

CONSTANTS Call,     \* the requests: one handler each
          Chain,    \* what the chain may hold: functions from the IDL
                    \* accounts in use ("metadata", "legacy") to IDLs
          Word,     \* values of an argument; an argument takes one word
          Spare,    \* words behind the discriminator in sha256's array
          NoWord

ASSUME SpareAssumption == Spare \in Nat

VARIABLES chain,    \* the published IDLs, [DOMAIN -> IDL]
          cache,    \* idlCache: the IDL objects, <<>> or <<object>>
          spare,    \* per object and method, the array behind the discriminator
          stored,   \* programAccounts, for each (mint, name)
          call      \* the handlers' local variables

vars == <<chain, cache, spare, stored, call>>

(***************************************************************************)
(* An IDL maps a method to its instruction: the accounts, the number of    *)
(* words, the bump argument it asks for ("" if none, "any" for one that is *)
(* just called bump) and whether its discriminator is its own, that is     *)
(* read from the IDL; the old format has none, and in the new one it may   *)
(* be missing.  An IDL object is its source and the call that fetched it:  *)
(* two fetches parse two objects.                                          *)
(***************************************************************************)
Object == [source : {"metadata", "legacy"}, by : Call]
IdlOf(o) == chain[o.source]

\* Within an instruction accounts have different names, and a program does not
\* sign: it has no private key.
KnownPrograms == {"system_program", "token_program", "rent"}
InstructionShape(ix) ==
    /\ ix.accounts \in Seq(Range(ix.accounts)) /\ ix.words \in Nat /\ ix.own \in BOOLEAN
    /\ \A a, b \in Range(ix.accounts) : a.name = b.name => a = b
    /\ \A a \in Range(ix.accounts) : a.name \in KnownPrograms => ~a.signer
ASSUME ChainAssumption ==
    \A ch \in Chain :
        /\ DOMAIN ch \subseteq {"metadata", "legacy"}
        /\ \A s \in DOMAIN ch : \A m \in DOMAIN ch[s] : InstructionShape(ch[s][m])

IxDef(c) == IdlOf(call[c].idl)[call[c].method]

\* The methods of all the IDLs: the discriminators' arrays are per method.
Method == UNION {UNION {DOMAIN ch[s] : s \in DOMAIN ch} : ch \in Chain}

\* A handler's variables; at counts the accounts visited in the passes.
Idle == [pc |-> "idle", method |-> "", mint |-> FALSE, args |-> <<>>, idl |-> <<>>,
         accounts |-> <<>>, at |-> 0, extra |-> {}, written |-> 0, hash |-> <<>>,
         data |-> <<>>, signed |-> {}]

Init ==
    /\ chain \in Chain
    /\ cache = <<>>
    /\ spare = [k \in Object \X Method |-> [i \in 1..Spare |-> NoWord]]
    /\ stored = <<>>
    /\ call = [c \in Call |-> Idle]

(***************************************************************************)
(* Account resolution.                                                     *)
(***************************************************************************)
Signer == <<"signer">>
Mint == <<"mint">>
Fixed(name) == <<"fixed", name>>
Known(name) == <<"known", name>>
Lit(s) == <<"literal", s>>
Pda(program, seeds) == <<"pda", program, seeds>>
Ata(owner, tokenProgram) == <<"ata", owner, tokenProgram>>
Fresh(c, name) == <<"fresh", c, name>>
This == <<"program">>
Unresolved == <<"unresolved">>

TokenProgramID == Known("token_program")

\* A signer account that is not the payer, not a PDA and not probably one.
IsProbablyPDA(acc) == ~acc.long
Ephemeral(ix) ==
    {acc.name : acc \in {a \in Range(ix.accounts) :
        a.signer /\ ~a.fixed /\ a.kind # "payer" /\ a.pda = <<>> /\ ~IsProbablyPDA(a)}}

\* A seed of this name is the request's mint, not an account.
MintNames == {"mint", "token_mint"}

\* One seed of an annotated PDA.  Here and below q is what the call was asked
\* and res the accounts that are resolved.
SeedValue(q, res, kind, ref) ==
    IF kind = "const" THEN Lit(ref)
    ELSE IF kind = "arg" THEN IF ref \in DOMAIN q.args THEN <<"arg", q.args[ref]>> ELSE Unresolved
    ELSE IF ref \in MintNames THEN IF q.mint THEN Mint ELSE Unresolved
    ELSE IF ref \in DOMAIN res THEN res[ref]
    ELSE IF ref \in KnownPrograms THEN Known(ref) ELSE Unresolved

Seeds(q, acc, res) ==
    [i \in DOMAIN acc.pda |-> SeedValue(q, res, acc.pda[i][1], acc.pda[i][2])]
PdaProgram(acc, res) ==
    IF acc.program \in DOMAIN res THEN res[acc.program]
    ELSE IF acc.program \in KnownPrograms THEN Known(acc.program) ELSE This

DerivePDADefault(q, acc, res) ==
    Pda(This, [i \in DOMAIN acc.pda |->
                 LET v == Seeds(q, acc, res)[i] IN IF v = Unresolved THEN Signer ELSE v])
DerivePDA(q, acc, res) ==
    IF Unresolved \in Range(Seeds(q, acc, res)) THEN Unresolved
    ELSE Pda(PdaProgram(acc, res), Seeds(q, acc, res))

\* The prefix user, payer, authority or signer (base "") names the signer.
InferTokenOwner(acc, res) == IF acc.base \in DOMAIN res THEN res[acc.base] ELSE Signer

TokenProgramOf(q, res) ==
    IF "token_program" \in DOMAIN res THEN res["token_program"] ELSE q.detected

\* The strategies in the order the code tries them; an account that is looked
\* up was created by an earlier call.
ResolveOneAccount(q, acc, res) ==
    IF acc.fixed THEN Fixed(acc.name)
    ELSE IF acc.signer THEN Signer
    ELSE IF acc.name \in KnownPrograms THEN Known(acc.name)
    ELSE IF acc.kind = "mint" /\ q.mint THEN Mint
    ELSE IF acc.pda # <<>> THEN DerivePDA(q, acc, res)
    ELSE IF acc.kind = "token" /\ q.mint
         THEN Ata(InferTokenOwner(acc, res), TokenProgramOf(q, res))
    ELSE IF acc.kind = "authority" /\ acc.base \in DOMAIN res
         THEN Pda(This, <<Lit(acc.base), res[acc.base]>>)
    ELSE IF ~acc.long THEN Pda(This, <<Lit(acc.name), IF q.mint THEN Mint ELSE Signer>>)
    ELSE IF <<q.mint, acc.name>> \in DOMAIN q.stored THEN q.stored[<<q.mint, acc.name>>]
    ELSE Unresolved

Passes == 4

\* Ephemeral keys and fixed addresses come first.
FixedNames(ix) == {acc.name : acc \in {a \in Range(ix.accounts) : a.fixed}}
Prepared(c, ix) ==
    [n \in Ephemeral(ix) \cup FixedNames(ix) |->
        IF n \in Ephemeral(ix) THEN Fresh(c, n) ELSE Fixed(n)]

\* The accounts resolved once acc was visited: an error leaves it for the next
\* pass, and what is resolved stays.
Visited(q, acc, res) ==
    LET a == ResolveOneAccount(q, acc, res)
    IN  IF acc.name \in DOMAIN res \/ a = Unresolved THEN res
        ELSE [n \in DOMAIN res \cup {acc.name} |-> IF n \in DOMAIN res THEN res[n] ELSE a]

Names(ix) == {acc.name : acc \in Range(ix.accounts)}

\* The bumps a bump argument may be filled with; the generic one gets
\* whichever the iteration over the map yields first.
FindBump(ix, res) ==
    LET bumps == {n \in DOMAIN res : res[n][1] \in {"pda", "ata"}}
    IN  IF ix.bump = "any" THEN bumps ELSE bumps \cap {ix.bump}

(***************************************************************************)
(* Steps of a handler.                                                     *)
(***************************************************************************)
Set(c, record) == call' = [call EXCEPT ![c] = record]
Move(c, pc) == Set(c, [call[c] EXCEPT !.pc = pc])
Fail(c) == Set(c, [Idle EXCEPT !.pc = "failed"])

\* As many arguments as a published IDL asks for, or none.
Lengths == {0} \cup UNION {{chain[s][m].words : m \in DOMAIN chain[s]} : s \in DOMAIN chain}

\* POST /sign with a program, a method and its arguments.
HandleSign(c) ==
    /\ call[c].pc = "idle"
    /\ \E m \in Method, mint \in BOOLEAN, n \in Lengths : \E args \in [1..n -> Word] :
          Set(c, [Idle EXCEPT !.pc = "lookup", !.method = m, !.mint = mint, !.args = args])
    /\ UNCHANGED <<chain, cache, spare, stored>>

\* FetchIDL under the read lock.
LookupIDL(c) ==
    /\ call[c].pc = "lookup"
    /\ IF cache = <<>> THEN Move(c, "fetch")
       ELSE Set(c, [call[c] EXCEPT !.pc = "prepare", !.idl = cache[1]])
    /\ UNCHANGED <<chain, cache, spare, stored>>

\* The metadata account is tried first; any request may fail, so the legacy
\* account may answer although the program has both.  With no answer the
\* build fails.
FetchIDL(c) ==
    /\ call[c].pc = "fetch"
    /\ \/ \E s \in DOMAIN chain :
             Set(c, [call[c] EXCEPT !.pc = "publish", !.idl = [source |-> s, by |-> c]])
       \/ Fail(c)
    /\ UNCHANGED <<chain, cache, spare, stored>>

\* The fetched object replaces whatever another handler stored meanwhile.
PublishIDL(c) ==
    /\ call[c].pc = "publish"
    /\ cache' = <<call[c].idl>>
    /\ Move(c, "prepare")
    /\ UNCHANGED <<chain, spare, stored>>

\* The words the caller gives must be the instruction's, less a bump.
Missing(ix, args) == Len(args) < ix.words
Serialized(ix, args) == SubSeq(args, 1, ix.words)

\* BuildAnchorInstructions finds the instruction and makes the new keys.
Prepare(c) ==
    /\ call[c].pc = "prepare"
    /\ IF call[c].method \notin DOMAIN IdlOf(call[c].idl) THEN Fail(c)
       ELSE Set(c, [call[c] EXCEPT !.pc = "resolve", !.accounts = Prepared(c, IxDef(c)),
                                   !.extra = Ephemeral(IxDef(c))])
    /\ UNCHANGED <<chain, cache, spare, stored>>

Resolved(c) == Names(IxDef(c)) \subseteq DOMAIN call[c].accounts
LastVisit(c) == Passes * Len(IxDef(c).accounts)

\* One account in one of the passes; other handlers store accounts meanwhile,
\* and the RPC node may be asked about the mint's token program.
Resolve(c) ==
    /\ call[c].pc = "resolve" /\ ~Resolved(c) /\ call[c].at < LastVisit(c)
    /\ \E detected \in {TokenProgramID, Known("token_2022")} :
       LET ix == IxDef(c)
           q == [mint |-> call[c].mint, args |-> call[c].args,
                 detected |-> detected, stored |-> stored]
           acc == ix.accounts[(call[c].at % Len(ix.accounts)) + 1]
       IN  Set(c, [call[c] EXCEPT !.at = @ + 1, !.accounts = Visited(q, acc, @)])
    /\ UNCHANGED <<chain, cache, spare, stored>>

\* An account without an address after the last pass, or a missing argument, is
\* an error; a missing bump is filled in.
Serialize(c) ==
    /\ call[c].pc = "resolve" /\ (Resolved(c) \/ call[c].at = LastVisit(c))
    /\ LET ix == IxDef(c)
           res == call[c].accounts
           words == Serialized(ix, call[c].args)
           Merged(args) == Set(c, [call[c] EXCEPT !.pc = "append", !.at = 0, !.args = args])
       IN  IF ~Resolved(c) \/ Missing(ix, call[c].args) THEN Fail(c)
           ELSE \/ ix.bump = "" /\ Merged(words)
                \/ ix.bump # "" /\ \E n \in FindBump(ix, res) : Merged(Append(words, res[n]))
                \/ ix.bump # "" /\ FindBump(ix, res) = {} /\ Fail(c)
    /\ UNCHANGED <<chain, cache, spare, stored>>

\* The room append finds behind the discriminator: one that is computed by
\* anchorDiscriminator is a slice of a longer array, the hash; one that is read
\* from the IDL fills its own.
SpareOfAny(ix) == Spare
SpareOf(ix) == IF ix.own THEN 0 ELSE Spare
Shared(c) == Len(call[c].args) <= SpareOf(IxDef(c))

\* append(ixDef.Discriminator, argBytes...): in place when there is room, one
\* word at a time (nothing orders the handlers' accesses), else into a copy.
AppendArgs(c) ==
    /\ call[c].pc = "append"
    /\ LET n == call[c].written + 1 IN
       IF Shared(c) /\ n <= Len(call[c].args)
       THEN /\ spare' = [spare EXCEPT ![<<call[c].idl, call[c].method>>][n] = call[c].args[n]]
            /\ Set(c, [call[c] EXCEPT !.written = n])
       ELSE Move(c, "store") /\ UNCHANGED spare
    /\ UNCHANGED <<chain, cache, stored>>

\* The addresses of the new accounts are kept for later calls.
Keep(c, names) ==
    LET new == {<<call[c].mint, n>> : n \in names}
    IN  stored' = [k \in DOMAIN stored \cup new |->
                      IF k \in new THEN call[c].accounts[k[2]] ELSE stored[k]]
StoreAllAccounts(c) ==
    /\ call[c].pc = "store"
    /\ Keep(c, DOMAIN call[c].accounts) /\ Move(c, "marshal")
    /\ UNCHANGED <<chain, cache, spare>>
StoreProgramAccounts(c) ==
    /\ call[c].pc = "store"
    /\ Keep(c, call[c].extra) /\ Move(c, "marshal")
    /\ UNCHANGED <<chain, cache, spare>>

\* BuildUnsignedTx serialises the message, the bytes to sign, and then the whole
\* transaction, which serialises the message once more: only here the data is
\* copied, and another handler may write between the two.
Behind(c) == [i \in 1..Len(call[c].args) |-> spare[<<call[c].idl, call[c].method>>][i]]
Data(c) == IF Shared(c) THEN Behind(c) ELSE call[c].args
MarshalMessage(c) ==
    /\ call[c].pc = "marshal"
    /\ Set(c, [call[c] EXCEPT !.pc = "serialize", !.hash = Data(c)])
    /\ UNCHANGED <<chain, cache, spare, stored>>
MarshalTx(c) ==
    /\ call[c].pc = "serialize"
    /\ Set(c, [call[c] EXCEPT !.pc = "built", !.data = Data(c)])
    /\ UNCHANGED <<chain, cache, spare, stored>>

\* The signatures the message asks for: the payer's and one for each account
\* marked as a signer.
Required(c) ==
    {Signer} \cup {call[c].accounts[a.name] : a \in {x \in Range(IxDef(c).accounts) : x.signer}}

\* Party B agreed and the session ended: the payer's signature goes to slot
\* 0, the ephemeral keys sign theirs (AssembleSignedTxWithExtra).
AssembleFirst(c) ==
    /\ call[c].pc = "built"
    /\ Set(c, [call[c] EXCEPT !.pc = "signed", !.signed = {Signer}])
    /\ UNCHANGED <<chain, cache, spare, stored>>
Assemble(c) ==
    /\ call[c].pc = "built"
    /\ Set(c, [call[c] EXCEPT !.pc = "signed",
                  !.signed = {Signer} \cup
                             ({call[c].accounts[n] : n \in call[c].extra} \cap Required(c))])
    /\ UNCHANGED <<chain, cache, spare, stored>>

\* The process of Party A restarts: its handlers, its cache and the store of
\* accounts are gone.
Restart ==
    /\ \E c \in Call : call[c].pc \notin {"idle", "failed"}
    /\ call' = [c \in Call |-> IF call[c].pc \in {"idle", "signed"} THEN call[c]
                               ELSE [Idle EXCEPT !.pc = "failed", !.method = call[c].method,
                                                 !.idl = call[c].idl, !.written = call[c].written]]
    /\ cache' = <<>>
    /\ stored' = <<>>
    /\ UNCHANGED <<chain, spare>>

Step(c) ==
    \/ HandleSign(c) \/ LookupIDL(c) \/ FetchIDL(c) \/ PublishIDL(c) \/ Prepare(c)
    \/ Resolve(c) \/ Serialize(c) \/ AppendArgs(c) \/ StoreProgramAccounts(c)
    \/ MarshalMessage(c) \/ MarshalTx(c) \/ Assemble(c)

Next == Restart \/ \E c \in Call : Step(c)

Spec == Init /\ [][Next]_vars

(***************************************************************************)
(* Properties.                                                             *)
(***************************************************************************)
Built(c) == call[c].pc \in {"built", "signed"}

\* The state has its shape; a cached object is one some handler fetched.
AnchorTypeOK ==
    /\ chain \in Chain
    /\ cache = <<>> \/ (Len(cache) = 1 /\ cache[1] \in Object /\ cache[1].source \in DOMAIN chain)
    /\ \A k \in DOMAIN stored : stored[k] \in {Fresh(c, k[2]) : c \in Call}
    /\ \A c \in Call :
         /\ call[c].pc \in {"idle", "lookup", "fetch", "publish", "prepare", "resolve",
                            "append", "store", "marshal", "serialize", "built", "signed", "failed"}
         /\ call[c].written <= Spare
         /\ Built(c) => Len(call[c].hash) = Len(call[c].args) /\ Len(call[c].data) = Len(call[c].args)

\* What the comment on the serialisation says: a built transaction carries the
\* arguments of its own request (anchor.go, BuildAnchorInstructions).
CarriesOwnArgs == \A c \in Call : Built(c) => call[c].data = call[c].args

\* Where a built transaction, or the bytes to sign, carry other words than the
\* request's, another build used the same instruction of the same IDL object,
\* whose discriminator was computed by anchorDiscriminator, and the arguments
\* fit behind it: builds with a discriminator of the IDL's own, from different
\* objects or with longer arguments never mix (append in anchor.go).
MixedOnlyIfShared ==
    \A c \in Call : Built(c) /\ (call[c].data # call[c].args \/ call[c].hash # call[c].args) =>
        /\ ~IxDef(c).own
        /\ Len(call[c].args) <= Spare
        /\ \E d \in Call \ {c} :
              call[d].idl = call[c].idl /\ call[d].method = call[c].method /\ call[d].written > 0

\* An annotated PDA is derived from the addresses the instruction finally
\* carries, whatever the order of the accounts in the IDL: a seed that is not
\* resolved yet is an error that the next pass retries (derivePDA).
Annotated(c, acc) ==
    /\ acc.pda # <<>> /\ ~acc.signer /\ ~acc.fixed
    /\ acc.name \notin KnownPrograms /\ ~(acc.kind = "mint" /\ call[c].mint)
PdaSeedsFinal ==
    \A c \in Call : Built(c) => \A acc \in Range(IxDef(c).accounts) :
        Annotated(c, acc) => \A i \in DOMAIN acc.pda :
            LET ref == acc.pda[i][2] IN
            acc.pda[i][1] = "account" /\ ref \notin MintNames /\ ref \in DOMAIN call[c].accounts =>
                call[c].accounts[acc.name][3][i] = call[c].accounts[ref]

\* A signed transaction has every signature its message asks for, except for
\* signers at an address the IDL fixes (AssembleSignedTxWithExtra).
SlotsFilled ==
    \A c \in Call : call[c].pc = "signed" =>
        \A k \in Required(c) : k \in call[c].signed \/ k[1] = "fixed"
=============================================================================

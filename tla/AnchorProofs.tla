---------------------------- MODULE AnchorProofs ----------------------------
(***************************************************************************)
(* Concurrent builds of Anchor calls, proved for any program, requests and *)
(* interleaving: an invariant of each handler's variables, and one that    *)
(* says what the handlers may have written into the arrays they share.     *)
(***************************************************************************)
EXTENDS Anchor, SequenceTheorems, TLAPS

Fields == {"pc", "method", "mint", "args", "idl", "accounts", "at", "extra", "written",
           "hash", "data", "signed"}
Places == {"idle", "lookup", "fetch", "publish", "prepare", "resolve", "append", "store",
           "marshal", "serialize", "built", "signed", "failed"}
Early   == {"lookup", "fetch", "publish", "prepare", "resolve"}  \* nothing written yet
Writing == {"append", "store", "marshal", "serialize"}
Done    == {"built", "signed"}
Hashed  == {"serialize"} \cup Done                                    \* the message is copied
Fetched == {"publish", "prepare", "resolve"} \cup Writing \cup Done

\* The instruction of the handler with variables x.
Ix(x, ch) == ch[x.idl.source][x.method]

Listed(args) == Len(args) \in Nat /\ args = [i \in 1..Len(args) |-> args[i]]

(***************************************************************************)
(* The addresses res that handler c has resolved for instruction ix.       *)
(***************************************************************************)
PlainAnnotated(mint, acc) ==
    /\ acc.pda # <<>> /\ ~acc.signer /\ ~acc.fixed
    /\ acc.name \notin KnownPrograms /\ ~(acc.kind = "mint" /\ mint)

SeedsInv(acc, res) ==
    \A i \in DOMAIN acc.pda : acc.pda[i][1] = "account" /\ acc.pda[i][2] \notin MintNames =>
        LET ref == acc.pda[i][2] IN
        /\ ref \in DOMAIN res \cup KnownPrograms
        /\ res[acc.name][3][i] = IF ref \in DOMAIN res THEN res[ref] ELSE Known(ref)

SignerAddress(c, ix, acc) ==
    IF acc.fixed THEN Fixed(acc.name)
    ELSE IF acc.name \in Ephemeral(ix) THEN Fresh(c, acc.name) ELSE Signer

AddressInv(c, mint, res, ix, acc) ==
    /\ acc.signer => res[acc.name] = SignerAddress(c, ix, acc)
    /\ acc.name \in KnownPrograms /\ ~acc.fixed => res[acc.name] = Known(acc.name)
    /\ PlainAnnotated(mint, acc) => SeedsInv(acc, res)

ResolvedInv(c, mint, res, ix) ==
    /\ \A n \in Ephemeral(ix) : n \in DOMAIN res /\ res[n] = Fresh(c, n)
    /\ FixedNames(ix) \subseteq DOMAIN res
    /\ \A acc \in Range(ix.accounts) : acc.name \in DOMAIN res => AddressInv(c, mint, res, ix, acc)

\* Every signature the message asks for, as in Required.
Slots(x, ix) ==
    {Signer} \cup {x.accounts[a.name] : a \in {b \in Range(ix.accounts) : b.signer}}

(***************************************************************************)
(* The variables x of handler c, with the IDLs ch on the chain.            *)
(***************************************************************************)
HandlerInv(c, x, ch) ==
    /\ x.pc \in Places
    /\ x.written \in Nat /\ x.written <= Spare /\ x.at \in Nat
    /\ x.pc \in Early \cup {"idle"} => x.written = 0
    /\ x.pc \in Early => x.args \in Seq(Word)
    /\ x.pc \in Early \cup Fetched => x.method \in Method
    /\ x.pc \in Fetched => x.idl \in Object /\ x.idl.source \in DOMAIN ch
    /\ x.pc \in {"resolve"} \cup Writing \cup Done =>
         /\ x.method \in DOMAIN ch[x.idl.source] /\ x.extra = Ephemeral(Ix(x, ch))
         /\ ResolvedInv(c, x.mint, x.accounts, Ix(x, ch))
    /\ x.pc \in Writing \cup Done =>
         Names(Ix(x, ch)) \subseteq DOMAIN x.accounts /\ Listed(x.args)
    /\ x.pc \in Hashed => Len(x.hash) = Len(x.args)
    /\ x.pc \in Done => Len(x.data) = Len(x.args)
    /\ x.pc = "signed" => \A k \in Slots(x, Ix(x, ch)) : k \in x.signed \/ k[1] = "fixed"

(***************************************************************************)
(* The arrays sp that the handlers with variables f share.  A rival of c   *)
(* has written behind the same discriminator.                              *)
(***************************************************************************)
Rival(f, c) ==
    \E d \in Call \ {c} : f[d].idl = f[c].idl /\ f[d].method = f[c].method /\ f[d].written > 0

Room(x, ch) == SpareOf(Ix(x, ch))
Fits(x, ch) == Len(x.args) <= Room(x, ch)

\* Handler c may have copied the words w for its arguments.
MayMix(f, ch, c, w) ==
    w # f[c].args => ~Ix(f[c], ch).own /\ Len(f[c].args) <= Spare /\ Rival(f, c)

ArrayInv(f, sp, ch, c) ==
    /\ f[c].pc \in Writing /\ Fits(f[c], ch) =>
         /\ f[c].written <= Len(f[c].args)
         /\ f[c].pc # "append" => f[c].written = Len(f[c].args)
         /\ Rival(f, c) \/ \A i \in 1..f[c].written :
                             sp[<<f[c].idl, f[c].method>>][i] = f[c].args[i]
    /\ f[c].pc \in Hashed => MayMix(f, ch, c, f[c].hash)
    /\ f[c].pc \in Done => MayMix(f, ch, c, f[c].data)

\* The cache ca holds an object that was fetched, the store st keys that were made.
CacheInv(ca, ch) == ca = <<>> \/ \E o \in Object : ca = <<o>> /\ o.source \in DOMAIN ch
StoreInv(st) == \A k \in DOMAIN st : st[k] \in {Fresh(c, k[2]) : c \in Call}

AInv ==
    /\ chain \in Chain
    /\ CacheInv(cache, chain) /\ StoreInv(stored)
    /\ spare = [k \in Object \X Method |-> [i \in 1..Spare |-> spare[k][i]]]
    /\ call = [c \in Call |-> call[c]]
    /\ \A c \in Call : /\ DOMAIN call[c] = Fields /\ HandlerInv(c, call[c], chain)
                       /\ ArrayInv(call, spare, chain, c)

-----------------------------------------------------------------------------
(* Resolution.                                                             *)

\* An account with an ephemeral key is a signer that is not fixed.
LEMMA EphemeralSigns ==
  ASSUME NEW ix, InstructionShape(ix), NEW acc \in Range(ix.accounts), acc.name \in Ephemeral(ix)
  PROVE  acc.signer /\ ~acc.fixed
<1>1. PICK a \in Range(ix.accounts) : a.name = acc.name /\ a.signer /\ ~a.fixed
  BY DEF Ephemeral
<1> QED
  BY <1>1 DEF InstructionShape

\* An account with a fixed address is fixed.
LEMMA FixedIsFixed ==
  ASSUME NEW ix, InstructionShape(ix), NEW acc \in Range(ix.accounts), acc.name \in FixedNames(ix)
  PROVE  acc.fixed
<1>1. PICK a \in Range(ix.accounts) : a.name = acc.name /\ a.fixed
  BY DEF FixedNames
<1> QED
  BY <1>1 DEF InstructionShape

\* What is resolved before the passes.
LEMMA PreparedInv ==
  ASSUME NEW ix, InstructionShape(ix), NEW c, NEW mint
  PROVE  ResolvedInv(c, mint, Prepared(c, ix), ix)
<1> DEFINE res == Prepared(c, ix)
<1>1. /\ DOMAIN res = Ephemeral(ix) \cup FixedNames(ix)
      /\ \A n \in DOMAIN res : res[n] = IF n \in Ephemeral(ix) THEN Fresh(c, n) ELSE Fixed(n)
  BY DEF Prepared
<1> HIDE DEF res
<1>2. ASSUME NEW acc \in Range(ix.accounts), acc.name \in DOMAIN res
      PROVE  AddressInv(c, mint, res, ix, acc)
  <2>1. CASE acc.name \in Ephemeral(ix)
    BY <1>1, <1>2, <2>1, EphemeralSigns
       DEF AddressInv, SignerAddress, PlainAnnotated, InstructionShape
  <2>2. CASE acc.name \in FixedNames(ix) /\ acc.name \notin Ephemeral(ix)
    BY <1>1, <1>2, <2>2, FixedIsFixed DEF AddressInv, SignerAddress, PlainAnnotated
  <2> QED
    BY <1>1, <1>2, <2>1, <2>2
<1> QED
  BY <1>1, <1>2 DEF ResolvedInv, res

\* A visit keeps it: an annotated PDA is derived only from addresses that are
\* there, or of programs that will be what they are known to be.
LEMMA VisitedInv ==
  ASSUME NEW ix, InstructionShape(ix), NEW c, NEW mint, NEW res, ResolvedInv(c, mint, res, ix),
         NEW q, q.mint = mint, NEW acc \in Range(ix.accounts)
  PROVE  ResolvedInv(c, mint, Visited(q, acc, res), ix)
<1> DEFINE a == ResolveOneAccount(q, acc, res)
           new == Visited(q, acc, res)
<1>1. CASE acc.name \in DOMAIN res \/ a = Unresolved
  BY <1>1 DEF Visited
<1>2. CASE acc.name \notin DOMAIN res /\ a # Unresolved
  <2>1. /\ DOMAIN new = DOMAIN res \cup {acc.name} /\ new[acc.name] = a
        /\ \A n \in DOMAIN res : new[n] = res[n]
    BY <1>2 DEF Visited
  <2> HIDE DEF new
  <2>2. acc.name \notin Ephemeral(ix) /\ ~acc.fixed
    BY <1>2 DEF ResolvedInv, FixedNames
  <2>3. acc.signer => a = Signer
    BY <2>2 DEF ResolveOneAccount
  <2>4. acc.name \in KnownPrograms => a = Known(acc.name)
    BY <2>2 DEF ResolveOneAccount, InstructionShape
  <2>5. PlainAnnotated(mint, acc) =>
          /\ a = Pda(PdaProgram(acc, res), Seeds(q, acc, res))
          /\ Unresolved \notin Range(Seeds(q, acc, res))
    <3>1. PlainAnnotated(mint, acc) => a = DerivePDA(q, acc, res)
      BY DEF ResolveOneAccount, PlainAnnotated
    <3> QED
      BY <1>2, <3>1 DEF DerivePDA
  <2>6. ASSUME NEW b \in Range(ix.accounts), b.name \in DOMAIN new, PlainAnnotated(mint, b)
        PROVE  SeedsInv(b, new)
    <3> SUFFICES ASSUME NEW i \in DOMAIN b.pda, b.pda[i][1] = "account", b.pda[i][2] \notin MintNames
                 PROVE  LET ref == b.pda[i][2] IN
                        /\ ref \in DOMAIN new \cup KnownPrograms
                        /\ new[b.name][3][i] = IF ref \in DOMAIN new THEN new[ref] ELSE Known(ref)
      BY DEF SeedsInv
    <3> DEFINE ref == b.pda[i][2]
    <3>1. CASE b.name # acc.name
      <4>1. b.name \in DOMAIN res /\ new[b.name] = res[b.name]
        BY <2>1, <2>6, <3>1
      <4>2. /\ ref \in DOMAIN res \cup KnownPrograms
            /\ res[b.name][3][i] = IF ref \in DOMAIN res THEN res[ref] ELSE Known(ref)
        BY <2>6, <4>1 DEF ResolvedInv, AddressInv, SeedsInv
      <4>3. CASE ref \in DOMAIN res
        BY <2>1, <4>1, <4>2, <4>3
      <4>4. CASE ref \notin DOMAIN res /\ ref = acc.name
        BY <2>1, <2>4, <4>1, <4>2, <4>4
      <4>5. CASE ref \notin DOMAIN res /\ ref # acc.name
        BY <2>1, <4>1, <4>2, <4>5
      <4> QED
        BY <4>3, <4>4, <4>5
    <3>2. CASE b.name = acc.name
      <4>1. b = acc
        BY <3>2 DEF InstructionShape
      <4>2. new[b.name] = Pda(PdaProgram(acc, res), Seeds(q, acc, res))
        BY <2>1, <2>5, <2>6, <4>1
      <4>3. new[b.name][3] = Seeds(q, acc, res)
        BY <4>2 DEF Pda
      <4>4. Seeds(q, acc, res)[i] = SeedValue(q, res, "account", ref)
        BY <4>1 DEF Seeds
      <4>5. SeedValue(q, res, "account", ref) # Unresolved
        BY <2>5, <2>6, <4>1, <4>4 DEF Range, Seeds
      <4>6. CASE ref \in DOMAIN res
        BY <2>1, <4>3, <4>4, <4>6 DEF SeedValue
      <4>7. CASE ref \notin DOMAIN res
        <5>1. ref \in KnownPrograms /\ SeedValue(q, res, "account", ref) = Known(ref)
          BY <4>5, <4>7 DEF SeedValue
        <5>2. ref # acc.name
          BY <2>6, <4>1, <5>1 DEF PlainAnnotated
        <5> QED
          BY <2>1, <4>3, <4>4, <4>7, <5>1, <5>2
      <4> QED
        BY <4>6, <4>7
    <3> QED
      BY <3>1, <3>2
  <2>7. ASSUME NEW b \in Range(ix.accounts), b.name \in DOMAIN new
        PROVE  AddressInv(c, mint, new, ix, b)
    <3>1. CASE b.name = acc.name
      <4>1. b = acc
        BY <3>1 DEF InstructionShape
      <4>2. SignerAddress(c, ix, acc) = Signer
        BY <2>2 DEF SignerAddress
      <4> QED
        BY <2>1, <2>3, <2>4, <2>6, <2>7, <4>1, <4>2 DEF AddressInv
    <3>2. CASE b.name # acc.name
      BY <2>1, <2>6, <2>7, <3>2 DEF ResolvedInv, AddressInv
    <3> QED
      BY <3>1, <3>2
  <2> QED
    BY <2>1, <2>7 DEF ResolvedInv, new
<1> QED
  BY <1>1, <1>2

-----------------------------------------------------------------------------
(* The steps.                                                              *)

\* A handler that wrote into an array stays known as a rival.
Remembered(f, g) ==
    \A d \in Call : f[d].written > 0 =>
        g[d].idl = f[d].idl /\ g[d].method = f[d].method /\ g[d].written > 0

\* A handler keeps its rivals.
LEMMA RivalStays ==
  ASSUME NEW f, NEW g, Remembered(f, g), NEW c \in Call, Rival(f, c),
         g[c].idl = f[c].idl, g[c].method = f[c].method
  PROVE  Rival(g, c)
  BY DEF Rival, Remembered

\* A handler that does not move keeps what it knows of the arrays.
LEMMA ArrayStays ==
  ASSUME NEW f, NEW g, NEW sp, NEW ch, NEW c \in Call, Remembered(f, g), g[c] = f[c],
         ArrayInv(f, sp, ch, c)
  PROVE  ArrayInv(g, sp, ch, c)
<1>1. Rival(f, c) => Rival(g, c)
  BY RivalStays
<1> QED
  BY <1>1 DEF ArrayInv, MayMix

\* A step that sets the variables of handler c to x and leaves the arrays and
\* the chain alone.
LEMMA Moved ==
  ASSUME AInv, NEW c \in Call, NEW x, Set(c, x), UNCHANGED <<chain, spare>>,
         DOMAIN x = Fields, HandlerInv(c, x, chain),
         call[c].written > 0 =>
           x.idl = call[c].idl /\ x.method = call[c].method /\ x.written > 0,
         Remembered(call, call') => ArrayInv(call', spare, chain, c),
         CacheInv(cache', chain), StoreInv(stored')
  PROVE  AInv'
<1>1. /\ call' = [d \in Call |-> call'[d]] /\ call'[c] = x
      /\ \A d \in Call \ {c} : call'[d] = call[d]
  BY DEF AInv, Set
<1>2. Remembered(call, call')
  BY <1>1 DEF Remembered
<1>3. ASSUME NEW d \in Call
      PROVE  /\ DOMAIN call'[d] = Fields /\ HandlerInv(d, call'[d], chain)
             /\ ArrayInv(call', spare, chain, d)
  <2>1. CASE d = c
    BY <1>1, <1>2, <2>1
  <2>2. CASE d # c
    BY <1>1, <1>2, <2>2, ArrayStays DEF AInv
  <2> QED
    BY <2>1, <2>2
<1> QED
  BY <1>1, <1>3 DEF AInv

\* Before anything is written a handler knows nothing of the arrays.
LEMMA NothingWritten ==
  ASSUME NEW f, NEW c, f[c].pc \in Places \ (Writing \cup Done), NEW sp, NEW ch
  PROVE  ArrayInv(f, sp, ch, c)
  BY DEF ArrayInv, Places, Writing, Hashed, Done

\* A build that fails has written nothing.
LEMMA Failed ==
  ASSUME AInv, NEW c \in Call, call[c].pc \in Early, Fail(c),
         UNCHANGED <<chain, cache, spare, stored>>
  PROVE  AInv'
<1> DEFINE x == [Idle EXCEPT !.pc = "failed"]
<1>1. x.pc = "failed" /\ x.written = 0 /\ x.at = 0 /\ DOMAIN x = Fields
  BY DEF Idle, Fields
<1>2. Set(c, x)
  BY DEF Fail
<1> HIDE DEF x
<1>3. HandlerInv(c, x, chain)
  BY <1>1, SpareAssumption DEF HandlerInv, Places, Early, Fetched, Writing, Hashed, Done
<1>4. call'[c] = x /\ call[c].written = 0
  BY <1>2 DEF AInv, Set, HandlerInv
<1>5. ArrayInv(call', spare, chain, c)
  BY <1>1, <1>4, NothingWritten DEF Places, Writing, Done
<1>6. CacheInv(cache', chain) /\ StoreInv(stored')
  BY DEF AInv
<1> QED
  BY <1>1, <1>2, <1>3, <1>4, <1>5, <1>6, Moved

\* A handler that has written nothing yet goes on to pc, with the IDL o.
LEMMA GoesOn ==
  ASSUME AInv, NEW c \in Call, call[c].pc \in {"lookup", "fetch", "publish"},
         NEW x, Set(c, x), DOMAIN x = Fields,
         x.method = call[c].method, x.args = call[c].args, x.written = 0, x.at = call[c].at,
         x.pc \in {"fetch", "publish", "prepare"},
         x.pc # "fetch" => x.idl \in Object /\ x.idl.source \in DOMAIN chain,
         UNCHANGED <<chain, spare, stored>>,
         CacheInv(cache', chain)
  PROVE  AInv'
<1>1. HandlerInv(c, call[c], chain) /\ call'[c] = x /\ call[c].written = 0
  BY DEF AInv, Set, HandlerInv, Early
<1>2. HandlerInv(c, x, chain)
  BY <1>1, SpareAssumption DEF HandlerInv, Places, Early, Fetched, Writing, Hashed, Done
<1>3. ArrayInv(call', spare, chain, c)
  BY <1>1, NothingWritten DEF Places, Writing, Done
<1>4. StoreInv(stored')
  BY DEF AInv
<1> QED
  BY <1>1, <1>2, <1>3, <1>4, Moved

\* POST /sign.
LEMMA HandleSignKeeps == ASSUME AInv, NEW c \in Call, HandleSign(c) PROVE AInv'
<1>0. PICK m \in Method, mint \in BOOLEAN, n \in Lengths : \E args \in [1..n -> Word] :
        Set(c, [Idle EXCEPT !.pc = "lookup", !.method = m, !.mint = mint, !.args = args])
  BY DEF HandleSign
<1>1. PICK args \in [1..n -> Word] :
        Set(c, [Idle EXCEPT !.pc = "lookup", !.method = m, !.mint = mint, !.args = args])
  BY <1>0
<1> DEFINE x == [Idle EXCEPT !.pc = "lookup", !.method = m, !.mint = mint, !.args = args]
<1>2. /\ x.pc = "lookup" /\ x.method = m /\ x.args = args /\ x.written = 0 /\ x.at = 0
      /\ DOMAIN x = Fields
  BY DEF Idle, Fields
<1>3. UNCHANGED <<chain, cache, spare, stored>> /\ call[c].pc = "idle"
  BY DEF HandleSign
<1>4. n \in Nat
  <2>1. ASSUME NEW t \in DOMAIN chain, NEW k \in DOMAIN chain[t] PROVE chain[t][k].words \in Nat
    BY <2>1, ChainAssumption DEF AInv, InstructionShape
  <2> QED
    BY <2>1 DEF Lengths
<1>5. args \in Seq(Word)
  BY <1>4, SeqDef
<1> HIDE DEF x
<1>6. HandlerInv(c, x, chain)
  BY <1>2, <1>5, SpareAssumption DEF HandlerInv, Places, Early, Fetched, Writing, Hashed, Done
<1>7. Set(c, x)
  BY <1>1 DEF x
<1>8. call'[c] = x
  BY <1>7 DEF AInv, Set
<1>9. ArrayInv(call', spare, chain, c)
  BY <1>2, <1>8, NothingWritten DEF Places, Writing, Done
<1>10. call[c].written = 0
  BY <1>3 DEF AInv, HandlerInv
<1>11. CacheInv(cache', chain) /\ StoreInv(stored')
  BY <1>3 DEF AInv
<1> QED
  BY <1>2, <1>3, <1>6, <1>7, <1>9, <1>10, <1>11, Moved

\* The cache is asked for the IDL.
LEMMA LookupKeeps == ASSUME AInv, NEW c \in Call, LookupIDL(c) PROVE AInv'
<1>1. call[c].pc = "lookup" /\ UNCHANGED <<chain, cache, spare, stored>>
  BY DEF LookupIDL
<1>2. DOMAIN call[c] = Fields /\ call[c].written = 0 /\ CacheInv(cache, chain)
  BY <1>1 DEF AInv, HandlerInv, Early
<1>3. CASE cache = <<>>
  <2> DEFINE x == [call[c] EXCEPT !.pc = "fetch"]
  <2>1. Set(c, x)
    BY <1>3 DEF LookupIDL, Move
  <2>2. /\ x.pc = "fetch" /\ x.method = call[c].method /\ x.args = call[c].args
        /\ x.written = 0 /\ x.at = call[c].at /\ DOMAIN x = Fields
    BY <1>2 DEF Fields
  <2> HIDE DEF x
  <2> QED
    BY <1>1, <1>2, <2>1, <2>2, GoesOn
<1>4. CASE cache # <<>>
  <2> DEFINE x == [call[c] EXCEPT !.pc = "prepare", !.idl = cache[1]]
  <2>1. Set(c, x)
    BY <1>4 DEF LookupIDL
  <2>2. /\ x.pc = "prepare" /\ x.method = call[c].method /\ x.args = call[c].args
        /\ x.written = 0 /\ x.at = call[c].at /\ x.idl = cache[1] /\ DOMAIN x = Fields
    BY <1>2 DEF Fields
  <2>3. cache[1] \in Object /\ cache[1].source \in DOMAIN chain
    BY <1>2, <1>4 DEF CacheInv
  <2> HIDE DEF x
  <2> QED
    BY <1>1, <1>2, <2>1, <2>2, <2>3, GoesOn
<1> QED
  BY <1>3, <1>4

\* It is fetched from the chain.
LEMMA FetchKeeps == ASSUME AInv, NEW c \in Call, FetchIDL(c) PROVE AInv'
<1>1. call[c].pc = "fetch" /\ UNCHANGED <<chain, cache, spare, stored>>
  BY DEF FetchIDL
<1>2. DOMAIN call[c] = Fields /\ call[c].written = 0 /\ CacheInv(cache', chain)
  BY <1>1 DEF AInv, HandlerInv, Early
<1>3. CASE Fail(c)
  BY <1>1, <1>3, Failed DEF Early
<1>4. ASSUME NEW t \in DOMAIN chain,
             Set(c, [call[c] EXCEPT !.pc = "publish", !.idl = [source |-> t, by |-> c]])
      PROVE  AInv'
  <2> DEFINE o == [source |-> t, by |-> c]
             x == [call[c] EXCEPT !.pc = "publish", !.idl = o]
  <2>1. /\ x.pc = "publish" /\ x.method = call[c].method /\ x.args = call[c].args
        /\ x.written = 0 /\ x.at = call[c].at /\ x.idl = o /\ DOMAIN x = Fields
    BY <1>2 DEF Fields
  <2>2. o \in Object /\ o.source \in DOMAIN chain
    BY ChainAssumption DEF AInv, Object
  <2>3. Set(c, x)
    BY <1>4
  <2> HIDE DEF x, o
  <2> QED
    BY <1>1, <1>2, <2>1, <2>2, <2>3, GoesOn
<1> QED
  BY <1>3, <1>4 DEF FetchIDL

\* ... and put into the cache.
LEMMA PublishKeeps == ASSUME AInv, NEW c \in Call, PublishIDL(c) PROVE AInv'
<1> DEFINE x == [call[c] EXCEPT !.pc = "prepare"]
<1>1. /\ call[c].pc = "publish" /\ UNCHANGED <<chain, spare, stored>>
      /\ cache' = <<call[c].idl>> /\ Set(c, x)
  BY DEF PublishIDL, Move
<1>2. /\ DOMAIN call[c] = Fields /\ call[c].written = 0
      /\ call[c].idl \in Object /\ call[c].idl.source \in DOMAIN chain
  BY <1>1 DEF AInv, HandlerInv, Early, Fetched
<1>3. /\ x.pc = "prepare" /\ x.method = call[c].method /\ x.args = call[c].args
      /\ x.written = 0 /\ x.at = call[c].at /\ x.idl = call[c].idl /\ DOMAIN x = Fields
  BY <1>2 DEF Fields
<1>4. CacheInv(cache', chain)
  BY <1>1, <1>2 DEF CacheInv
<1> HIDE DEF x
<1> QED
  BY <1>1, <1>2, <1>3, <1>4, GoesOn

\* The handler's instruction is one of the chain's.
LEMMA IxShape ==
  ASSUME AInv, NEW x, x.idl.source \in DOMAIN chain, x.method \in DOMAIN chain[x.idl.source]
  PROVE  InstructionShape(Ix(x, chain))
  BY ChainAssumption DEF AInv, Ix

\* The instruction is looked up and the new keys are made.
LEMMA PrepareKeeps == ASSUME AInv, NEW c \in Call, Prepare(c) PROVE AInv'
<1>1. call[c].pc = "prepare" /\ UNCHANGED <<chain, cache, spare, stored>>
  BY DEF Prepare
<1>2. CASE call[c].method \notin DOMAIN IdlOf(call[c].idl)
  BY <1>1, <1>2, Failed DEF Prepare, Early
<1>3. CASE call[c].method \in DOMAIN IdlOf(call[c].idl)
  <2> DEFINE ix == Ix(call[c], chain)
             x == [call[c] EXCEPT !.pc = "resolve", !.accounts = Prepared(c, ix),
                                  !.extra = Ephemeral(ix)]
  <2>1. Set(c, x)
    BY <1>3 DEF Prepare, IxDef, IdlOf, Ix
  <2>2. DOMAIN call[c] = Fields /\ HandlerInv(c, call[c], chain)
    BY DEF AInv
  <2>3. /\ call[c].written = 0 /\ call[c].at \in Nat
        /\ call[c].args \in Seq(Word) /\ call[c].method \in Method
        /\ call[c].idl \in Object /\ call[c].idl.source \in DOMAIN chain
    BY <1>1, <2>2 DEF HandlerInv, Early, Fetched
  <2> HIDE DEF ix
  <2>4. /\ x.pc = "resolve" /\ x.method = call[c].method /\ x.args = call[c].args
        /\ x.written = 0 /\ x.at = call[c].at /\ x.idl = call[c].idl /\ x.mint = call[c].mint
        /\ x.accounts = Prepared(c, ix) /\ x.extra = Ephemeral(ix) /\ DOMAIN x = Fields
    BY <2>2, <2>3 DEF Fields
  <2>5. Ix(x, chain) = ix /\ InstructionShape(ix) /\ x.method \in DOMAIN chain[x.idl.source]
    BY <1>3, <2>3, <2>4, IxShape DEF Ix, IdlOf, ix
  <2> HIDE DEF x
  <2>6. HandlerInv(c, x, chain)
    BY <2>3, <2>4, <2>5, PreparedInv, SpareAssumption
       DEF HandlerInv, Places, Early, Fetched, Writing, Hashed, Done
  <2>7. call'[c] = x
    BY <2>1 DEF AInv, Set
  <2>8. ArrayInv(call', spare, chain, c)
    BY <2>4, <2>7, NothingWritten DEF Places, Writing, Done
  <2>9. CacheInv(cache', chain) /\ StoreInv(stored')
    BY <1>1 DEF AInv
  <2> QED
    BY <1>1, <2>1, <2>3, <2>4, <2>6, <2>8, <2>9, Moved
<1> QED
  BY <1>2, <1>3

\* One account is visited.
LEMMA ResolveKeeps == ASSUME AInv, NEW c \in Call, Resolve(c) PROVE AInv'
<1> DEFINE ix == Ix(call[c], chain)
           n == Len(ix.accounts)
           acc == ix.accounts[(call[c].at % n) + 1]
           Q(detected) == [mint |-> call[c].mint, args |-> call[c].args,
                           detected |-> detected, stored |-> stored]
<1>1. /\ call[c].pc = "resolve" /\ call[c].at < Passes * n
      /\ UNCHANGED <<chain, cache, spare, stored>>
  BY DEF Resolve, LastVisit, IxDef, IdlOf, Ix
<1>2. PICK detected :
        Set(c, [call[c] EXCEPT !.at = @ + 1, !.accounts = Visited(Q(detected), acc, @)])
  BY DEF Resolve, IxDef, IdlOf, Ix
<1> DEFINE x == [call[c] EXCEPT !.at = @ + 1, !.accounts = Visited(Q(detected), acc, @)]
<1>3. DOMAIN call[c] = Fields /\ HandlerInv(c, call[c], chain)
  BY DEF AInv
<1>4. /\ call[c].written = 0 /\ call[c].at \in Nat
      /\ call[c].args \in Seq(Word) /\ call[c].method \in Method
      /\ call[c].idl \in Object /\ call[c].idl.source \in DOMAIN chain
      /\ call[c].method \in DOMAIN chain[call[c].idl.source]
      /\ call[c].extra = Ephemeral(ix) /\ ResolvedInv(c, call[c].mint, call[c].accounts, ix)
  BY <1>1, <1>3 DEF HandlerInv, Early, Fetched
<1>5. InstructionShape(ix)
  BY <1>4, IxShape
<1>6. acc \in Range(ix.accounts)
  <2>1. n \in Nat /\ DOMAIN ix.accounts = 1..n
    BY <1>5 DEF InstructionShape
  <2> HIDE DEF n
  <2>2. n > 0
    BY <1>1, <1>4, <2>1 DEF Passes
  <2>3. (call[c].at % n) + 1 \in 1..n
    BY <1>4, <2>1, <2>2
  <2> QED
    BY <2>1, <2>3 DEF Range
<1> HIDE DEF ix, n, acc
<1>7. /\ x.pc = "resolve" /\ x.method = call[c].method /\ x.args = call[c].args
      /\ x.written = 0 /\ x.at = call[c].at + 1
      /\ x.idl = call[c].idl /\ x.mint = call[c].mint /\ x.extra = call[c].extra
      /\ x.accounts = Visited(Q(detected), acc, call[c].accounts) /\ DOMAIN x = Fields
  BY <1>1, <1>3, <1>4 DEF Fields
<1>8. Ix(x, chain) = ix
  BY <1>7 DEF Ix, ix
<1>9. ResolvedInv(c, x.mint, x.accounts, ix)
  BY <1>4, <1>5, <1>6, <1>7, VisitedInv
<1>10. Set(c, x)
  BY <1>2
<1> HIDE DEF x
<1>11. HandlerInv(c, x, chain)
  BY <1>4, <1>7, <1>8, <1>9, SpareAssumption
     DEF HandlerInv, Places, Early, Fetched, Writing, Hashed, Done
<1>12. call'[c] = x
  BY <1>10 DEF AInv, Set
<1>13. ArrayInv(call', spare, chain, c)
  BY <1>7, <1>12, NothingWritten DEF Places, Writing, Done
<1>14. CacheInv(cache', chain) /\ StoreInv(stored')
  BY <1>1 DEF AInv
<1> QED
  BY <1>1, <1>4, <1>7, <1>10, <1>11, <1>13, <1>14, Moved

\* A sequence is the list of its elements.
LEMMA SeqListed == ASSUME NEW S, NEW s \in Seq(S) PROVE Listed(s)
  BY DEF Listed

\* The words that are serialised make a sequence.
LEMMA WordsListed ==
  ASSUME NEW args \in Seq(Word), NEW n \in Nat, n <= Len(args)
  PROVE  SubSeq(args, 1, n) \in Seq(Word) /\ Listed(SubSeq(args, 1, n))
<1>1. SubSeq(args, 1, n) \in Seq(Word)
  BY SubSeqProperties
<1> QED
  BY <1>1, SeqListed

\* ... and so does a bump behind them.
LEMMA BumpListed ==
  ASSUME NEW w \in Seq(Word), NEW bump
  PROVE  Listed(Append(w, bump))
<1> DEFINE T == Word \cup {bump}
<1>1. w \in Seq(T)
  BY SeqDef
<1> HIDE DEF T
<1>2. bump \in T
  BY DEF T
<1>3. Append(w, bump) \in Seq(T)
  BY <1>1, <1>2, AppendProperties
<1> QED
  BY <1>3, SeqListed

\* The arguments are serialised.
LEMMA SerializeKeeps == ASSUME AInv, NEW c \in Call, Serialize(c) PROVE AInv'
<1> DEFINE ix == Ix(call[c], chain)
           words == Serialized(ix, call[c].args)
           X(args) == [call[c] EXCEPT !.pc = "append", !.at = 0, !.args = args]
<1>1. call[c].pc = "resolve" /\ UNCHANGED <<chain, cache, spare, stored>>
  BY DEF Serialize
<1>2. \/ Fail(c)
      \/ /\ Resolved(c) /\ ~Missing(ix, call[c].args)
         /\ \/ Set(c, X(words))
            \/ \E bump : Set(c, X(Append(words, bump)))
  BY DEF Serialize, IxDef, IdlOf, Ix
<1>3. CASE Fail(c)
  BY <1>1, <1>3, Failed DEF Early
<1>4. DOMAIN call[c] = Fields /\ HandlerInv(c, call[c], chain)
  BY DEF AInv
<1>5. /\ call[c].written = 0 /\ call[c].args \in Seq(Word) /\ call[c].method \in Method
      /\ call[c].idl \in Object /\ call[c].idl.source \in DOMAIN chain
      /\ call[c].method \in DOMAIN chain[call[c].idl.source]
      /\ call[c].extra = Ephemeral(ix) /\ ResolvedInv(c, call[c].mint, call[c].accounts, ix)
  BY <1>1, <1>4 DEF HandlerInv, Early, Fetched
<1>6. ix.words \in Nat
  BY <1>5, IxShape DEF InstructionShape
<1>7. ASSUME NEW args, Listed(args), Set(c, X(args)), Resolved(c)
      PROVE  AInv'
  <2> DEFINE x == X(args)
  <2>1. /\ x.pc = "append" /\ x.method = call[c].method /\ x.args = args /\ x.at = 0
        /\ x.written = 0 /\ x.idl = call[c].idl /\ x.mint = call[c].mint
        /\ x.extra = call[c].extra /\ x.accounts = call[c].accounts /\ DOMAIN x = Fields
    BY <1>4, <1>5 DEF Fields
  <2>2. Names(ix) \subseteq DOMAIN x.accounts
    BY <1>7, <2>1 DEF Resolved, IxDef, IdlOf, Ix
  <2>3. Set(c, x)
    BY <1>7
  <2> HIDE DEF x
  <2>4. Ix(x, chain) = ix
    BY <2>1 DEF Ix
  <2> HIDE DEF ix
  <2>5. HandlerInv(c, x, chain)
    BY <1>5, <1>7, <2>1, <2>2, <2>4, SpareAssumption
       DEF HandlerInv, Places, Early, Fetched, Writing, Hashed, Done
  <2>6. call'[c] = x
    BY <2>3 DEF AInv, Set
  <2>7. ArrayInv(call', spare, chain, c)
    BY <1>7, <2>1, <2>6 DEF ArrayInv, Hashed, Done, Listed
  <2>8. CacheInv(cache', chain) /\ StoreInv(stored')
    BY <1>1 DEF AInv
  <2> QED
    BY <1>1, <1>5, <2>1, <2>3, <2>5, <2>7, <2>8, Moved
<1>8. CASE Resolved(c) /\ ~Missing(ix, call[c].args) /\ Set(c, X(words))
  <2>1. Len(call[c].args) \in Nat
    BY <1>5
  <2>2. ix.words <= Len(call[c].args)
    BY <1>6, <1>8, <2>1 DEF Missing
  <2> HIDE DEF ix
  <2>3. Listed(words)
    BY <1>5, <1>6, <2>2, WordsListed DEF Serialized
  <2> QED
    BY <1>7, <1>8, <2>3
<1>9. ASSUME NEW bump, Resolved(c), ~Missing(ix, call[c].args), Set(c, X(Append(words, bump)))
      PROVE  AInv'
  <2>1. Len(call[c].args) \in Nat
    BY <1>5
  <2>2. ix.words <= Len(call[c].args)
    BY <1>6, <1>9, <2>1 DEF Missing
  <2> HIDE DEF ix
  <2>3. words \in Seq(Word)
    BY <1>5, <1>6, <2>2, WordsListed DEF Serialized
  <2> HIDE DEF words
  <2>4. Listed(Append(words, bump))
    BY <2>3, BumpListed
  <2> QED
    BY <1>7, <1>9, <2>4
<1> QED
  BY <1>2, <1>3, <1>8, <1>9

\* A handler that has its data goes on to pc x.pc with the same arguments.
LEMMA WriterMoves ==
  ASSUME AInv, NEW c \in Call, call[c].pc \in Writing \cup {"built"},
         NEW x, Set(c, x), DOMAIN x = Fields, x.pc \in Writing \cup Done,
         x.method = call[c].method, x.args = call[c].args, x.written = call[c].written,
         x.idl = call[c].idl, x.mint = call[c].mint, x.extra = call[c].extra,
         x.accounts = call[c].accounts, x.at = call[c].at,
         x.pc \in Hashed => Len(x.hash) = Len(x.args),
         x.pc \in Done => Len(x.data) = Len(x.args),
         x.pc = "signed" => \A k \in Slots(x, Ix(x, chain)) : k \in x.signed \/ k[1] = "fixed",
         Remembered(call, call') => ArrayInv(call', spare, chain, c),
         UNCHANGED <<chain, cache, spare>>, StoreInv(stored')
  PROVE  AInv'
<1>1. HandlerInv(c, call[c], chain) /\ CacheInv(cache', chain)
  BY DEF AInv
<1>2. Ix(x, chain) = Ix(call[c], chain)
  BY DEF Ix
<1>3. HandlerInv(c, x, chain)
  BY <1>1, <1>2 DEF HandlerInv, Places, Early, Fetched, Writing, Hashed, Done
<1> QED
  BY <1>1, <1>3, Moved

\* A word is written into the shared array, or the handler goes on.
LEMMA AppendKeeps == ASSUME AInv, NEW c \in Call, AppendArgs(c) PROVE AInv'
<1> DEFINE n == call[c].written + 1
           key == <<call[c].idl, call[c].method>>
           N == Len(call[c].args)
<1>1. call[c].pc = "append" /\ UNCHANGED <<chain, cache, stored>>
  BY DEF AppendArgs
<1>2. DOMAIN call[c] = Fields /\ HandlerInv(c, call[c], chain) /\ ArrayInv(call, spare, chain, c)
  BY DEF AInv
<1>3. /\ call[c].written \in Nat /\ N \in Nat /\ key \in Object \X Method
      /\ Shared(c) <=> Fits(call[c], chain)
  BY <1>1, <1>2 DEF HandlerInv, Listed, Fetched, Writing, Shared, IxDef, IdlOf, Ix, Fits, Room
<1>4. CASE Shared(c) /\ n <= N
  <2> DEFINE x == [call[c] EXCEPT !.written = n]
  <2>1. Set(c, x) /\ spare' = [spare EXCEPT ![key][n] = call[c].args[n]]
    BY <1>4 DEF AppendArgs
  <2>2. /\ x.pc = "append" /\ x.method = call[c].method /\ x.args = call[c].args
        /\ x.written = n /\ x.idl = call[c].idl /\ x.mint = call[c].mint
        /\ x.extra = call[c].extra /\ x.accounts = call[c].accounts /\ x.at = call[c].at
        /\ DOMAIN x = Fields
    BY <1>1, <1>2 DEF Fields
  <2>3. n <= Spare /\ n \in Nat /\ n > 0
    BY <1>3, <1>4, SpareAssumption DEF Fits, Room, SpareOf
  <2> HIDE DEF x
  <2>4. Ix(x, chain) = Ix(call[c], chain)
    BY <2>2 DEF Ix
  <2>5. HandlerInv(c, x, chain)
    BY <1>1, <1>2, <2>2, <2>3, <2>4 DEF HandlerInv, Places, Early, Fetched, Writing, Hashed, Done
  <2>6. /\ call' = [d \in Call |-> call'[d]] /\ call'[c] = x
        /\ \A d \in Call \ {c} : call'[d] = call[d]
    BY <2>1 DEF AInv, Set
  <2>7. Remembered(call, call')
    BY <2>2, <2>3, <2>6 DEF Remembered
  <2>8. /\ spare' = [k \in Object \X Method |-> [i \in 1..Spare |-> spare'[k][i]]]
        /\ \A k \in Object \X Method : k # key => spare'[k] = spare[k]
        /\ \A i \in 1..Spare : spare'[key][i] = IF i = n THEN call[c].args[n] ELSE spare[key][i]
    BY ZenonT(30), <1>3, <2>1, <2>3 DEF AInv
  <2>9. ArrayInv(call', spare', chain, c)
    <3>1. Rival(call, c) => Rival(call', c)
      BY <2>2, <2>6, <2>7, RivalStays
    <3>2. Rival(call, c) \/ \A i \in 1..call[c].written : spare[key][i] = call[c].args[i]
      BY <1>1, <1>2, <1>3, <1>4 DEF ArrayInv, Writing
    <3>3. Rival(call, c) \/ \A i \in 1..n : spare'[key][i] = call[c].args[i]
      <4>1. ASSUME NEW i \in 1..n PROVE i \in 1..Spare /\ (i = n \/ i \in 1..call[c].written)
        BY <1>3, <2>3, <4>1, SpareAssumption
      <4> QED
        BY <2>8, <3>2, <4>1
    <3> QED
      BY <1>3, <1>4, <2>2, <2>6, <3>1, <3>3 DEF ArrayInv, MayMix, Ix, Writing, Hashed, Done
  <2>10. ASSUME NEW d \in Call, d # c PROVE ArrayInv(call', spare', chain, d)
    <3>1. ArrayInv(call', spare, chain, d)
      BY <2>6, <2>7, <2>10, ArrayStays DEF AInv
    <3>2. CASE call[d].idl = call[c].idl /\ call[d].method = call[c].method
      <4>1. Rival(call', d)
        BY <2>2, <2>3, <2>6, <2>10, <3>2 DEF Rival
      <4> QED
        BY <3>1, <4>1 DEF ArrayInv, MayMix
    <3>3. CASE ~(call[d].idl = call[c].idl /\ call[d].method = call[c].method)
      <4>1. call[d].pc \in Writing => spare'[<<call[d].idl, call[d].method>>]
                                        = spare[<<call[d].idl, call[d].method>>]
        <5> SUFFICES ASSUME call[d].pc \in Writing
                     PROVE  spare'[<<call[d].idl, call[d].method>>]
                              = spare[<<call[d].idl, call[d].method>>]
          OBVIOUS
        <5>1. call[d].idl \in Object /\ call[d].method \in Method
          BY DEF AInv, HandlerInv, Fetched
        <5>2. <<call[d].idl, call[d].method>> # key
          BY <3>3
        <5> QED
          BY <2>8, <5>1, <5>2
      <4> QED
        BY <2>6, <2>10, <3>1, <4>1 DEF ArrayInv
    <3> QED
      BY <3>2, <3>3
  <2> QED
    BY <1>1, <2>2, <2>5, <2>6, <2>8, <2>9, <2>10 DEF AInv
<1>5. CASE ~(Shared(c) /\ n <= N)
  <2> DEFINE x == [call[c] EXCEPT !.pc = "store"]
  <2>1. Set(c, x) /\ UNCHANGED spare
    BY <1>5 DEF AppendArgs, Move
  <2>2. /\ x.pc = "store" /\ x.method = call[c].method /\ x.args = call[c].args
        /\ x.written = call[c].written /\ x.idl = call[c].idl /\ x.mint = call[c].mint
        /\ x.extra = call[c].extra /\ x.accounts = call[c].accounts /\ x.at = call[c].at
        /\ DOMAIN x = Fields
    BY <1>2 DEF Fields
  <2> HIDE DEF x
  <2>3. call'[c] = x
    BY <2>1 DEF AInv, Set
  <2>4. ASSUME Remembered(call, call') PROVE ArrayInv(call', spare, chain, c)
    <3>1. Rival(call, c) => Rival(call', c)
      BY <2>2, <2>3, <2>4, RivalStays
    <3>2. Fits(x, chain) => Fits(call[c], chain) /\ call[c].written = N
      BY <1>1, <1>2, <1>3, <1>5, <2>2 DEF Fits, Room, Ix, ArrayInv, Writing
    <3> QED
      BY <1>1, <1>2, <1>3, <2>2, <2>3, <3>1, <3>2 DEF ArrayInv, MayMix, Ix, Writing, Hashed, Done
  <2>5. StoreInv(stored')
    BY <1>1 DEF AInv
  <2> QED
    BY <1>1, <2>1, <2>2, <2>4, <2>5, WriterMoves DEF Writing, Hashed, Done
<1> QED
  BY <1>4, <1>5

\* The new accounts are kept: they carry the keys made for this call.
LEMMA StoreKeeps == ASSUME AInv, NEW c \in Call, StoreProgramAccounts(c) PROVE AInv'
<1> DEFINE x == [call[c] EXCEPT !.pc = "marshal"]
           new == {<<call[c].mint, n>> : n \in call[c].extra}
           ix == Ix(call[c], chain)
<1>1. /\ call[c].pc = "store" /\ UNCHANGED <<chain, cache, spare>> /\ Set(c, x)
      /\ stored' = [k \in DOMAIN stored \cup new |->
                      IF k \in new THEN call[c].accounts[k[2]] ELSE stored[k]]
  BY DEF StoreProgramAccounts, Keep, Move
<1>2. DOMAIN call[c] = Fields /\ HandlerInv(c, call[c], chain) /\ ArrayInv(call, spare, chain, c)
  BY DEF AInv
<1>3. /\ x.pc = "marshal" /\ x.method = call[c].method /\ x.args = call[c].args
      /\ x.written = call[c].written /\ x.idl = call[c].idl /\ x.mint = call[c].mint
      /\ x.extra = call[c].extra /\ x.accounts = call[c].accounts /\ x.at = call[c].at
      /\ DOMAIN x = Fields
  BY <1>2 DEF Fields
<1> HIDE DEF x
<1>4. call'[c] = x
  BY <1>1 DEF AInv, Set
<1>5. ASSUME Remembered(call, call') PROVE ArrayInv(call', spare, chain, c)
  <2>1. Rival(call, c) => Rival(call', c)
    BY <1>3, <1>4, <1>5, RivalStays
  <2>2. Fits(x, chain) => Fits(call[c], chain)
    BY <1>3 DEF Fits, Room, Ix
  <2> QED
    BY <1>1, <1>2, <1>3, <1>4, <2>1, <2>2 DEF ArrayInv, MayMix, Ix, Writing, Hashed, Done
<1>6. StoreInv(stored')
  <2>1. call[c].extra = Ephemeral(ix) /\ ResolvedInv(c, call[c].mint, call[c].accounts, ix)
    BY <1>1, <1>2 DEF HandlerInv, Writing
  <2>2. \A n \in call[c].extra : call[c].accounts[n] = Fresh(c, n)
    BY <2>1 DEF ResolvedInv
  <2>3. \A k \in new : k[2] \in call[c].extra
    OBVIOUS
  <2>4. StoreInv(stored)
    BY DEF AInv
  <2> HIDE DEF new
  <2>5. ASSUME NEW k \in DOMAIN stored' PROVE stored'[k] \in {Fresh(d, k[2]) : d \in Call}
    <3>1. CASE k \in new
      BY <1>1, <2>2, <2>3, <3>1
    <3>2. CASE k \notin new
      BY <1>1, <2>4, <2>5, <3>2 DEF StoreInv
    <3> QED
      BY <3>1, <3>2
  <2> QED
    BY <2>5 DEF StoreInv
<1> QED
  BY <1>1, <1>3, <1>5, <1>6, WriterMoves DEF Writing, Hashed, Done

\* Unless a rival wrote, the words that are copied are the handler's own.
LEMMA CopiesOwn ==
  ASSUME AInv, NEW c \in Call, call[c].pc \in {"marshal", "serialize"}
  PROVE  Len(Data(c)) = Len(call[c].args) /\ MayMix(call, chain, c, Data(c))
<1> DEFINE N == Len(call[c].args)
           key == <<call[c].idl, call[c].method>>
<1>1. HandlerInv(c, call[c], chain) /\ ArrayInv(call, spare, chain, c)
  BY DEF AInv
<1>2. /\ call[c].written \in Nat /\ N \in Nat
      /\ call[c].args = [i \in 1..N |-> call[c].args[i]]
      /\ Shared(c) <=> Fits(call[c], chain)
  BY <1>1 DEF HandlerInv, Listed, Writing, Shared, IxDef, IdlOf, Ix, Fits, Room
<1>3. Behind(c) = [i \in 1..N |-> spare[key][i]]
  BY DEF Behind
<1>4. Len(Data(c)) = N
  <2>1. Len(Behind(c)) = N
    BY <1>2, <1>3, LenProperties, SeqDef
  <2> QED
    BY <2>1 DEF Data
<1>5. ASSUME Data(c) # call[c].args
      PROVE  ~Ix(call[c], chain).own /\ N <= Spare /\ Rival(call, c)
  <2>1. Fits(call[c], chain) /\ Behind(c) # call[c].args
    BY <1>2, <1>5 DEF Data
  <2>2. Rival(call, c)
    <3> SUFFICES ASSUME ~Rival(call, c) PROVE FALSE
      OBVIOUS
    <3>1. \A i \in 1..N : spare[key][i] = call[c].args[i]
      BY <1>1, <2>1 DEF ArrayInv, Writing
    <3> QED
      BY <1>2, <1>3, <2>1, <3>1
  <2>3. CASE Ix(call[c], chain).own
    <3>1. N = 0
      BY <1>2, <2>1, <2>3 DEF Fits, Room, SpareOf
    <3>2. Behind(c) = <<>> /\ call[c].args = <<>>
      BY <1>2, <1>3, <3>1
    <3> QED
      BY <2>1, <3>2
  <2>4. CASE ~Ix(call[c], chain).own
    BY <2>1, <2>2, <2>4 DEF Fits, Room, SpareOf
  <2> QED
    BY <2>3, <2>4
<1> QED
  BY <1>4, <1>5 DEF MayMix

\* The message is serialised.
LEMMA MessageKeeps == ASSUME AInv, NEW c \in Call, MarshalMessage(c) PROVE AInv'
<1> DEFINE x == [call[c] EXCEPT !.pc = "serialize", !.hash = Data(c)]
<1>1. call[c].pc = "marshal" /\ UNCHANGED <<chain, cache, spare, stored>> /\ Set(c, x)
  BY DEF MarshalMessage
<1>2. DOMAIN call[c] = Fields /\ HandlerInv(c, call[c], chain) /\ ArrayInv(call, spare, chain, c)
  BY DEF AInv
<1>3. Len(Data(c)) = Len(call[c].args) /\ MayMix(call, chain, c, Data(c))
  BY <1>1, CopiesOwn
<1>4. /\ x.pc = "serialize" /\ x.method = call[c].method /\ x.args = call[c].args
      /\ x.written = call[c].written /\ x.idl = call[c].idl /\ x.mint = call[c].mint
      /\ x.extra = call[c].extra /\ x.accounts = call[c].accounts /\ x.at = call[c].at
      /\ x.hash = Data(c) /\ DOMAIN x = Fields
  BY <1>2 DEF Fields
<1> HIDE DEF x
<1>5. call'[c] = x
  BY <1>1 DEF AInv, Set
<1>6. ASSUME Remembered(call, call') PROVE ArrayInv(call', spare, chain, c)
  <2>1. Rival(call, c) => Rival(call', c)
    BY <1>4, <1>5, <1>6, RivalStays
  <2>2. Fits(x, chain) => Fits(call[c], chain)
    BY <1>4 DEF Fits, Room, Ix
  <2>3. MayMix(call', chain, c, x.hash)
    BY <1>3, <1>4, <1>5, <2>1 DEF MayMix, Ix
  <2> QED
    BY <1>1, <1>2, <1>4, <1>5, <2>1, <2>2, <2>3 DEF ArrayInv, Writing, Hashed, Done
<1>7. StoreInv(stored')
  BY <1>1 DEF AInv
<1> QED
  BY <1>1, <1>3, <1>4, <1>6, <1>7, WriterMoves DEF Writing, Hashed, Done

\* ... and the transaction, with the message once more.
LEMMA TxKeeps == ASSUME AInv, NEW c \in Call, MarshalTx(c) PROVE AInv'
<1> DEFINE x == [call[c] EXCEPT !.pc = "built", !.data = Data(c)]
<1>1. call[c].pc = "serialize" /\ UNCHANGED <<chain, cache, spare, stored>> /\ Set(c, x)
  BY DEF MarshalTx
<1>2. DOMAIN call[c] = Fields /\ HandlerInv(c, call[c], chain) /\ ArrayInv(call, spare, chain, c)
  BY DEF AInv
<1>3. Len(Data(c)) = Len(call[c].args) /\ MayMix(call, chain, c, Data(c))
  BY <1>1, CopiesOwn
<1>4. /\ x.pc = "built" /\ x.method = call[c].method /\ x.args = call[c].args
      /\ x.written = call[c].written /\ x.idl = call[c].idl /\ x.mint = call[c].mint
      /\ x.extra = call[c].extra /\ x.accounts = call[c].accounts /\ x.at = call[c].at
      /\ x.hash = call[c].hash /\ x.data = Data(c) /\ DOMAIN x = Fields
  BY <1>2 DEF Fields
<1> HIDE DEF x
<1>5. call'[c] = x
  BY <1>1 DEF AInv, Set
<1>6. Len(x.hash) = Len(x.args) /\ MayMix(call, chain, c, x.hash)
  BY <1>1, <1>2, <1>4 DEF HandlerInv, ArrayInv, Hashed
<1>7. ASSUME Remembered(call, call') PROVE ArrayInv(call', spare, chain, c)
  <2>1. Rival(call, c) => Rival(call', c)
    BY <1>4, <1>5, <1>7, RivalStays
  <2>2. MayMix(call', chain, c, x.hash) /\ MayMix(call', chain, c, x.data)
    BY <1>3, <1>4, <1>5, <1>6, <2>1 DEF MayMix, Ix
  <2> QED
    BY <1>4, <1>5, <2>2 DEF ArrayInv, Writing
<1>8. StoreInv(stored')
  BY <1>1 DEF AInv
<1> QED
  BY <1>1, <1>3, <1>4, <1>6, <1>7, <1>8, WriterMoves DEF Writing, Hashed, Done

\* The signatures are put into their slots.
LEMMA AssembleKeeps == ASSUME AInv, NEW c \in Call, Assemble(c) PROVE AInv'
<1> DEFINE ix == Ix(call[c], chain)
           made == {call[c].accounts[n] : n \in call[c].extra}
           signed == {Signer} \cup (made \cap Required(c))
           x == [call[c] EXCEPT !.pc = "signed", !.signed = signed]
<1>1. call[c].pc = "built" /\ UNCHANGED <<chain, cache, spare, stored>> /\ Set(c, x)
  BY DEF Assemble
<1>2. DOMAIN call[c] = Fields /\ HandlerInv(c, call[c], chain) /\ ArrayInv(call, spare, chain, c)
  BY DEF AInv
<1>3. /\ call[c].extra = Ephemeral(ix) /\ ResolvedInv(c, call[c].mint, call[c].accounts, ix)
      /\ Names(ix) \subseteq DOMAIN call[c].accounts
  BY <1>1, <1>2 DEF HandlerInv, Done
<1>4. Required(c) = Slots(call[c], ix)
  BY DEF Required, Slots, IxDef, IdlOf, Ix
<1> HIDE DEF ix
<1>5. ASSUME NEW k \in Slots(call[c], ix) PROVE k \in signed \/ k[1] = "fixed"
  <2>1. CASE k = Signer
    BY <2>1
  <2>2. ASSUME NEW acc \in Range(ix.accounts), acc.signer, k = call[c].accounts[acc.name]
        PROVE  k \in signed \/ k[1] = "fixed"
    <3>1. k = SignerAddress(c, ix, acc)
      BY <1>3, <2>2 DEF ResolvedInv, AddressInv, Names
    <3>2. CASE acc.fixed
      BY <3>1, <3>2 DEF SignerAddress, Fixed
    <3>3. CASE ~acc.fixed /\ acc.name \in Ephemeral(ix)
      BY <1>3, <1>4, <1>5, <2>2, <3>3
    <3>4. CASE ~acc.fixed /\ acc.name \notin Ephemeral(ix)
      BY <3>1, <3>4 DEF SignerAddress
    <3> QED
      BY <3>2, <3>3, <3>4
  <2> QED
    BY <1>5, <2>1, <2>2 DEF Slots
<1> HIDE DEF signed
<1>6. /\ x.pc = "signed" /\ x.method = call[c].method /\ x.args = call[c].args
      /\ x.written = call[c].written /\ x.idl = call[c].idl /\ x.mint = call[c].mint
      /\ x.extra = call[c].extra /\ x.accounts = call[c].accounts /\ x.at = call[c].at
      /\ x.hash = call[c].hash /\ x.data = call[c].data /\ x.signed = signed
      /\ DOMAIN x = Fields
  BY <1>2 DEF Fields
<1> HIDE DEF x
<1>7. Ix(x, chain) = ix /\ Slots(x, ix) = Slots(call[c], ix)
  BY <1>6 DEF Ix, Slots, ix
<1>8. call'[c] = x
  BY <1>1 DEF AInv, Set
<1>9. ASSUME Remembered(call, call') PROVE ArrayInv(call', spare, chain, c)
  <2>1. Rival(call, c) => Rival(call', c)
    BY <1>6, <1>8, <1>9, RivalStays
  <2> QED
    BY <1>1, <1>2, <1>6, <1>8, <2>1 DEF ArrayInv, MayMix, Ix, Writing, Hashed, Done
<1>10. StoreInv(stored')
  BY <1>1 DEF AInv
<1>11. Len(x.hash) = Len(x.args) /\ Len(x.data) = Len(x.args)
  BY <1>1, <1>2, <1>6 DEF HandlerInv, Hashed, Done
<1> QED
  BY <1>1, <1>5, <1>6, <1>7, <1>9, <1>10, <1>11, WriterMoves DEF Writing, Hashed, Done

\* Party A restarts: what the handlers wrote into the arrays is remembered.
LEMMA RestartKeeps == ASSUME AInv, Restart PROVE AInv'
<1> DEFINE y(c) == [Idle EXCEPT !.pc = "failed", !.method = call[c].method,
                                !.idl = call[c].idl, !.written = call[c].written]
<1>1. /\ call' = [c \in Call |-> IF call[c].pc \in {"idle", "signed"} THEN call[c] ELSE y(c)]
      /\ cache' = <<>> /\ stored' = <<>> /\ UNCHANGED <<chain, spare>>
  BY DEF Restart
<1>2. ASSUME NEW c \in Call
      PROVE  /\ y(c).pc = "failed" /\ y(c).method = call[c].method /\ y(c).idl = call[c].idl
             /\ y(c).written = call[c].written /\ y(c).at = 0 /\ DOMAIN y(c) = Fields
  BY DEF Idle, Fields
<1> HIDE DEF y
<1>3. Remembered(call, call')
  BY <1>1, <1>2 DEF Remembered
<1>4. ASSUME NEW c \in Call
      PROVE  /\ DOMAIN call'[c] = Fields /\ HandlerInv(c, call'[c], chain)
             /\ ArrayInv(call', spare, chain, c)
  <2>1. /\ DOMAIN call[c] = Fields /\ HandlerInv(c, call[c], chain)
        /\ ArrayInv(call, spare, chain, c)
    BY DEF AInv
  <2>2. CASE call[c].pc \in {"idle", "signed"}
    BY <1>1, <1>3, <2>1, <2>2, ArrayStays
  <2>3. CASE call[c].pc \notin {"idle", "signed"}
    <3>1. call'[c] = y(c)
      BY <1>1, <2>3
    <3>2. HandlerInv(c, y(c), chain)
      BY <1>2, <2>1 DEF HandlerInv, Places, Early, Fetched, Writing, Hashed, Done
    <3>3. ArrayInv(call', spare, chain, c)
      BY <1>2, <3>1, NothingWritten DEF Places, Writing, Done
    <3> QED
      BY <1>2, <3>1, <3>2, <3>3
  <2> QED
    BY <2>2, <2>3
<1>5. CacheInv(cache', chain) /\ StoreInv(stored')
  BY <1>1 DEF CacheInv, StoreInv
<1>6. call' = [c \in Call |-> call'[c]]
  BY <1>1
<1> QED
  BY <1>1, <1>4, <1>5, <1>6 DEF AInv

-----------------------------------------------------------------------------
(* The theorems.                                                           *)

\* The invariant is inductive: it holds at first, and every step of every
\* handler and a restart keep it (BuildAnchorInstructions and its callers).
THEOREM AnchorInductive == Spec => []AInv
<1>1. Init => AInv
  <2> SUFFICES ASSUME Init PROVE AInv
    OBVIOUS
  <2>1. /\ Idle.pc = "idle" /\ Idle.written = 0 /\ Idle.at = 0 /\ DOMAIN Idle = Fields
    BY DEF Idle, Fields
  <2>2. ASSUME NEW c \in Call
        PROVE  /\ DOMAIN call[c] = Fields /\ HandlerInv(c, call[c], chain)
               /\ ArrayInv(call, spare, chain, c)
    <3>1. call[c] = Idle
      BY DEF Init
    <3>2. HandlerInv(c, Idle, chain)
      BY <2>1, SpareAssumption DEF HandlerInv, Places, Early, Fetched, Writing, Hashed, Done
    <3>3. ArrayInv(call, spare, chain, c)
      BY <2>1, <3>1, NothingWritten DEF Places, Writing, Done
    <3> QED
      BY <2>1, <3>1, <3>2, <3>3
  <2>3. CacheInv(cache, chain) /\ StoreInv(stored)
    BY DEF Init, CacheInv, StoreInv
  <2>4. /\ chain \in Chain /\ call = [c \in Call |-> call[c]]
        /\ spare = [k \in Object \X Method |-> [i \in 1..Spare |-> spare[k][i]]]
    BY DEF Init
  <2> QED
    BY <2>2, <2>3, <2>4 DEF AInv
<1>2. AInv /\ [Next]_vars => AInv'
  <2> SUFFICES ASSUME AInv, [Next]_vars PROVE AInv'
    OBVIOUS
  <2>1. ASSUME NEW c \in Call, Step(c) PROVE AInv'
    BY <2>1, HandleSignKeeps, LookupKeeps, FetchKeeps, PublishKeeps, PrepareKeeps, ResolveKeeps,
       SerializeKeeps, AppendKeeps, StoreKeeps, MessageKeeps, TxKeeps,
       AssembleKeeps DEF Step
  <2>2. CASE Restart
    BY <2>2, RestartKeeps
  <2>3. CASE UNCHANGED vars
    BY <2>3 DEF vars, AInv
  <2> QED
    BY <2>1, <2>2, <2>3 DEF Next
<1> QED
  BY <1>1, <1>2, PTL DEF Spec

\* The type invariant: in particular a stored account always carries a key some
\* call made for it, and the array is never written past its end (anchor.go).
THEOREM AnchorTypeCorrect == Spec => []AnchorTypeOK
<1>1. AInv => AnchorTypeOK
  <2> SUFFICES ASSUME AInv PROVE AnchorTypeOK
    OBVIOUS
  <2>1. cache = <<>> \/ (Len(cache) = 1 /\ cache[1] \in Object /\ cache[1].source \in DOMAIN chain)
    BY DEF AInv, CacheInv
  <2>2. ASSUME NEW c \in Call
        PROVE  /\ call[c].pc \in Places /\ call[c].written <= Spare
               /\ Built(c) => /\ Len(call[c].hash) = Len(call[c].args)
                              /\ Len(call[c].data) = Len(call[c].args)
    BY DEF AInv, HandlerInv, Built, Hashed, Done
  <2>3. chain \in Chain /\ \A k \in DOMAIN stored : stored[k] \in {Fresh(c, k[2]) : c \in Call}
    BY DEF AInv, StoreInv
  <2> QED
    BY <2>1, <2>2, <2>3 DEF AnchorTypeOK, Places
<1> QED
  BY <1>1, AnchorInductive, PTL

\* Whatever the program, the arguments and the interleaving, a transaction and
\* the bytes to sign carry other words than the request's only if another build
\* wrote behind the same discriminator, one the IDL does not give (append in
\* BuildAnchorInstructions).
THEOREM MixedShared == Spec => []MixedOnlyIfShared
<1>1. AInv => MixedOnlyIfShared
  BY DEF AInv, MixedOnlyIfShared, Built, IxDef, IdlOf, Ix, ArrayInv, MayMix, Rival, Hashed, Done
<1> QED
  BY <1>1, AnchorInductive, PTL

\* For every IDL, an annotated PDA is derived from the addresses the instruction
\* finally carries, in whatever pass they were found (derivePDA).
THEOREM SeedsFinal == Spec => []PdaSeedsFinal
<1>1. AInv => PdaSeedsFinal
  <2> SUFFICES ASSUME AInv, NEW c \in Call, Built(c), NEW acc \in Range(IxDef(c).accounts),
                      Annotated(c, acc), NEW i \in DOMAIN acc.pda, acc.pda[i][1] = "account",
                      acc.pda[i][2] \notin MintNames, acc.pda[i][2] \in DOMAIN call[c].accounts
               PROVE  call[c].accounts[acc.name][3][i] = call[c].accounts[acc.pda[i][2]]
    BY DEF PdaSeedsFinal
  <2> DEFINE ix == Ix(call[c], chain)
  <2>1. IxDef(c) = ix
    BY DEF IxDef, IdlOf, Ix
  <2>2. /\ ResolvedInv(c, call[c].mint, call[c].accounts, ix)
        /\ Names(ix) \subseteq DOMAIN call[c].accounts
    BY DEF AInv, HandlerInv, Built, Done
  <2> HIDE DEF ix
  <2>3. AddressInv(c, call[c].mint, call[c].accounts, ix, acc)
    BY <2>1, <2>2 DEF ResolvedInv, Names
  <2>4. SeedsInv(acc, call[c].accounts)
    BY <2>3 DEF AddressInv, Annotated, PlainAnnotated
  <2> QED
    BY <2>4 DEF SeedsInv
<1> QED
  BY <1>1, AnchorInductive, PTL

\* For every IDL, a signed transaction has all the signatures its message asks
\* for, except at addresses the IDL fixes (AssembleSignedTxWithExtra).
THEOREM SlotsAllFilled == Spec => []SlotsFilled
<1>1. AInv => SlotsFilled
  <2> SUFFICES ASSUME AInv, NEW c \in Call, call[c].pc = "signed", NEW k \in Required(c)
               PROVE  k \in call[c].signed \/ k[1] = "fixed"
    BY DEF SlotsFilled
  <2>1. Required(c) = Slots(call[c], Ix(call[c], chain))
    BY DEF Required, Slots, IxDef, IdlOf, Ix
  <2> QED
    BY <2>1 DEF AInv, HandlerInv
<1> QED
  BY <1>1, AnchorInductive, PTL
=============================================================================

----------------------------- MODULE MCPipeline -----------------------------
(***************************************************************************)
(* Instances of Pipeline for TLC: per chain the fields its adapter reads.  *)
(***************************************************************************)
EXTENDS Pipeline, TLC

Base == [vm |-> "evm", derived |-> TRUE, to |-> <<>>, value |-> Empty, data |-> "",
         method |-> "", params |-> "ok", call |-> "", key1 |-> SystemKey, signers |-> FALSE,
         mint |-> FALSE, rpc |-> FALSE, carried |-> "same"]

\* Recipients of EVM and Cosmos requests, and those of Solana requests.
One  == {<<Plain(a)>> : a \in Addr \ Twins}
Pair == {<<Plain(a), Plain(b)>> : a, b \in Addr \ Twins}
Twin == {<<Plain(a)>> : a \in Twins}
Zero == <<Plain(ZeroAddr)>>
Odd  == {<<[form |-> "odd", of |-> a]>> : a \in (Addr \ Twins) \cup {ZeroAddr}}
Bare == {<<[form |-> "bare", of |-> a]>> : a \in Addr \ Twins}

PaddedOne == [kind |-> "padded", n |-> 1]
Malformed == {Number(-1), [kind |-> "text", n |-> 0], [kind |-> "trailing", n |-> 1]}

EvmRequest ==
    {[Base EXCEPT !.to = t, !.value = Number(1)] : t \in One \cup Pair \cup {Zero}}
    \cup {[Base EXCEPT !.to = t] : t \in One \cup Odd \cup Bare}
    \cup {[Base EXCEPT !.to = t, !.value = v] : t \in One, v \in {PaddedOne, Number(4), Number(5)}}
    \cup {[Base EXCEPT !.to = Zero, !.value = v] : v \in Malformed}
    \cup {[Base EXCEPT !.to = t, !.carried = c] : t \in One, c \in {"noBytes", "otherBytes"}}
    \cup {[Base EXCEPT !.to = t, !.carried = "noTx"] : t \in Pair}
    \cup {Base, [Base EXCEPT !.derived = FALSE, !.call = "anchor"],
          [Base EXCEPT !.to = Zero, !.data = "bad"], [Base EXCEPT !.to = Zero, !.params = "bad"]}

CosmosRequest ==
    LET B == [Base EXCEPT !.vm = "tendermint", !.value = Number(1)] IN
    {[B EXCEPT !.to = t, !.method = m] : t \in One \cup Pair, m \in {"", "redelegate"}}
    \cup {[B EXCEPT !.to = t, !.method = "delegate"] : t \in One}
    \cup {[B EXCEPT !.to = t, !.value = v] : t \in One, v \in {PaddedOne, Number(2)}}
    \cup {[B EXCEPT !.to = Zero, !.value = v] : v \in Malformed \cup {Empty, Number(1), Number(3)}}
    \cup {[B EXCEPT !.to = Zero, !.method = "other"], [B EXCEPT !.to = Zero, !.params = "bad"]}

SolanaRequest ==
    LET B == [Base EXCEPT !.vm = "solana"] IN
    {[B EXCEPT !.to = t, !.value = Number(1), !.mint = m, !.rpc = rpc] :
        t \in Twin, m, rpc \in BOOLEAN}
    \cup {[B EXCEPT !.to = <<Plain(Self)>>, !.value = Number(1)]}
    \cup {[B EXCEPT !.to = t, !.value = v] : t \in Twin, v \in Malformed \cup {Number(3), Number(4)}}
    \cup {[B EXCEPT !.to = t] : t \in Odd}
    \cup {[B EXCEPT !.call = "instructions", !.params = "bad"]}
    \cup {[B EXCEPT !.call = "instructions", !.key1 = a, !.rpc = TRUE, !.value = v] :
             a \in Twins, v \in {Empty, [kind |-> "text", n |-> 0]}}
    \cup {[B EXCEPT !.call = "anchor", !.signers = s] : s \in BOOLEAN}

NoChainRequest == {[Base EXCEPT !.vm = "none", !.to = Zero]}

MCRequest == EvmRequest \cup CosmosRequest \cup SolanaRequest \cup NoChainRequest

Sym == Permutations(Id) \cup Permutations(Addr \ Twins) \cup Permutations(Twins)
=============================================================================

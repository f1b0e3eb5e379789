------------------------------ MODULE MCAnchor ------------------------------
(***************************************************************************)
(* Instances of Anchor for TLC: one staking program, its accounts in every *)
(* order.                                                                  *)
(***************************************************************************)
EXTENDS Anchor, TLC

Account(name, kind, base) ==
    [name |-> name, kind |-> kind, base |-> base, signer |-> FALSE, fixed |-> FALSE,
     pda |-> <<>>, program |-> "", long |-> FALSE]

Authority == [Account("authority", "payer", "") EXCEPT !.signer = TRUE]
Vault == Account("vault", "plain", "")
VaultToken == Account("vault_token_account", "token", "vault")
VaultAuthority == Account("vault_authority", "authority", "vault")
TokenProgram == Account("token_program", "program", "")
MintAccount == Account("mint", "mint", "")
\* seeds = ["receipt", position.key(), mint], position from the vault
Receipt == [Account("receipt", "plain", "") EXCEPT
              !.pda = << <<"const", "receipt">>, <<"account", "position">>, <<"account", "mint">> >>]
Position == [Account("position", "plain", "") EXCEPT
               !.pda = << <<"account", "vault">>, <<"arg", 1>> >>, !.program = "token_program"]
\* a name of more than 32 bytes, created by one method and used by the other
NewRecord == [Account("protocol_wide_reward_distribution_record", "plain", "")
                EXCEPT !.signer = TRUE, !.long = TRUE]
OldRecord == [NewRecord EXCEPT !.signer = FALSE]

Orders(accs) == {s \in [1..Cardinality(accs) -> accs] : Range(s) = accs}

\* own: the IDL gives the discriminators of the two methods.
Ix(accounts, words, bump, own) ==
    [accounts |-> accounts, words |-> words, bump |-> bump, own |-> own]
IdlWith(own, accounts, bump) ==
    [m \in {"initialize", "stake"} |->
        IF m = "stake" THEN Ix(accounts, 1, bump, own)
        ELSE Ix(<<Authority, NewRecord>>, 2, "", own)]

\* Annotated PDAs, in every order, published in one of the two ways.
AnnotatedChain ==
    {[s \in {"metadata"} |-> IdlWith(TRUE, order, "receipt")] :
        order \in Orders({Receipt, Position, Vault})}
\* The account one method creates is an account of the other.
RecordChain == {[s \in {"metadata"} |-> IdlWith(TRUE, <<OldRecord>>, "")]}
\* Heuristic accounts under the old format, with a generic bump.
HeuristicChain ==
    {[s \in {"legacy"} |-> IdlWith(FALSE, order, "any")] :
        order \in Orders({Vault, VaultToken, VaultAuthority})}
\* A program published both ways.
BothChain ==
    {[s \in {"metadata", "legacy"} |->
        IdlWith(s = "metadata", <<MintAccount, TokenProgram, VaultToken>>, "")]}
\* The new format without discriminators: one method's arguments fit behind the
\* hash, the other's do not.
ComputedChain ==
    {[s \in {"metadata"} |->
        [m \in {"initialize", "stake"} |->
            Ix(<<MintAccount>>, IF m = "stake" THEN 2 ELSE 3, "", FALSE)]]}

MCChain == AnnotatedChain \cup HeuristicChain \cup RecordChain \cup BothChain \cup ComputedChain

Sym == Permutations(Call) \cup Permutations(Word)
=============================================================================

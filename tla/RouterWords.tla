----------------------------- MODULE RouterWords -----------------------------
(***************************************************************************)
(* The words of an ElectricRouter call: one packed word per pool, and how  *)
(* the contract reads each back (`_unpack`), taking a token the word does  *)
(* not name from the pool itself (`_derive` and the getters under it).     *)
(***************************************************************************)
EXTENDS Integers, Sequences, FiniteSets

CONSTANTS
    Token,          \* the ERC20s, and NATIVE for ether
    NATIVE,
    Pool,           \* what a word can name; a vault is a Pool and a Token
    NoToken,        \* what a getter that answers nothing decodes to
    Coins,          \* [Pool -> Seq(Token)], the answers of coins(i)
    ShareToken,     \* [Pool -> Token or NoToken], lp_token() / token() / self
    Underlying,     \* [Pool -> Token or NoToken], asset() / underlying() / ...
    ONE             \* the scale of frac and min_rate, 1e18 in the contract

ASSUME MarketAssumption ==
    /\ NATIVE \in Token /\ NoToken \notin Token
    /\ Coins \in [Pool -> Seq(Token)]
    /\ ShareToken \in [Pool -> Token \cup {NoToken}]
    /\ Underlying \in [Pool -> Token \cup {NoToken}]
    /\ ONE \in Nat \ {0}

----------------------------------------------------------------------------
(* Leg kinds, as ArcKind groups them for token derivation.                 *)

SwapKinds     == {"SWAP_STABLE", "SWAP_CRYPTO"}
DepositKinds  == {"DEPOSIT_FIXED", "DEPOSIT_DYN", "DEPOSIT_FIXED_NOFLAG"}
WithdrawKinds == {"WITHDRAW_STABLE", "WITHDRAW_CRYPTO"}
WrapKinds     == {"ERC4626_DEPOSIT", "WSTETH_WRAP", "LEND_MINT"}
UnwrapKinds   == {"ERC4626_REDEEM", "WSTETH_UNWRAP", "LEND_REDEEM"}
Kind == SwapKinds \cup DepositKinds \cup WithdrawKinds \cup WrapKinds
          \cup UnwrapKinds \cup {"WRAP_NATIVE", "STAKE_NATIVE", "UNWRAP_NATIVE"}

Word == [pool: Pool, kind: Kind, i: Nat, j: Nat, frac: Nat, min_rate: Nat,
         in_ref: Nat, out_ref: Nat]
Step == [pool: Pool, kind: Kind, token_in: Token, token_out: Token,
         frac: Nat, min_rate: Nat]
----------------------------------------------------------------------------
(* Unpacking: which token a leg spends and produces.                       *)

\* `_coin`: the pool's own list, NoToken where both spellings of coins() miss.
Coin(pool, index) ==
    IF index + 1 \in DOMAIN Coins[pool] THEN Coins[pool][index + 1] ELSE NoToken

\* A wrapper is its own share: the pool address read as a token.
Itself(pool) == IF pool \in Token THEN pool ELSE NoToken

Derive(pool, kind, index, entering) ==
    CASE kind \in SwapKinds -> Coin(pool, index)
      [] kind \in DepositKinds ->
            IF entering THEN Coin(pool, index) ELSE ShareToken[pool]
      [] kind \in WithdrawKinds ->
            IF entering THEN ShareToken[pool] ELSE Coin(pool, index)
      [] kind \in WrapKinds ->
            IF entering THEN Underlying[pool] ELSE Itself(pool)
      [] kind \in UnwrapKinds ->
            IF entering THEN Itself(pool) ELSE Underlying[pool]
      [] kind \in {"WRAP_NATIVE", "STAKE_NATIVE"} ->
            IF entering THEN NATIVE ELSE Itself(pool)
      [] kind = "UNWRAP_NATIVE" ->
            IF entering THEN Itself(pool) ELSE NATIVE

\* A token named by a reference, or read off the pool where the reference is 0.
Resolve(ref, tokens, derived) ==
    IF ref = 0 THEN derived
    ELSE IF ref \in DOMAIN tokens THEN tokens[ref] ELSE NoToken

Unpack(word, tokens) ==
    [pool      |-> word.pool,
     kind      |-> word.kind,
     token_in  |-> Resolve(word.in_ref, tokens,
                           Derive(word.pool, word.kind, word.i, TRUE)),
     token_out |-> Resolve(word.out_ref, tokens,
                           Derive(word.pool, word.kind, word.j, FALSE)),
     frac      |-> word.frac,
     min_rate  |-> word.min_rate]

\* The asserts of `_unpack` and of the getters it calls.
Unpacks(step) ==
    /\ step.frac > 0 /\ step.frac <= ONE
    /\ step.token_in \in Token /\ step.token_out \in Token
    /\ step.token_in # step.token_out

=============================================================================

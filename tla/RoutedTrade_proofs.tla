------------------------- MODULE RoutedTrade_proofs --------------------------
(***************************************************************************)
(* What ElectricRouter promises, for every market, every set of calls and  *)
(* every scale, on its own and for the calls that RouteCall makes.         *)
(*                                                                         *)
(* On its own its variables keep their types, it keeps nothing between     *)
(* transactions, and what it answers its receiver has been paid.           *)
(*                                                                         *)
(* Called as encoded, a leg's bound is clear of its quote and no looser    *)
(* than was granted, and the bounds of a route add up to the answer the    *)
(* caller was promised.  The router's balances stay ahead of the walk that *)
(* `walk_bounds` took when the call was encoded: what a leg spends grows   *)
(* with the balance it is a fraction of, and so does what it leaves, so a  *)
(* balance that is ahead before a leg is ahead after it.                   *)
(*                                                                         *)
(* The second half is the encoder itself, for a route of any length: what  *)
(* it makes of a route is a call whose walk is the one the contract's own  *)
(* legs take, so that the promises above are promises about the routes     *)
(* that realize hands over, in the tokens they meant.                      *)
(*                                                                         *)
(* Last, the budget a caller names, for a route of any shape: the division *)
(* walks a route once and gets its dearest path, no path spends more than  *)
(* that, and a path that spends it is what keeps the division from giving  *)
(* too little.                                                             *)
(***************************************************************************)
EXTENDS RoutedTrade, MCRouteCall, TLAPS, NaturalsInduction, WellFoundedInduction,
        FiniteSetTheorems

(* Lemmas about the operators.                                             *)

\* A transfer that takes no more than there is leaves a ledger.
LEMMA MoveLedger ==
    ASSUME NEW ledger \in Ledger, NEW from, NEW to, NEW t \in Token,
           NEW out \in Nat, NEW in \in Nat,
           from \in Account => out <= ledger[from][t]
    PROVE  Move(ledger, from, to, t, out, in) \in Ledger
  BY DEF Move, Ledger

\* What one account holds after a transfer.
LEMMA MoveAt ==
    ASSUME NEW ledger, NEW from, NEW to, NEW t, NEW out, NEW in,
           NEW a \in Account, NEW u \in Token
    PROVE  Move(ledger, from, to, t, out, in)[a][u] =
             ledger[a][u] - (IF a = from /\ u = t THEN out ELSE 0)
                          + (IF a = to /\ u = t THEN in ELSE 0)
  BY DEF Move

\* A transfer of z takes z, or a unit less, and credits no more than that.
LEMMA DebitedRange ==
    ASSUME NEW t, NEW z \in Nat, NEW out \in Debited(t, z)
    PROVE  out \in Nat /\ out <= z /\ (t \notin RoundsDown => out = z) /\ z - out <= 1
  BY DEF Debited

LEMMA CreditedRange ==
    ASSUME NEW t, NEW out \in Nat, NEW in \in Credited(t, out)
    PROVE  in \in Nat /\ in <= out
  BY DEF Credited

\* What a pool is read for is a token or nothing.
LEMMA DeriveToken ==
    ASSUME NEW pool \in Pool, NEW kind \in Kind, NEW index \in Nat, NEW entering \in BOOLEAN
    PROVE  Derive(pool, kind, index, entering) \in Token \cup {NoToken}
  <1>1. Coin(pool, index) \in Token \cup {NoToken}
    BY MarketAssumption DEF Coin
  <1>2. Itself(pool) \in Token \cup {NoToken}
    BY DEF Itself
  <1>3. ShareToken[pool] \in Token \cup {NoToken} /\ Underlying[pool] \in Token \cup {NoToken}
    BY MarketAssumption
  <1> QED
    BY <1>1, <1>2, <1>3, MarketAssumption
       DEF Derive, Kind, SwapKinds, DepositKinds, WithdrawKinds, WrapKinds, UnwrapKinds

\* The legs of a call the router accepts are steps between two tokens.
LEMMA StepsType ==
    ASSUME NEW c \in Calls, Accepts(c)
    PROVE  /\ Steps(c) \in Seq(Step) /\ Len(Steps(c)) = Len(c.words)
           /\ Len(c.words) \in Nat \ {0}
           /\ \A n \in 1..Len(c.words) : Steps(c)[n] \in Step /\ Unpacks(Steps(c)[n])
  <1>1. IsCall(c) /\ c.words \in Seq(Word) /\ Len(c.words) \in Nat \ {0}
    BY ConstantAssumption DEF Accepts, IsCall
  <1>2. ASSUME NEW n \in 1..Len(c.words)
        PROVE  Unpack(c.words[n], c.tokens) \in Step /\ Unpacks(Unpack(c.words[n], c.tokens))
    <2>1. c.words[n] \in Word
      BY <1>1, <1>2
    <2>2. Unpacks(Unpack(c.words[n], c.tokens))
      BY DEF Accepts
    <2> QED
      BY <2>1, <2>2 DEF Unpack, Unpacks, Word, Step
  <1> QED
    BY <1>1, <1>2 DEF Steps

\* The ends of such a route are tokens.
LEMMA EndsType ==
    ASSUME NEW c \in Calls, Accepts(c)
    PROVE  /\ Steps(c)[1].token_in \in Token
           /\ Steps(c)[Len(Steps(c))].token_out \in Token
  <1>1. Len(Steps(c)) = Len(c.words) /\ Len(c.words) \in Nat \ {0}
    BY StepsType
  <1>2. \A n \in 1..Len(c.words) : Steps(c)[n] \in Step
    BY StepsType
  <1>3. Steps(c)[1] \in Step /\ Steps(c)[Len(Steps(c))] \in Step
    BY <1>1, <1>2
  <1> QED
    BY <1>3 DEF Step

\* `seen` holds a token of some leg at every index.
LEMMA SeenToken ==
    ASSUME steps \in Seq(Step), NEW n \in Nat \ {0}, n <= 2 * N
    PROVE  Seen(n) \in Token /\ Seen(n) \in Touched(steps)
  <1>1. CASE n % 2 = 1
    <2> DEFINE m == (n + 1) \div 2
    <2>1. m \in DOMAIN steps /\ Seen(n) = steps[m].token_in
      BY <1>1 DEF N, Seen
    <2>2. steps[m] \in Step
      BY <2>1
    <2> QED
      BY <2>1, <2>2 DEF Touched, Step
  <1>2. CASE n % 2 # 1
    <2> DEFINE m == n \div 2
    <2>1. m \in DOMAIN steps /\ Seen(n) = steps[m].token_out
      BY <1>2 DEF N, Seen
    <2>2. steps[m] \in Step
      BY <2>1
    <2> QED
      BY <2>1, <2>2 DEF Touched, Step
  <1> QED
    BY <1>1, <1>2

\* ... and every token of every leg is at some index.
LEMMA SeenAll ==
    ASSUME steps \in Seq(Step), NEW t \in Touched(steps)
    PROVE  \E n \in 1..(2 * N) : Seen(n) = t
  <1>1. PICK m \in DOMAIN steps : steps[m].token_in = t \/ steps[m].token_out = t
    BY DEF Touched
  <1>2. m \in Nat /\ m >= 1 /\ m <= N /\ N \in Nat
    BY <1>1 DEF N
  <1>3. CASE steps[m].token_in = t
    <2>1. (2 * m - 1) % 2 = 1 /\ ((2 * m - 1) + 1) \div 2 = m /\ 2 * m - 1 \in 1..(2 * N)
      BY <1>2
    <2> QED
      BY <2>1, <1>3 DEF Seen
  <1>4. CASE steps[m].token_out = t
    <2>1. (2 * m) % 2 = 0 /\ (2 * m) \div 2 = m /\ 2 * m \in 1..(2 * N)
      BY <1>2
    <2> QED
      BY <2>1, <1>4 DEF Seen
  <1> QED
    BY <1>1, <1>3, <1>4

----------------------------------------------------------------------------
(* Types.  A leg is a step between two tokens only while there is one at    *)
(* hand, so the types lean on where the transaction stands.                 *)

\* A transaction in flight runs the legs of a call the router accepted.
InFlight ==
    pc # "idle" =>
        /\ call \in Calls /\ Accepts(call) /\ steps = Steps(call)
        /\ k <= N + 1
        /\ pc \in {"allow", "run", "retry", "settle"} => k <= N

LEMMA Flying ==
    ASSUME TypeOK, InFlight, pc # "idle"
    PROVE  /\ N \in Nat \ {0} /\ last \in Token
           /\ \A n \in 1..N : steps[n] \in Step /\ Unpacks(steps[n])
           /\ IsCall(call)
           /\ call.receiver \in Account /\ call.receiver # Router
  <1>1. call \in Calls /\ Accepts(call) /\ steps = Steps(call)
    BY DEF InFlight
  <1>2. N \in Nat \ {0} /\ \A n \in 1..N : steps[n] \in Step /\ Unpacks(steps[n])
    BY <1>1, StepsType DEF N
  <1>3. last \in Token
    BY <1>2 DEF last, Step
  <1>4. IsCall(call)
    BY <1>1, ConstantAssumption
  <1> QED
    BY <1>1, <1>2, <1>3, <1>4 DEF IsCall, Accepts

\* The tokens of the leg at hand.
LEMMA AtHand ==
    ASSUME TypeOK, InFlight, pc # "idle", k <= N
    PROVE  /\ leg \in Step /\ Unpacks(leg)
           /\ leg.token_in \in Touched(steps) /\ leg.token_out \in Touched(steps)
           /\ Held(leg.token_in) \in Nat /\ Held(leg.token_out) \in Nat
           /\ Share(leg) \in Nat
  <1>1. k \in 1..N /\ N = Len(steps)
    BY Flying DEF TypeOK, N
  <1>2. leg \in Step /\ Unpacks(leg)
    BY <1>1, Flying DEF leg
  <1>3. k \in DOMAIN steps
    BY <1>1 DEF TypeOK
  <1>4. leg.token_in \in Touched(steps) /\ leg.token_out \in Touched(steps)
    BY <1>3 DEF leg, Touched
  <1>5. Held(leg.token_in) \in Nat /\ Held(leg.token_out) \in Nat
    BY <1>2 DEF TypeOK, Held, Ledger, Account, Step
  <1>6. Share(leg) \in Nat
    <2>1. leg.frac \in Nat /\ ONE \in Nat \ {0}
      BY <1>2, MarketAssumption DEF Step
    <2>2. Held(leg.token_in) * leg.frac \in Nat
      BY <1>5, <2>1
    <2> QED
      BY <2>1, <2>2 DEF Share
  <1> QED
    BY <1>2, <1>4, <1>5, <1>6

\* A pull leaves a ledger, and the router holds all the more.
LEMMA PullLedger ==
    ASSUME TypeOK, NEW c \in Calls, NEW token \in Token,
           ValueMatches(c, token), CanPay(c, token),
           NEW debit \in Debited(token, c.amount_in), NEW credit \in Credited(token, debit)
    PROVE  /\ Pull(c, token, debit, credit) \in Ledger
           /\ \A t \in Token \ {token} :
                Pull(c, token, debit, credit)[Router][t] = Held(t)
  <1> DEFINE paid == Move(bal, c.sender, Router, NATIVE, c.value, c.value)
  <1>1. IsCall(c) /\ c.sender \in User /\ c.sender # Router /\ c.sender \in Account
        /\ c.value \in Nat /\ c.amount_in \in Nat /\ Router \in Account
    BY ConstantAssumption DEF IsCall, Account
  <1>2. NATIVE \in Token /\ bal \in Ledger
    BY MarketAssumption DEF TypeOK
  <1>3. paid \in Ledger
    BY <1>1, <1>2, MoveLedger DEF CanPay
  <1>4. CASE token = NATIVE
    <2>1. \A t \in Token \ {token} : paid[Router][t] = Held(t)
      BY <1>1, <1>2, <1>4 DEF Move, Held, Ledger
    <2> QED
      BY <1>3, <1>4, <2>1 DEF Pull
  <1>5. CASE token # NATIVE
    <2>1. debit \in Nat /\ debit <= c.amount_in /\ credit \in Nat
      BY <1>1, DebitedRange, CreditedRange
    <2>2. paid[c.sender][token] = bal[c.sender][token]
      BY <1>1, <1>2, <1>5 DEF Move, Ledger
    <2>3. debit <= paid[c.sender][token]
      BY <1>1, <1>2, <1>5, <2>1, <2>2 DEF CanPay, Ledger
    <2>4. Move(paid, c.sender, Router, token, debit, credit) \in Ledger
      BY <1>3, <2>1, <2>3, MoveLedger
    <2>5. c.value = 0
      BY <1>5 DEF ValueMatches
    <2>6. \A t \in Token \ {token} : paid[Router][t] = Held(t)
      BY <1>1, <1>2, <2>5 DEF Move, Held, Ledger
    <2>7. \A t \in Token \ {token} :
            Move(paid, c.sender, Router, token, debit, credit)[Router][t] = paid[Router][t]
      BY <1>1, <1>3 DEF Move, Ledger
    <2> QED
      BY <1>5, <2>4, <2>6, <2>7 DEF Pull
  <1> QED
    BY <1>4, <1>5

\* A trade leaves a ledger: it moves the leg's two tokens and no other.
LEMMA TradeLedger ==
    ASSUME TypeOK, InFlight, pc # "idle", k <= N,
           NEW taken \in Nat, NEW paid \in Nat, taken <= Held(leg.token_in),
           Trade(taken, paid)
    PROVE  /\ bal' \in Ledger
           /\ allowance' \in [Token -> [Pool -> Allowance]]
           /\ earned' \in Int
           /\ bal'[Router][leg.token_in] = Held(leg.token_in) - taken
           /\ bal'[Router][leg.token_out] = Held(leg.token_out) + paid
           /\ \A t \in Token \ {leg.token_in, leg.token_out} : bal'[Router][t] = Held(t)
  <1> DEFINE out == Move(bal, Router, World, leg.token_in, taken, taken)
             both == Move(out, World, Router, leg.token_out, paid, paid)
  <1>1. /\ leg \in Step /\ leg.token_in # leg.token_out
        /\ leg.token_in \in Token /\ leg.token_out \in Token
        /\ leg.pool \in Pool
    BY AtHand DEF Unpacks, Step
  <1>2. /\ World \notin Account /\ Router \in Account /\ Router # World
        /\ bal \in Ledger
    BY ConstantAssumption DEF Account, TypeOK
  <1>3. out \in Ledger
    BY <1>1, <1>2, MoveLedger DEF Held
  <1>4. both \in Ledger
    BY <1>1, <1>2, <1>3, MoveLedger
  <1>5. bal' = both
    BY DEF Trade
  <1>6. \A t \in Token : both[Router][t] =
            Held(t) - (IF t = leg.token_in THEN taken ELSE 0)
                    + (IF t = leg.token_out THEN paid ELSE 0)
    BY <1>1, <1>2 DEF Move, Held, Ledger
  <1>7. \A t \in Token : Held(t) \in Nat
    BY <1>2 DEF Held, Ledger
  <1>8. earned' \in Int
    <2>1. earned \in Int
      BY DEF TypeOK
    <2> QED
      BY <2>1 DEF Trade
  <1>9. allowance' \in [Token -> [Pool -> Allowance]]
    <2>1. allowance \in [Token -> [Pool -> Allowance]]
      BY DEF TypeOK
    <2>2. \A standing : Spent(standing) \subseteq Allowance
      BY DEF Spent, Allowance
    <2>3. CASE Pulls(leg) /\ taken > 0
      <3>1. PICK rest \in Spent(allowance[leg.token_in][leg.pool]) :
              allowance' = [allowance EXCEPT ![leg.token_in][leg.pool] = rest]
        BY <2>3 DEF Trade
      <3>2. rest \in Allowance
        BY <2>2
      <3> QED
        BY <1>1, <2>1, <3>1, <3>2
    <2>4. CASE ~(Pulls(leg) /\ taken > 0)
      BY <2>1, <2>4 DEF Trade
    <2> QED
      BY <2>3, <2>4
  <1> QED
    BY <1>1, <1>4, <1>5, <1>6, <1>7, <1>8, <1>9

LEMMA TypeInit == Init => TypeOK /\ InFlight
  <1> SUFFICES ASSUME Init PROVE TypeOK /\ InFlight
    OBVIOUS
  <1>1. bal \in Ledger
    BY ConstantAssumption DEF Init, Ledger, Account
  <1>2. allowance \in [Token -> [Pool -> Allowance]]
    BY DEF Init, Allowance
  <1>3. donated \in [Token -> Nat]
    BY DEF Init
  <1>4. steps \in Seq(Step) /\ snapshot \in Ledger \X [Token -> [Pool -> Allowance]]
    BY <1>1, <1>2 DEF Init, Idle
  <1> QED
    BY <1>1, <1>2, <1>3, <1>4 DEF Init, Idle, TypeOK, InFlight

\* Going idle resets what a transaction keeps.
LEMMA ResetType ==
    ASSUME Reset, bal' \in Ledger, allowance' \in [Token -> [Pool -> Allowance]],
           donated' \in [Token -> Nat], txs' \in Nat
    PROVE  TypeOK' /\ InFlight'
  BY DEF Reset, TypeOK, InFlight

LEMMA TypeExecute ==
    ASSUME TypeOK, InFlight, NEW c \in Calls, Execute(c)
    PROVE  /\ TypeOK' /\ InFlight'
           /\ \A t \in Token \ Touched(steps') : Held(t)' = Held(t)
  <1> DEFINE legs == Steps(c)
             first == legs[1].token_in
  <1>1. /\ legs \in Seq(Step) /\ Len(legs) \in Nat \ {0}
        /\ \A n \in 1..Len(legs) : legs[n] \in Step
        /\ Accepts(c)
    BY StepsType DEF Execute
  <1>2. first \in Token /\ 1 \in DOMAIN legs /\ legs[Len(legs)].token_out \in Token
    BY <1>1 DEF Step
  <1>3. PICK debit \in Debited(first, c.amount_in) :
          \E credit \in Credited(first, debit) : bal' = Pull(c, first, debit, credit)
    BY DEF Execute
  <1>4. PICK credit \in Credited(first, debit) : bal' = Pull(c, first, debit, credit)
    BY <1>3
  <1>5. /\ bal' \in Ledger
        /\ \A t \in Token \ {first} : bal'[Router][t] = Held(t)
    <2>1. ValueMatches(c, first) /\ CanPay(c, first)
      BY DEF Execute
    <2> HIDE DEF first
    <2> QED
      BY <1>2, <1>3, <1>4, <2>1, PullLedger
  <1>6. opening' \in Nat
    <2>1. opening' = bal'[Router][legs[Len(legs)].token_out]
      BY DEF Execute, Opening
    <2> QED
      BY <1>2, <1>5, <2>1 DEF Ledger, Account
  <1>7. steps' = legs /\ call' = c /\ k' = 1 /\ pc' = "leg"
    BY DEF Execute
  <1>8. TypeOK'
    <2>1. snapshot' \in Ledger \X [Token -> [Pool -> Allowance]]
      BY DEF Execute, TypeOK
    <2>2. txs' \in Nat
      BY DEF Execute, TypeOK
    <2> HIDE DEF legs, first
    <2> QED
      BY <1>1, <1>5, <1>6, <1>7, <2>1, <2>2, SMTT(30) DEF Execute, TypeOK
  <1>9. InFlight'
    <2> HIDE DEF first
    <2> QED
      BY <1>1, <1>7 DEF InFlight, N
  <1>10. first \in Touched(steps')
    BY <1>2, <1>7 DEF Touched
  <1> QED
    BY <1>5, <1>8, <1>9, <1>10 DEF Held

\* A leg that trades: both spellings end the same way.
LEMMA TypeTrade ==
    ASSUME TypeOK, InFlight, FourArgExchange \/ RunLeg
    PROVE  /\ TypeOK' /\ InFlight'
           /\ \A t \in Token \ Touched(steps) : Held(t)' = Held(t)
  <1>1. pc \in {"run", "retry"} /\ k <= N /\ pc # "idle"
    BY DEF FourArgExchange, RunLeg, InFlight
  <1>2. leg \in Step /\ Held(leg.token_in) \in Nat /\ dx \in Nat /\ MaxPay \in Nat
        /\ leg.token_in \in Touched(steps) /\ leg.token_out \in Touched(steps)
    BY <1>1, AtHand, ConstantAssumption DEF TypeOK
  <1>3. \E taken \in Nat, paid \in Nat : taken <= Held(leg.token_in) /\ Trade(taken, paid)
    <2>1. Debited(leg.token_in, dx) \subseteq Nat
      BY <1>2, DebitedRange
    <2>2. 0..MaxPay \subseteq Nat
      BY <1>2
    <2>3. \E taken \in {0} \cup Debited(leg.token_in, dx), paid \in 0..MaxPay :
            taken <= Held(leg.token_in) /\ Trade(taken, paid)
      BY DEF FourArgExchange, RunLeg
    <2> QED
      BY <2>1, <2>2, <2>3
  <1>4. PICK taken \in Nat, paid \in Nat : taken <= Held(leg.token_in) /\ Trade(taken, paid)
    BY <1>3
  <1>5. /\ bal' \in Ledger /\ allowance' \in [Token -> [Pool -> Allowance]]
        /\ earned' \in Int
        /\ \A t \in Token \ {leg.token_in, leg.token_out} : bal'[Router][t] = Held(t)
    BY <1>1, <1>4, TradeLedger
  <1>6. /\ UNCHANGED <<call, steps, k, dx, before, opening, answer, s, snapshot,
                       donated, txs>>
        /\ pc' \in {"retry", "settle"}
    BY DEF FourArgExchange, RunLeg
  <1>7. TypeOK'
    BY <1>5, <1>6 DEF TypeOK
  <1>8. InFlight'
    BY <1>1, <1>6 DEF InFlight, N
  <1> QED
    BY <1>2, <1>5, <1>7, <1>8 DEF Held

\* The sweep pays out one slot of `seen`, all of it or all but a unit.
LEMMA TypeSweep ==
    ASSUME TypeOK, InFlight, SweepOne
    PROVE  /\ TypeOK' /\ InFlight'
           /\ Seen(s) \in Touched(steps)
           /\ bal'[Router][Seen(s)] \in 0..(IF Seen(s) \in RoundsDown THEN 1 ELSE 0)
           /\ \A t \in Token \ {Seen(s)} : Held(t)' = Held(t)
  <1> DEFINE t == Seen(s)
  <1>1. /\ t \in Token /\ t \in Touched(steps)
    BY SeenToken DEF SweepOne, TypeOK
  <1>2. /\ call.receiver \in Account /\ call.receiver # Router /\ Router \in Account
        /\ bal \in Ledger
    BY Flying DEF SweepOne, Account, TypeOK
  <1>3. Held(t) \in Nat
    BY <1>1, <1>2 DEF Held, Ledger
  <1>0. PICK debit \in Debited(t, Held(t)) :
          \E credit \in Credited(t, debit) :
            bal' = Move(bal, Router, call.receiver, t, debit, credit)
    BY DEF SweepOne, Payee
  <1>4. PICK credit \in Credited(t, debit) :
          bal' = Move(bal, Router, call.receiver, t, debit, credit)
    BY <1>0
  <1>5. /\ debit \in Nat /\ debit <= Held(t) /\ credit \in Nat
        /\ Held(t) - debit \in 0..(IF t \in RoundsDown THEN 1 ELSE 0)
    <2>1. /\ debit \in Nat /\ debit <= Held(t) /\ Held(t) - debit <= 1
          /\ t \notin RoundsDown => debit = Held(t)
      BY <1>3, DebitedRange
    <2>2. credit \in Nat
      BY <2>1, CreditedRange
    <2> QED
      BY <1>3, <2>1, <2>2
  <1> HIDE DEF t
  <1>6. bal' \in Ledger
    BY <1>1, <1>2, <1>4, <1>5, MoveLedger DEF Held
  <1>7. bal'[Router][t] = Held(t) - debit
    BY <1>1, <1>2, <1>3, <1>4, <1>5 DEF Move, Held
  <1>8. \A u \in Token \ {t} : bal'[Router][u] = Held(u)
    BY <1>2, <1>4 DEF Move, Held, Ledger
  <1>9. TypeOK'
    BY <1>6 DEF TypeOK, SweepOne
  <1>10. InFlight'
    BY DEF InFlight, SweepOne, N
  <1> QED
    BY <1>1, <1>5, <1>7, <1>8, <1>9, <1>10 DEF t, Held

LEMMA TypeStep ==
    ASSUME TypeOK, InFlight, [Next]_vars
    PROVE  TypeOK' /\ InFlight'
  <1>1. ASSUME NEW c \in Calls, Execute(c) PROVE TypeOK' /\ InFlight'
    BY <1>1, TypeExecute
  <1>2. CASE SkipLeg
    <2>1. k' \in Nat \ {0} /\ k' <= N + 1
      BY <1>2, Flying DEF SkipLeg, TypeOK
    <2> QED
      BY <1>2, <2>1 DEF SkipLeg, chain, TypeOK, InFlight, N
  <1>3. CASE StartLeg
    <2>1. dx' \in Nat /\ before' \in Nat
      BY <1>3, AtHand DEF StartLeg
    <2> QED
      BY <1>3, <2>1 DEF StartLeg, chain, TypeOK, InFlight, N
  <1>4. CASE Allow
    <2>1. allowance' \in [Token -> [Pool -> Allowance]]
      <3>1. NextAllowance(allowance[leg.token_in][leg.pool]) \in Allowance
        BY DEF NextAllowance, Allowance
      <3> QED
        BY <1>4, <3>1 DEF Allow, TypeOK
    <2> QED
      BY <1>4, <2>1 DEF Allow, locals, TypeOK, InFlight, N
  <1>5. CASE FourArgExchange \/ RunLeg
    BY <1>5, TypeTrade
  <1>6. CASE SettleLeg
    <2>1. k' \in Nat \ {0} /\ k' <= N + 1
      BY <1>6, Flying DEF SettleLeg, TypeOK, InFlight
    <2> QED
      BY <1>6, <2>1 DEF SettleLeg, chain, TypeOK, InFlight, N
  <1>7. CASE Finish
    <2>1. Produced \in Nat
      <3>1. last \in Token /\ opening \in Nat /\ bal \in Ledger
        BY <1>7, Flying DEF Finish, TypeOK
      <3>2. Held(last) \in Nat
        BY <3>1 DEF Held, Ledger, Account
      <3> QED
        BY <1>7, <3>1, <3>2 DEF Finish, Produced
    <2> QED
      BY <1>7, <2>1 DEF Finish, chain, TypeOK, InFlight, N
  <1>8. CASE SweepOne
    BY <1>8, TypeSweep
  <1>9. CASE Return
    <2>1. donated' \in [Token -> Nat]
      BY <1>9 DEF Return, TypeOK
    <2> QED
      BY <1>9, <2>1, ResetType DEF Return, chain, TypeOK
  <1>10. CASE Revert
    BY <1>10, ResetType DEF Revert, TypeOK
  <1>11. ASSUME NEW u \in User, NEW t \in Token, NEW z \in 1..MaxGift, Donate(u, t, z)
         PROVE  TypeOK' /\ InFlight'
    <2>1. u \in Account /\ z \in Nat /\ bal \in Ledger
      BY <1>11 DEF Account, TypeOK
    <2>2. bal' \in Ledger
      BY <1>11, <2>1, MoveLedger DEF Donate
    <2> QED
      BY <1>11, <2>1, <2>2 DEF Donate, TypeOK, InFlight
  <1>12. CASE UNCHANGED vars
    BY <1>12 DEF vars, chain, locals, TypeOK, InFlight, N
  <1> QED
    BY <1>1, <1>2, <1>3, <1>4, <1>5, <1>6, <1>7, <1>8, <1>9, <1>10, <1>11, <1>12
       DEF Next

\* Whatever the market, the calls and the pools: every variable keeps its type.
\* No balance goes below zero, no answer either, and a leg is always a step
\* between two tokens (the asserts of `_unpack`, the payer's balance).
THEOREM TypeCorrect == Spec => [](TypeOK /\ InFlight)
  <1>1. TypeOK /\ InFlight /\ [Next]_vars => (TypeOK /\ InFlight)'
    BY TypeStep
  <1> QED
    BY TypeInit, <1>1, PTL DEF Spec

----------------------------------------------------------------------------
(* What the router keeps.  A transaction leaves alone the tokens it does not *)
(* touch and sweeps the ones it does, so what has to be carried through it   *)
(* is what the router held when it began, which a revert puts back.          *)

Dust(t) == 0..(IF t \in RoundsDown THEN 1 ELSE 0)

\* RouterKeepsNothing, made inductive.
Keeps ==
    /\ RouterKeepsNothing
    /\ pc # "idle" =>
         /\ \A t \in Token : snapshot[1][Router][t] - donated[t] \in Dust(t)
         /\ \A t \in Token \ Touched(steps) : Held(t) = snapshot[1][Router][t]
    /\ pc = "sweep" => \A n \in 1..(s - 1) : Held(Seen(n)) \in Dust(Seen(n))

LEMMA KeepsInit == Init => Keeps
  <1> SUFFICES ASSUME Init PROVE Keeps
    OBVIOUS
  <1>1. pc = "idle" /\ \A t \in Token : Held(t) = 0 /\ donated[t] = 0
    BY DEF Init, Idle, Held, Account
  <1> QED
    BY <1>1 DEF Keeps, RouterKeepsNothing

\* A leg changes what the router holds of its own two tokens, and ends nothing.
LEMMA KeepsLeg ==
    ASSUME Keeps, pc # "idle", pc' \notin {"idle", "sweep"},
           UNCHANGED <<steps, snapshot, donated>>,
           \A t \in Token \ Touched(steps) : Held(t)' = Held(t)
    PROVE  Keeps'
  BY DEF Keeps, RouterKeepsNothing, Dust

LEMMA KeepsStep ==
    ASSUME TypeOK, InFlight, Keeps, [Next]_vars
    PROVE  Keeps'
  <1>1. ASSUME NEW c \in Calls, Execute(c) PROVE Keeps'
    <2>1. /\ pc = "idle" /\ pc' = "leg"
          /\ snapshot'[1] = bal /\ donated' = donated
      BY <1>1 DEF Execute
    <2>2. \A t \in Token \ Touched(steps') : Held(t)' = Held(t)
      BY <1>1, TypeExecute
    <2> QED
      BY <2>1, <2>2 DEF Keeps, RouterKeepsNothing, Dust, Held
  <1>2. CASE SkipLeg \/ StartLeg \/ Allow \/ SettleLeg
    <2>1. /\ pc # "idle" /\ pc' \notin {"idle", "sweep"}
          /\ UNCHANGED <<bal, steps, snapshot, donated>>
      BY <1>2 DEF SkipLeg, StartLeg, Allow, SettleLeg, chain, locals
    <2>2. \A t \in Token : Held(t)' = Held(t)
      BY <2>1 DEF Held
    <2> QED
      BY <2>1, <2>2, KeepsLeg
  <1>3. CASE FourArgExchange \/ RunLeg
    <2>1. /\ pc # "idle" /\ pc' \notin {"idle", "sweep"}
          /\ UNCHANGED <<steps, snapshot, donated>>
      BY <1>3 DEF FourArgExchange, RunLeg
    <2> QED
      BY <1>3, <2>1, TypeTrade, KeepsLeg
  <1>4. CASE Finish
    <2>1. /\ pc = "leg" /\ pc' = "sweep" /\ s' = 1
          /\ UNCHANGED <<bal, steps, snapshot, donated>>
      BY <1>4 DEF Finish, chain
    <2>2. 1..(s' - 1) = {}
      BY <2>1
    <2> QED
      BY <2>1, <2>2 DEF Keeps, RouterKeepsNothing, Dust, Held
  <1>5. CASE SweepOne
    <2>1. /\ pc = "sweep" /\ pc' = "sweep" /\ s' = s + 1 /\ s \in Nat \ {0} /\ s <= 2 * N
          /\ UNCHANGED <<steps, snapshot, donated>>
      BY <1>5 DEF SweepOne, TypeOK
    <2>2. /\ Seen(s) \in Touched(steps)
          /\ bal'[Router][Seen(s)] \in Dust(Seen(s))
          /\ \A t \in Token \ {Seen(s)} : bal'[Router][t] = Held(t)
      BY <1>5, TypeSweep DEF Dust, Held
    <2>3. ASSUME NEW n \in 1..s
          PROVE  bal'[Router][Seen(n)] \in Dust(Seen(n))
      <3>1. CASE Seen(n) = Seen(s)
        BY <2>2, <3>1
      <3>2. CASE Seen(n) # Seen(s)
        <4>1. n \in 1..(s - 1)
          BY <2>1, <3>2
        <4>2. Seen(n) \in Token
          <5>1. n \in Nat \ {0} /\ n <= 2 * N
            BY <2>1, Flying
          <5> QED
            BY <5>1, SeenToken DEF TypeOK
        <4> QED
          BY <2>1, <2>2, <3>2, <4>1, <4>2 DEF Keeps
      <3> QED
        BY <3>1, <3>2
    <2>4. \A n \in 1..(s' - 1) : Held(Seen(n))' \in Dust(Seen(n))'
      <3>1. s' - 1 = s
        BY <2>1
      <3> QED
        BY <2>1, <2>3, <3>1 DEF Held, Seen, Dust
    <2>5. \A t \in Token \ Touched(steps) : Held(t)' = Held(t)
      BY <2>2 DEF Held
    <2> QED
      BY <2>1, <2>4, <2>5 DEF Keeps, RouterKeepsNothing, Dust
  <1>6. CASE Return
    <2>1. /\ pc = "sweep" /\ pc' = "idle" /\ bal' = bal /\ s > 2 * N
          /\ donated' = [t \in Token |-> IF t \in Touched(steps) THEN 0 ELSE donated[t]]
      BY <1>6 DEF Return, Reset, chain
    <2>2. ASSUME NEW t \in Touched(steps) PROVE Held(t) \in Dust(t)
      <3>1. PICK n \in 1..(2 * N) : Seen(n) = t
        BY SeenAll DEF TypeOK
      <3>2. n \in 1..(s - 1)
        BY <2>1, <3>1, Flying DEF TypeOK
      <3> QED
        BY <2>1, <3>1, <3>2 DEF Keeps
    <2>3. ASSUME NEW t \in Token PROVE Held(t) - donated'[t] \in Dust(t)
      <3>1. CASE t \in Touched(steps)
        <4>1. Held(t) \in Dust(t) /\ donated'[t] = 0
          BY <2>1, <2>2, <3>1
        <4> QED
          BY <4>1 DEF Dust
      <3>2. CASE t \notin Touched(steps)
        BY <2>1, <3>2 DEF Keeps
      <3> QED
        BY <3>1, <3>2
    <2> QED
      BY <2>1, <2>3 DEF Keeps, RouterKeepsNothing, Dust, Held
  <1>7. CASE Revert
    <2>1. /\ pc # "idle" /\ pc' = "idle" /\ bal' = snapshot[1] /\ donated' = donated
      BY <1>7 DEF Revert, Reset, Fails
    <2> QED
      BY <2>1 DEF Keeps, RouterKeepsNothing, Dust, Held
  <1>8. ASSUME NEW u \in User, NEW t \in Token, NEW z \in 1..MaxGift, Donate(u, t, z)
        PROVE  Keeps'
    <2>1. /\ pc = "idle" /\ pc' = "idle"
          /\ donated[t] = 0 /\ donated' = [donated EXCEPT ![t] = z]
          /\ bal' = Move(bal, u, Router, t, z, z)
      BY <1>8 DEF Donate
    <2>2. /\ u # Router /\ u \in Account /\ Router \in Account /\ z \in Nat
          /\ bal \in Ledger /\ donated \in [Token -> Nat]
      BY ConstantAssumption, <1>8 DEF Account, TypeOK
    <2>3. ASSUME NEW v \in Token PROVE bal'[Router][v] - donated'[v] = Held(v) - donated[v]
      <3>1. Held(v) \in Nat /\ donated[v] \in Nat
        BY <2>2 DEF Held, Ledger
      <3>2. bal'[Router][v] = Held(v) - 0 + (IF v = t THEN z ELSE 0)
        BY <2>1, <2>2 DEF Move, Held
      <3> QED
        BY <2>1, <2>2, <3>1, <3>2
    <2> QED
      BY <2>1, <2>3 DEF Keeps, RouterKeepsNothing, Dust, Held
  <1>9. CASE UNCHANGED vars
    BY <1>9 DEF vars, chain, locals, Keeps, RouterKeepsNothing, Dust, Held, Seen
  <1> QED
    BY <1>1, <1>2, <1>3, <1>4, <1>5, <1>6, <1>7, <1>8, <1>9 DEF Next

\* However many transactions, whatever their routes and whatever the pools pay:
\* between transactions the router holds what was pushed to it and no route has
\* touched, but for the unit a rounding token keeps back (the sweep, and the
\* msg.value asserts without which ether would pile up).
THEOREM KeepsNothing == Spec => []RouterKeepsNothing
  <1>1. Init => TypeOK /\ InFlight /\ Keeps
    BY TypeInit, KeepsInit
  <1>2. TypeOK /\ InFlight /\ Keeps /\ [Next]_vars => (TypeOK /\ InFlight /\ Keeps)'
    BY TypeStep, KeepsStep
  <1>3. Keeps => RouterKeepsNothing
    BY DEF Keeps
  <1> QED
    BY <1>1, <1>2, <1>3, PTL DEF Spec

----------------------------------------------------------------------------
(* What the answer counts, and who is paid it.                             *)

\* The balance of the last output moves with what the legs earn of it.
Counts ==
    /\ pc = "idle" => earned = 0
    /\ pc \in {"leg", "allow", "run", "retry", "settle"} => earned = Held(last) - opening
    /\ AnswerIsWhatTheLegsEarned

LEMMA CountsStep ==
    ASSUME TypeOK, InFlight, Counts, [Next]_vars
    PROVE  Counts'
  <1>1. ASSUME NEW c \in Calls, Execute(c) PROVE Counts'
    <2>1. TypeOK' /\ InFlight'
      BY <1>1, TypeExecute
    <2>2. /\ pc = "idle" /\ pc' = "leg" /\ earned' = earned
          /\ opening' = bal'[Router][last']
      BY <1>1 DEF Execute, Opening, last, N
    <2>3. last' \in Token
      <3>1. steps' = Steps(c) /\ Accepts(c)
        BY <1>1 DEF Execute
      <3> QED
        BY <3>1, EndsType DEF last, N
    <2>4. bal'[Router][last'] \in Nat
      BY <2>1, <2>3, SMTT(30) DEF TypeOK, Ledger, Account
    <2> QED
      BY <2>2, <2>4 DEF Counts, Held, AnswerIsWhatTheLegsEarned
  <1>2. CASE SkipLeg \/ StartLeg \/ Allow \/ SettleLeg
    BY <1>2 DEF SkipLeg, StartLeg, Allow, SettleLeg, chain, locals, Counts, Held, last, N,
                AnswerIsWhatTheLegsEarned
  <1>3. CASE FourArgExchange \/ RunLeg
    <2>1. /\ pc \in {"run", "retry"} /\ pc' \in {"retry", "settle"} /\ k <= N
          /\ UNCHANGED <<steps, opening>>
      BY <1>3 DEF FourArgExchange, RunLeg, InFlight
    <2>2. /\ leg.token_in \in Token /\ leg.token_out \in Token /\ last \in Token
          /\ leg.token_in # leg.token_out /\ dx \in Nat /\ MaxPay \in Nat
          /\ Held(last) \in Nat /\ opening \in Nat /\ earned \in Int
          /\ Held(leg.token_in) \in Nat
      <3>1. /\ leg \in Step /\ Unpacks(leg) /\ last \in Token /\ MaxPay \in Nat
            /\ Held(leg.token_in) \in Nat
        BY <2>1, AtHand, Flying, ConstantAssumption
      <3>2. Held(last) \in Nat
        BY <3>1 DEF TypeOK, Held, Ledger, Account
      <3> QED
        BY <3>1, <3>2 DEF Unpacks, Step, TypeOK
    <2>3. \E taken \in Nat, paid \in Nat : taken <= Held(leg.token_in) /\ Trade(taken, paid)
      <3>1. Debited(leg.token_in, dx) \subseteq Nat /\ 0..MaxPay \subseteq Nat
        BY <2>2, DebitedRange
      <3>2. \E taken \in {0} \cup Debited(leg.token_in, dx), paid \in 0..MaxPay :
              taken <= Held(leg.token_in) /\ Trade(taken, paid)
        BY <1>3 DEF FourArgExchange, RunLeg
      <3> QED
        BY <3>1, <3>2
    <2>4. PICK taken \in Nat, paid \in Nat :
            taken <= Held(leg.token_in) /\ Trade(taken, paid)
      BY <2>3
    <2>5. /\ bal'[Router][leg.token_in] = Held(leg.token_in) - taken
          /\ bal'[Router][leg.token_out] = Held(leg.token_out) + paid
          /\ \A t \in Token \ {leg.token_in, leg.token_out} : bal'[Router][t] = Held(t)
      BY <2>1, <2>4, TradeLedger
    <2>6. earned' = earned + (IF leg.token_out = last THEN paid ELSE 0)
                           - (IF leg.token_in = last THEN taken ELSE 0)
      BY <2>4 DEF Trade
    <2>7. earned = Held(last) - opening
      BY <2>1 DEF Counts
    <2>8. earned' = bal'[Router][last] - opening
      BY <2>2, <2>5, <2>6, <2>7
    <2> QED
      BY <2>1, <2>8 DEF Counts, Held, last, N, AnswerIsWhatTheLegsEarned
  <1>4. CASE Finish
    BY <1>4 DEF Finish, Produced, chain, Counts, Held, last, N, AnswerIsWhatTheLegsEarned
  <1>5. CASE SweepOne
    BY <1>5 DEF SweepOne, Counts, AnswerIsWhatTheLegsEarned
  <1>6. CASE Return \/ Revert
    BY <1>6 DEF Return, Revert, Reset, Counts, AnswerIsWhatTheLegsEarned
  <1>7. ASSUME NEW u \in User, NEW t \in Token, NEW z \in 1..MaxGift, Donate(u, t, z)
        PROVE  Counts'
    BY <1>7 DEF Donate, Counts, AnswerIsWhatTheLegsEarned
  <1>8. CASE UNCHANGED vars
    BY <1>8 DEF vars, chain, locals, Counts, Held, last, N, AnswerIsWhatTheLegsEarned
  <1> QED
    BY <1>1, <1>2, <1>3, <1>4, <1>5, <1>6, <1>7, <1>8 DEF Next

\* Neither what was pulled in nor what was lying on the router is ever counted:
\* the answer is what the pools paid of the last output, less what was spent.
THEOREM AnswerIsEarned == Spec => []AnswerIsWhatTheLegsEarned
  <1>1. Init => TypeOK /\ InFlight /\ Counts
    BY TypeInit DEF Init, Idle, Counts, AnswerIsWhatTheLegsEarned
  <1>2. TypeOK /\ InFlight /\ Counts /\ [Next]_vars => (TypeOK /\ InFlight /\ Counts)'
    BY TypeStep, CountsStep
  <1>3. Counts => AnswerIsWhatTheLegsEarned
    BY DEF Counts
  <1> QED
    BY <1>1, <1>2, <1>3, PTL DEF Spec

\* No approval is ever written over a standing one, whatever the pools leave of
\* theirs (`_allow`, for the tokens that refuse it).
THEOREM NeverOverwritten == Spec => NoAllowanceOverwritten
  <1> DEFINE OnlyNew ==
               \A t \in Token, p \in Pool :
                  allowance'[t][p] = "max" /\ allowance[t][p] # "max" /\ pc' # "idle"
                      => allowance[t][p] = "none"
  <1>1. TypeOK /\ InFlight /\ [Next]_vars => [OnlyNew]_vars
    <2> SUFFICES ASSUME TypeOK, InFlight, Next PROVE OnlyNew
      BY DEF vars
    <2>1. allowance \in [Token -> [Pool -> Allowance]]
      BY DEF TypeOK
    <2>2. CASE UNCHANGED allowance \/ pc' = "idle"
      BY <2>2
    <2>3. CASE Allow
      <3>1. allowance' = [allowance EXCEPT ![leg.token_in][leg.pool] =
                            NextAllowance(allowance[leg.token_in][leg.pool])]
        BY <2>3 DEF Allow
      <3>2. \A standing : NextAllowance(standing) = "max" => standing = "none"
        BY DEF NextAllowance
      <3> QED
        BY <2>1, <3>1, <3>2
    <2>4. CASE FourArgExchange \/ RunLeg
      <3>1. PICK taken, paid : Trade(taken, paid)
        BY <2>4 DEF FourArgExchange, RunLeg
      <3>2. CASE Pulls(leg) /\ taken > 0
        <4>1. PICK rest \in Spent(allowance[leg.token_in][leg.pool]) :
                allowance' = [allowance EXCEPT ![leg.token_in][leg.pool] = rest]
          BY <3>1, <3>2 DEF Trade
        <4>2. rest = "max" => allowance[leg.token_in][leg.pool] = "max"
          BY DEF Spent
        <4> QED
          BY <2>1, <4>1, <4>2
      <3>3. CASE ~(Pulls(leg) /\ taken > 0)
        BY <3>1, <3>3 DEF Trade
      <3> QED
        BY <3>2, <3>3
    <2> QED
      BY <2>2, <2>3, <2>4
         DEF Next, Execute, SkipLeg, StartLeg, SettleLeg, Finish, SweepOne, Return,
             Revert, Reset, Donate, chain
  <1> QED
    BY TypeCorrect, <1>1, PTL DEF Spec, NoAllowanceOverwritten

\* What the sender's own pull took of the last output, were it the input too.
Pulled == IF call.receiver = call.sender /\ steps[1].token_in = last
          THEN call.amount_in ELSE 0

\* The receiver's side of the sweep: untouched until the last output's turn,
\* and richer by the answer from then on.
Paid(upto) ==
    LET there == bal[call.receiver][last] + Pulled
        then == snapshot[1][call.receiver][last]
    IN  IF pc = "sweep" /\ \E n \in 1..upto : Seen(n) = last
        THEN then + answer <= there
        ELSE /\ then <= there
             /\ pc = "sweep" => answer <= Held(last)

Pays == pc # "idle" /\ last \notin FeeOnTransfer \cup RoundsDown => Paid(s - 1)

LEMMA PaysExecute ==
    ASSUME TypeOK, InFlight, NEW c \in Calls, Execute(c)
    PROVE  Pays'
  <1> DEFINE legs == Steps(c)
             first == legs[1].token_in
             final == legs[Len(legs)].token_out
             rec == c.receiver
  <1>1. /\ pc' = "leg" /\ call' = c /\ steps' = legs /\ last' = final
        /\ snapshot'[1] = bal /\ Accepts(c)
    BY DEF Execute, last, N
  <1>2. first \in Token /\ final \in Token
    BY <1>1, EndsType
  <1>3. /\ rec \in Account /\ rec # Router /\ c.sender \in User /\ c.sender \in Account
        /\ c.sender # Router /\ c.value \in Nat /\ c.amount_in \in Nat
        /\ Router \in Account /\ bal \in Ledger
    BY <1>1, ConstantAssumption DEF IsCall, Accepts, Account, TypeOK
  <1>4. PICK debit \in Debited(first, c.amount_in) :
          \E credit \in Credited(first, debit) : bal' = Pull(c, first, debit, credit)
    BY DEF Execute
  <1>5. PICK credit \in Credited(first, debit) : bal' = Pull(c, first, debit, credit)
    BY <1>4
  <1>6. debit \in Nat /\ debit <= c.amount_in
    BY <1>3, DebitedRange
  <1>7. ValueMatches(c, first)
    BY DEF Execute
  <1>8. bal[rec][final] \in Nat
    BY <1>2, <1>3 DEF Ledger
  <1> DEFINE gone == IF rec = c.sender /\ first = final THEN c.amount_in ELSE 0
  <1>9. bal[rec][final] <= bal'[rec][final] + gone
    <2> HIDE DEF legs, first, final, rec
    <2>1. CASE first = NATIVE
      BY <1>2, <1>3, <1>5, <1>7, <1>8, <2>1 DEF Pull, Move, ValueMatches
    <2>2. CASE first # NATIVE
      BY <1>2, <1>3, <1>5, <1>6, <1>7, <1>8, <2>2 DEF Pull, Move, ValueMatches
    <2> QED
      BY <2>1, <2>2
  <1>10. Pulled' = gone
    BY <1>1 DEF Pulled
  <1> HIDE DEF gone
  <1> QED
    BY <1>1, <1>9, <1>10 DEF Pays, Paid

\* Until the sweep only the router's balances move.
LEMMA PaysLeg ==
    ASSUME Pays, pc # "idle", pc # "sweep", pc' # "sweep",
           UNCHANGED <<call, steps, snapshot>>,
           bal'[call.receiver][last] = bal[call.receiver][last]
    PROVE  Pays'
  BY DEF Pays, Paid, Pulled, last, N

LEMMA PaysSweep ==
    ASSUME TypeOK, InFlight, Pays, SweepOne
    PROVE  Pays'
  <1> SUFFICES ASSUME last \notin FeeOnTransfer \cup RoundsDown
               PROVE  Paid(s - 1)'
    BY DEF Pays, SweepOne, last, N
  <1>1. /\ pc = "sweep" /\ pc' = "sweep" /\ s' = s + 1 /\ s \in Nat \ {0} /\ s <= 2 * N
        /\ UNCHANGED <<call, steps, snapshot, answer>>
        /\ last' = last /\ Pulled' = Pulled
    BY DEF SweepOne, TypeOK, last, N, Pulled
  <1>2. /\ call.receiver \in Account /\ call.receiver # Router /\ last \in Token
        /\ Router \in Account /\ bal \in Ledger /\ answer \in Nat
        /\ Seen(s) \in Token /\ call.amount_in \in Nat
        /\ snapshot[1][call.receiver][last] \in Nat
    <2>1. /\ call.receiver \in Account /\ call.receiver # Router /\ last \in Token
          /\ IsCall(call)
      BY <1>1, Flying
    <2>2. Seen(s) \in Token
      BY <1>1, SeenToken DEF TypeOK
    <2>3. snapshot[1] \in Ledger
      BY DEF TypeOK
    <2>4. bal \in Ledger /\ answer \in Nat /\ Router \in Account
      BY DEF TypeOK, Account
    <2>5. snapshot[1][call.receiver][last] \in Nat
      BY <2>1, <2>3 DEF Ledger
    <2>6. call.amount_in \in Nat
      BY <2>1 DEF IsCall
    <2> QED
      BY <2>1, <2>2, <2>4, <2>5, <2>6
  <1> DEFINE rec == call.receiver
             there == bal[rec][last] + Pulled
             then == snapshot[1][rec][last]
  <1>3. Pulled \in Nat /\ bal[rec][last] \in Nat /\ Held(last) \in Nat
    BY <1>2 DEF Pulled, Ledger, Held
  <1>4. Paid(s - 1)
    BY <1>1 DEF Pays
  <1>5. \A n : Seen(n)' = Seen(n)
    BY <1>1 DEF Seen
  <1>6. PICK debit \in Debited(Seen(s), Held(Seen(s))) :
          \E credit \in Credited(Seen(s), debit) :
            bal' = Move(bal, Router, rec, Seen(s), debit, credit)
    BY DEF SweepOne, Payee
  <1>7. PICK credit \in Credited(Seen(s), debit) :
          bal' = Move(bal, Router, rec, Seen(s), debit, credit)
    BY <1>6
  <1>8. CASE Seen(s) = last
    <2>1. debit = Held(last) /\ credit = Held(last)
      BY <1>6, <1>7, <1>8 DEF Debited, Credited
    <2>2. bal'[rec][last] = bal[rec][last] + Held(last)
      BY <1>2, <1>3, <1>7, <1>8, <2>1 DEF Move
    <2>3. then + answer <= there + Held(last)
      <3>1. CASE \E n \in 1..(s - 1) : Seen(n) = last
        BY <1>1, <1>2, <1>3, <1>4, <3>1 DEF Paid
      <3>2. CASE ~ \E n \in 1..(s - 1) : Seen(n) = last
        BY <1>1, <1>2, <1>3, <1>4, <3>2 DEF Paid
      <3> QED
        BY <3>1, <3>2
    <2>4. then + answer <= bal'[rec][last] + Pulled
      BY <1>3, <2>2, <2>3
    <2>5. s \in 1..(s' - 1)
      BY <1>1
    <2>6. \E n \in 1..(s' - 1) : Seen(n)' = last'
      BY <1>1, <1>5, <1>8, <2>5
    <2> QED
      BY <1>1, <2>4, <2>6 DEF Paid
  <1>9. CASE Seen(s) # last
    <2>1. bal'[rec][last] = bal[rec][last]
      BY <1>2, <1>3, <1>7, <1>9 DEF Move
    <2>2. bal'[Router][last] = Held(last)
      BY <1>2, <1>3, <1>7, <1>9 DEF Move, Held
    <2>3. (\E n \in 1..(s' - 1) : Seen(n)' = last') <=> \E n \in 1..(s - 1) : Seen(n) = last
      <3>1. \A n \in 1..(s' - 1) : n \in 1..(s - 1) \/ n = s
        BY <1>1
      <3>2. \A n \in 1..(s - 1) : n \in 1..(s' - 1)
        BY <1>1
      <3> QED
        BY <1>1, <1>5, <1>9, <3>1, <3>2
    <2> QED
      BY <1>1, <1>4, <2>1, <2>2, <2>3 DEF Paid, Held
  <1> QED
    BY <1>8, <1>9

LEMMA PaysStep ==
    ASSUME TypeOK, InFlight, Pays, [Next]_vars
    PROVE  Pays'
  <1>1. ASSUME NEW c \in Calls, Execute(c) PROVE Pays'
    BY <1>1, PaysExecute
  <1>2. CASE SkipLeg \/ StartLeg \/ Allow \/ SettleLeg
    <2>1. /\ pc \notin {"idle", "sweep"} /\ pc' # "sweep"
          /\ UNCHANGED <<bal, call, steps, snapshot>>
      BY <1>2 DEF SkipLeg, StartLeg, Allow, SettleLeg, chain, locals
    <2> QED
      BY <2>1, PaysLeg
  <1>3. CASE FourArgExchange \/ RunLeg
    <2>1. /\ pc \notin {"idle", "sweep"} /\ pc' # "sweep"
          /\ UNCHANGED <<call, steps, snapshot>>
      BY <1>3 DEF FourArgExchange, RunLeg
    <2>2. /\ call.receiver \in Account /\ call.receiver # Router /\ call.receiver # World
          /\ last \in Token /\ bal \in Ledger
      BY <2>1, Flying, ConstantAssumption DEF TypeOK
    <2>3. PICK taken, paid : Trade(taken, paid)
      BY <1>3 DEF FourArgExchange, RunLeg
    <2>4. bal'[call.receiver][last] = bal[call.receiver][last]
      BY <2>2, <2>3 DEF Trade, Move, Ledger
    <2> QED
      BY <2>1, <2>4, PaysLeg
  <1>4. CASE Finish
    <2>1. /\ pc = "leg" /\ pc' = "sweep" /\ s' = 1
          /\ UNCHANGED <<bal, call, steps, snapshot, opening>>
          /\ answer' = Held(last) - opening
      BY <1>4 DEF Finish, Produced, chain
    <2>2. last \in Token /\ Held(last) \in Nat /\ opening \in Nat
      <3>1. last \in Token
        BY <2>1, Flying
      <3> QED
        BY <3>1 DEF TypeOK, Held, Ledger, Account
    <2>3. answer' <= Held(last)
      BY <2>1, <2>2
    <2>4. 1..(s' - 1) = {}
      BY <2>1
    <2> QED
      BY <2>1, <2>3, <2>4 DEF Pays, Paid, Pulled, Held, last, N
  <1>5. CASE SweepOne
    BY <1>5, PaysSweep
  <1>6. CASE Return \/ Revert
    BY <1>6 DEF Return, Revert, Reset, Pays
  <1>7. ASSUME NEW u \in User, NEW t \in Token, NEW z \in 1..MaxGift, Donate(u, t, z)
        PROVE  Pays'
    BY <1>7 DEF Donate, Pays
  <1>8. CASE UNCHANGED vars
    BY <1>8 DEF vars, chain, locals, Pays, Paid, Pulled, Held, Seen, last, N
  <1> QED
    BY <1>1, <1>2, <1>3, <1>4, <1>5, <1>6, <1>7, <1>8 DEF Next

\* The receiver a call names is the one the sweep pays, at least the answer.
THEOREM ReceiverPaid == Spec => []ReceiverIsPaid
  <1>1. Init => TypeOK /\ InFlight /\ Pays
    BY TypeInit DEF Init, Idle, Pays
  <1>2. TypeOK /\ InFlight /\ Pays /\ [Next]_vars => (TypeOK /\ InFlight /\ Pays)'
    BY TypeStep, PaysStep
  <1>3. TypeOK /\ InFlight /\ Pays => ReceiverIsPaid
    <2> SUFFICES ASSUME TypeOK, InFlight, Pays, Swept,
                        last \notin FeeOnTransfer \cup RoundsDown
                 PROVE  snapshot[1][call.receiver][last] + answer
                          <= bal[call.receiver][last] + Pulled
      BY DEF ReceiverIsPaid, Pulled
    <2>1. N \in Nat \ {0} /\ s \in Nat /\ s > 2 * N /\ pc = "sweep"
      BY Flying DEF Swept, TypeOK
    <2>2. Seen(2 * N) = last
      <3>1. (2 * N) % 2 = 0 /\ (2 * N) \div 2 = N
        BY <2>1
      <3> QED
        BY <3>1 DEF Seen, last
    <2>3. 2 * N \in 1..(s - 1)
      BY <2>1
    <2> QED
      BY <2>1, <2>2, <2>3 DEF Pays, Paid
  <1> QED
    BY <1>1, <1>2, <1>3, PTL DEF Spec

----------------------------------------------------------------------------
(* Floor division, as the contract and the encoder both do it.             *)

LEMMA ScaledMonotone ==
    ASSUME NEW z \in Nat, NEW y \in Nat, y <= z, NEW f \in Nat, NEW o \in Nat \ {0}
    PROVE  /\ (z * f) \div o \in Nat /\ (y * f) \div o \in Nat
           /\ (y * f) \div o <= (z * f) \div o
  <1>1. z * f \in Nat /\ y * f \in Nat /\ y * f <= z * f
    OBVIOUS
  <1> QED
    BY <1>1

\* What is left of a larger balance, once a fraction of it is spent, is larger.
LEMMA RestMonotone ==
    ASSUME NEW z \in Nat, NEW y \in Nat, y <= z,
           NEW o \in Nat \ {0}, NEW f \in 0..o
    PROVE  y - (y * f) \div o <= z - (z * f) \div o
  <1> DEFINE a == (z * f) \div o
             b == (y * f) \div o
  <1>1. a \in Nat /\ b \in Nat /\ z * f \in Nat /\ y * f \in Nat
    BY ScaledMonotone
  <1>2. a * o <= z * f
    BY <1>1
  <1>3. y * f < (b + 1) * o
    BY <1>1
  <1>4. (z - y) * f <= (z - y) * o
    OBVIOUS
  <1>5. z * f - y * f = (z - y) * f
    OBVIOUS
  <1> HIDE DEF a, b
  <1>6. (a - (b + 1)) * o < (z - y) * o
    <2>1. (a - (b + 1)) * o = a * o - (b + 1) * o
      BY <1>1
    <2>2. a * o - (b + 1) * o < z * f - y * f
      <3> DEFINE ao == a * o
                 bo == (b + 1) * o
      <3>1. ao \in Int /\ bo \in Int
        BY <1>1
      <3> HIDE DEF ao, bo
      <3>2. ao - bo < z * f - y * f
        BY <1>1, <1>2, <1>3, <3>1 DEF ao, bo
      <3> QED
        BY <3>2 DEF ao, bo
    <2> QED
      BY <1>1, <1>4, <1>5, <2>1, <2>2
  <1>7. a - (b + 1) < z - y
    <2> DEFINE diff == a - (b + 1)
               e == z - y
    <2>1. diff \in Int /\ e \in Int /\ diff * o < e * o
      BY <1>1, <1>6
    <2> HIDE DEF diff, e
    <2>2. diff < e
      BY <2>1
    <2> QED
      BY <2>2 DEF diff, e
  <1> QED
    BY <1>1, <1>7 DEF a, b

----------------------------------------------------------------------------
(* The walk, seen from the machine.                                        *)

\* What realize and the tokens grant: routes end on an output they never spend,
\* and their input arrives whole.
WellRouted == \A c \in Calls : Accepts(c) => EndsOnItsOutput(c) /\ ArrivesWhole(c)

\* The balance of t the walk had before leg n.
Walked(n, t) == call.walk[n][t]

LEMMA WalkFacts ==
    ASSUME TypeOK, InFlight, pc # "idle"
    PROVE  /\ \A n \in 1..(N + 1) : call.walk[n] \in [Token -> Nat]
           /\ call.walk[1] = WalkStart(call)
           /\ \A n \in 1..N : call.walk[n + 1] = WalkLeg(call.walk[n], steps[n])
           /\ Promised(call) = Walked(N + 1, last)
           /\ WellRouted => \A n \in 1..N : steps[n].token_in # last
  <1>1. call \in Calls /\ Accepts(call) /\ steps = Steps(call)
    BY DEF InFlight
  <1>2. N = Len(call.words) /\ N \in Nat \ {0}
    BY <1>1, StepsType DEF N
  <1>3. call.walk \in Seq([Token -> Nat]) /\ IsWalk(call, call.walk)
    BY <1>1, WalkAssumption
  <1>4. \A n \in 1..(N + 1) : call.walk[n] \in [Token -> Nat]
    BY <1>2, <1>3 DEF IsWalk
  <1>5. last = LegsOf(call)[Len(call.words)].token_out
    BY <1>1, <1>2 DEF last, LegsOf
  <1> QED
    BY <1>1, <1>2, <1>3, <1>4, <1>5
       DEF IsWalk, LegsOf, Promised, Walked, WellRouted, EndsOnItsOutput

\* One leg of the walk, every figure of it a number.
LEMMA WalkedLeg ==
    ASSUME TypeOK, InFlight, pc # "idle", k <= N, WellRouted
    PROVE  LET owed == call.walk[k] IN
           /\ owed \in [Token -> Nat]
           /\ LeastIn(owed, leg) \in Nat /\ LeastIn(owed, leg) <= owed[leg.token_in]
           /\ LeastOut(owed, leg) \in Nat
           /\ \A t \in Token :
                Walked(k + 1, t) = owed[t] - (IF t = leg.token_in THEN LeastIn(owed, leg) ELSE 0)
                                        + (IF t = leg.token_out THEN LeastOut(owed, leg) ELSE 0)
           /\ leg.token_in # last /\ leg.token_in # leg.token_out
           /\ last \in Token /\ leg.token_in \in Token /\ leg.token_out \in Token
           /\ leg.min_rate \in Nat /\ leg.frac \in 0..ONE /\ ONE \in Nat \ {0}
  <1> DEFINE owed == call.walk[k]
  <1>1. k \in 1..N /\ N \in Nat \ {0} /\ last \in Token
    BY Flying DEF TypeOK
  <1>2. owed \in [Token -> Nat]
    BY <1>1, WalkFacts
  <1>3. /\ leg \in Step /\ Unpacks(leg) /\ ONE \in Nat \ {0}
    BY AtHand, MarketAssumption
  <1>4. /\ leg.token_in \in Token /\ leg.token_out \in Token /\ leg.min_rate \in Nat
        /\ leg.frac \in 0..ONE /\ leg.token_in # leg.token_out
    BY <1>3 DEF Step, Unpacks
  <1>5. owed[leg.token_in] \in Nat
    BY <1>2, <1>4
  <1> HIDE DEF owed
  <1>6. LeastIn(owed, leg) \in Nat /\ LeastIn(owed, leg) <= owed[leg.token_in]
    <2> DEFINE y == owed[leg.token_in]
               f == leg.frac
               b == (y * f) \div ONE
    <2>1. y \in Nat /\ f \in 0..ONE /\ ONE \in Nat \ {0}
      BY <1>3, <1>4, <1>5
    <2> HIDE DEF y, f
    <2>2. y * f \in Nat /\ y * f <= y * ONE
      BY <2>1
    <2>3. b \in Nat /\ b <= y
      BY <2>1, <2>2
    <2> QED
      BY <2>3 DEF LeastIn, y, f
  <1>7. LeastOut(owed, leg) \in Nat
    <2> DEFINE z == LeastIn(owed, leg)
               rate == leg.min_rate
    <2>1. z \in Nat /\ rate \in Nat /\ ONE \in Nat \ {0}
      BY <1>3, <1>4, <1>6
    <2> HIDE DEF z, rate
    <2>2. (z * rate) \div ONE \in Nat
      <3>1. z * rate \in Nat
        BY <2>1
      <3> QED
        BY <2>1, <3>1
    <2> QED
      BY <2>2 DEF LeastOut, z, rate
  <1>8. call.walk[k + 1] = WalkLeg(owed, leg) /\ leg.token_in # last
    BY <1>1, WalkFacts DEF leg, owed
  <1> QED
    BY <1>1, <1>2, <1>3, <1>4, <1>6, <1>7, <1>8 DEF WalkLeg, Walked, owed

----------------------------------------------------------------------------
(* Staying ahead.                                                          *)

\* The router holds at least what the walk had before leg n, and of the last
\* output as much again as it opened with.
Covers(n) ==
    /\ \A t \in Token : Walked(n, t) <= Held(t)
    /\ opening + Walked(n, last) <= Held(last)

\* The leg at hand as it started: what it spends, and what it starts from.
Started == dx = Share(leg) /\ before = Held(leg.token_out)

\* The leg at hand once its pool has traded: ahead but for what it has spent.
Traded ==
    LET owed == call.walk[k] IN
    /\ \A t \in Token \ {leg.token_in} : owed[t] <= Held(t)
    /\ owed[leg.token_in] - LeastIn(owed, leg) <= Held(leg.token_in)
    /\ LeastIn(owed, leg) <= dx
    /\ owed[leg.token_out] <= before
    /\ IF leg.token_out = last THEN opening + owed[last] <= before
                               ELSE opening + owed[last] <= Held(last)

Ahead ==
    /\ pc \in {"leg", "allow", "run", "retry"} => Covers(k)
    /\ pc \in {"allow", "run", "retry"} => Started
    /\ pc = "settle" => Traded
    /\ pc = "sweep" => Promised(call) <= answer

LEMMA AheadExecute ==
    ASSUME TypeOK, InFlight, WellRouted, NEW c \in Calls, Execute(c)
    PROVE  Ahead'
  <1> DEFINE legs == Steps(c)
             first == legs[1].token_in
             final == legs[Len(legs)].token_out
  <1>1. TypeOK' /\ InFlight'
    BY TypeExecute
  <1>2. /\ pc' = "leg" /\ k' = 1 /\ call' = c /\ steps' = legs
        /\ opening' = bal'[Router][final] /\ Accepts(c)
    BY DEF Execute, Opening
  <1>3. /\ Len(legs) = Len(c.words) /\ Len(legs) \in Nat \ {0}
        /\ first \in Token /\ final \in Token
    BY <1>2, StepsType, EndsType
  <1>4. c.walk \in Seq([Token -> Nat]) /\ c.walk[1] = WalkStart(c)
    BY <1>2, WalkAssumption DEF IsWalk
  <1>5. final # first /\ first \notin FeeOnTransfer \cup RoundsDown
    BY <1>2, <1>3 DEF WellRouted, EndsOnItsOutput, ArrivesWhole, LegsOf
  <1>6. \A t \in Token : bal'[Router][t] \in Nat
    BY <1>1, SMTT(30) DEF TypeOK, Ledger, Account
  <1>7. c.amount_in <= bal'[Router][first]
    <2>1. PICK debit \in Debited(first, c.amount_in) :
            \E credit \in Credited(first, debit) : bal' = Pull(c, first, debit, credit)
      BY DEF Execute
    <2>2. PICK credit \in Credited(first, debit) : bal' = Pull(c, first, debit, credit)
      BY <2>1
    <2>3. debit = c.amount_in /\ credit = c.amount_in
      BY <1>5, <2>1, <2>2 DEF Debited, Credited
    <2>4. /\ IsCall(c) /\ c.sender # Router /\ c.sender \in User
          /\ c.value \in Nat /\ c.amount_in \in Nat
          /\ Router \in Account /\ Held(first) \in Nat
      BY <1>3, ConstantAssumption DEF IsCall, Account, TypeOK, Held, Ledger
    <2>5. ValueMatches(c, first)
      BY DEF Execute
    <2> HIDE DEF legs, first, final
    <2>6. CASE first = NATIVE
      <3>1. bal'[Router][first] = Held(first) + c.amount_in
        BY <1>3, <2>2, <2>4, <2>5, <2>6 DEF Pull, Move, Held, ValueMatches
      <3> QED
        BY <2>4, <3>1
    <2>7. CASE first # NATIVE
      <3>1. bal'[Router][first] = Held(first) + c.amount_in
        BY <1>3, <2>2, <2>3, <2>4, <2>5, <2>7 DEF Pull, Move, Held, ValueMatches
      <3> QED
        BY <2>4, <3>1
    <2> QED
      BY <2>6, <2>7
  <1>8. \A t \in Token : c.walk[1][t] = IF t = first THEN c.amount_in ELSE 0
    BY <1>4 DEF WalkStart, LegsOf
  <1>9. Covers(k)'
    <2>1. \A t \in Token : c.walk[1][t] <= bal'[Router][t]
      BY <1>6, <1>7, <1>8
    <2>2. last' = final /\ opening' + c.walk[1][final] <= bal'[Router][final]
      BY <1>2, <1>3, <1>5, <1>6, <1>8 DEF last, N
    <2> QED
      BY <1>2, <2>1, <2>2 DEF Covers, Walked, Held
  <1> QED
    BY <1>2, <1>9 DEF Ahead

\* A leg that spends nothing had nothing to spend in the walk either.
LEMMA SkippedIsNothing ==
    ASSUME TypeOK, InFlight, WellRouted, Ahead, pc = "leg", k <= N, Share(leg) = 0
    PROVE  LeastIn(call.walk[k], leg) = 0 /\ LeastOut(call.walk[k], leg) = 0
  <1> DEFINE owed == call.walk[k]
  <1>1. /\ owed[leg.token_in] \in Nat /\ Held(leg.token_in) \in Nat
        /\ leg.frac \in Nat /\ leg.min_rate \in Nat /\ ONE \in Nat \ {0}
        /\ LeastIn(owed, leg) \in Nat
    BY WalkedLeg, AtHand
  <1>2. owed[leg.token_in] <= Held(leg.token_in)
    BY WalkedLeg DEF Ahead, Covers, Walked
  <1>3. LeastIn(owed, leg) <= Share(leg)
    BY <1>1, <1>2, ScaledMonotone DEF LeastIn, Share
  <1>4. LeastIn(owed, leg) = 0
    BY <1>1, <1>3
  <1>5. LeastOut(owed, leg) = 0
    BY <1>1, <1>4 DEF LeastOut
  <1> QED
    BY <1>4, <1>5

LEMMA AheadSkip ==
    ASSUME TypeOK, InFlight, WellRouted, Ahead, SkipLeg
    PROVE  Ahead'
  <1>1. /\ pc = "leg" /\ pc' = "leg" /\ k <= N /\ k' = k + 1
        /\ UNCHANGED <<bal, call, steps, opening>> /\ Share(leg) = 0
    BY DEF SkipLeg, chain
  <1>2. \A t \in Token : Walked(k + 1, t) = Walked(k, t)
    BY <1>1, WalkedLeg, SkippedIsNothing DEF Walked
  <1>3. last \in Token
    BY <1>1, Flying
  <1>4. Covers(k + 1)
    BY <1>1, <1>2, <1>3 DEF Ahead, Covers
  <1> QED
    BY <1>1, <1>4 DEF Ahead, Covers, Walked, Held, last, N

\* A pool that takes no more than dx leaves the router ahead but for dx.
LEMMA AheadTrade ==
    ASSUME TypeOK, InFlight, WellRouted, Ahead, TakesForNothing = {},
           FourArgExchange \/ RunLeg
    PROVE  Ahead'
  <1> DEFINE owed == call.walk[k]
             in == leg.token_in
             out == leg.token_out
  <1>1. /\ pc \in {"run", "retry"} /\ k <= N
        /\ UNCHANGED <<call, steps, k, dx, before, opening>>
        /\ Covers(k) /\ Started
    BY DEF FourArgExchange, RunLeg, InFlight, Ahead
  <1>2. /\ in \in Token /\ out \in Token /\ last \in Token /\ in # out /\ in # last
        /\ owed \in [Token -> Nat] /\ LeastIn(owed, leg) \in Nat /\ LeastIn(owed, leg) <= owed[in]
        /\ leg.frac \in 0..ONE /\ ONE \in Nat \ {0}
    BY <1>1, WalkedLeg
  <1>3. /\ Held(in) \in Nat /\ dx \in Nat /\ dx = Share(leg) /\ before = Held(out)
        /\ before \in Nat /\ opening \in Nat
    BY <1>1, AtHand DEF TypeOK, Started
  <1>4. owed[in] <= Held(in) /\ owed[in] \in Nat
    BY <1>1, <1>2 DEF Covers, Walked
  <1>5. /\ LeastIn(owed, leg) <= dx
        /\ owed[in] - LeastIn(owed, leg) <= Held(in) - dx
    <2> DEFINE z == Held(in)
               y == owed[in]
               f == leg.frac
    <2>1. /\ z \in Nat /\ y \in Nat /\ y <= z /\ f \in 0..ONE /\ f \in Nat
          /\ ONE \in Nat \ {0}
      BY <1>2, <1>3, <1>4
    <2>2. dx = (z * f) \div ONE /\ LeastIn(owed, leg) = (y * f) \div ONE
      BY <1>3 DEF LeastIn, Share
    <2> HIDE DEF z, y, f
    <2>3. (y * f) \div ONE <= (z * f) \div ONE
      BY <2>1, ScaledMonotone
    <2>4. y - (y * f) \div ONE <= z - (z * f) \div ONE
      BY <2>1, RestMonotone
    <2>5. LeastIn(owed, leg) <= dx /\ y - LeastIn(owed, leg) <= z - dx
      BY <2>2, <2>3, <2>4
    <2> QED
      BY <2>5 DEF z, y
  <1>6. \E taken \in Nat, paid \in Nat :
          /\ taken <= dx /\ taken <= Held(in) /\ Trade(taken, paid)
          /\ pc' = "retry" => taken = 0 /\ paid = 0
    <2>1. \A taken \in {0} \cup Debited(in, dx) : taken \in Nat /\ taken <= dx
      BY <1>3, DebitedRange
    <2>2. MaxPay \in Nat /\ \A paid \in 0..MaxPay : paid \in Nat
      BY ConstantAssumption
    <2>3. CASE FourArgExchange
      <3>1. PICK taken \in {0} \cup Debited(in, dx), paid \in 0..MaxPay :
              /\ taken <= Held(in) /\ Trade(taken, paid)
              /\ paid = 0 => taken = 0
              /\ pc' = IF bal'[Router][out] = before THEN "retry" ELSE "settle"
        BY <2>3 DEF FourArgExchange
      <3>2. bal'[Router][out] = before + paid
        BY <1>1, <1>3, <2>1, <2>2, <3>1, TradeLedger
      <3> QED
        BY <1>3, <2>1, <2>2, <3>1, <3>2
    <2>4. CASE RunLeg
      BY <2>1, <2>2, <2>4 DEF RunLeg
    <2> QED
      BY <2>3, <2>4
  <1>7. PICK taken \in Nat, paid \in Nat :
          /\ taken <= dx /\ taken <= Held(in) /\ Trade(taken, paid)
          /\ pc' = "retry" => taken = 0 /\ paid = 0
    BY <1>6
  <1>8. /\ bal'[Router][in] = Held(in) - taken
        /\ bal'[Router][out] = Held(out) + paid
        /\ \A t \in Token \ {in, out} : bal'[Router][t] = Held(t)
    BY <1>1, <1>7, TradeLedger
  <1>9. /\ leg' = leg /\ last' = last /\ call'.walk = call.walk
        /\ k' = k /\ dx' = dx /\ before' = before /\ opening' = opening
    BY <1>1 DEF leg, last, N
  <1>10. CASE pc' = "retry"
    <2>1. \A t \in Token : bal'[Router][t] = Held(t)
      BY <1>2, <1>3, <1>7, <1>8, <1>10
    <2>2. Covers(k)'
      BY <1>1, <1>2, <1>9, <2>1 DEF Covers, Walked, Held
    <2>3. Started'
      BY <1>2, <1>3, <1>9, <2>1 DEF Started, Share, Held
    <2> QED
      BY <1>10, <2>2, <2>3 DEF Ahead
  <1>11. CASE pc' = "settle"
    <2>1. \A t \in Token \ {in} : owed[t] <= bal'[Router][t]
      <3>1. \A t \in Token : owed[t] <= Held(t) /\ owed[t] \in Nat /\ Held(t) \in Nat
        BY <1>1, <1>2 DEF Covers, Walked, TypeOK, Held, Ledger, Account
      <3> QED
        BY <1>2, <1>8, <3>1
    <2>2. owed[in] - LeastIn(owed, leg) <= bal'[Router][in]
      BY <1>2, <1>3, <1>5, <1>7, <1>8
    <2>3. owed[out] <= before
      BY <1>1, <1>2, <1>3 DEF Covers, Walked
    <2>4. opening + owed[last] <= Held(last)
      BY <1>1 DEF Covers, Walked
    <2>5. IF out = last THEN opening + owed[last] <= before
          ELSE opening + owed[last] <= bal'[Router][last]
      BY <1>2, <1>3, <1>8, <2>4
    <2> HIDE DEF in, out, owed
    <2>6. Traded'
      BY <1>5, <1>9, <2>1, <2>2, <2>3, <2>5 DEF Traded, Held, in, out, owed
    <2> QED
      BY <1>11, <2>6 DEF Ahead
  <1> QED
    BY <1>10, <1>11 DEF FourArgExchange, RunLeg

\* A leg that clears its minimum makes its part of the walk good.
LEMMA ClearedMakesGood ==
    ASSUME TypeOK, InFlight, WellRouted, Ahead, pc = "settle",
           Clears(leg, Held(leg.token_out) - before)
    PROVE  LeastOut(call.walk[k], leg) <= Held(leg.token_out) - before
  <1> DEFINE y == LeastIn(call.walk[k], leg)
             rate == leg.min_rate
  <1>1. /\ y \in Nat /\ dx \in Nat /\ rate \in Nat /\ ONE \in Nat \ {0} /\ y <= dx
        /\ LeastOut(call.walk[k], leg) = (y * rate) \div ONE
    BY WalkedLeg DEF InFlight, Ahead, Traded, TypeOK, LeastOut
  <1>2. /\ (dx * rate) \div ONE <= Held(leg.token_out) - before
        /\ Held(leg.token_out) \in Nat /\ before \in Nat
    BY AtHand DEF Clears, InFlight, TypeOK
  <1> HIDE DEF y, rate
  <1>3. /\ (y * rate) \div ONE <= (dx * rate) \div ONE
        /\ (y * rate) \div ONE \in Nat /\ (dx * rate) \div ONE \in Nat
    BY <1>1, ScaledMonotone
  <1> QED
    BY <1>1, <1>2, <1>3

LEMMA AheadSettle ==
    ASSUME TypeOK, InFlight, WellRouted, Ahead, SettleLeg
    PROVE  Ahead'
  <1> DEFINE owed == call.walk[k]
             in == leg.token_in
             out == leg.token_out
  <1>1. /\ pc = "settle" /\ pc' = "leg" /\ k <= N /\ k' = k + 1
        /\ UNCHANGED <<bal, call, steps, opening>>
        /\ Clears(leg, Held(out) - before)
    BY DEF SettleLeg, InFlight, chain
  <1>2. /\ in \in Token /\ out \in Token /\ last \in Token /\ in # out /\ in # last
        /\ \A t \in Token : owed[t] \in Nat /\ Held(t) \in Nat
        /\ before \in Nat /\ opening \in Nat
        /\ LeastIn(owed, leg) \in Nat /\ LeastOut(owed, leg) \in Nat
        /\ \A t \in Token :
             Walked(k + 1, t) = owed[t] - (IF t = in THEN LeastIn(owed, leg) ELSE 0)
                                     + (IF t = out THEN LeastOut(owed, leg) ELSE 0)
    BY <1>1, WalkedLeg DEF TypeOK, Held, Ledger, Account
  <1>3. before + LeastOut(owed, leg) <= Held(out)
    <2>1. LeastOut(owed, leg) <= Held(out) - before
      BY <1>1, ClearedMakesGood
    <2> QED
      BY <1>2, <2>1
  <1>4. Traded
    BY <1>1 DEF Ahead
  <1> DEFINE li == LeastIn(owed, leg)
             lo == LeastOut(owed, leg)
  <1>5. /\ \A t \in Token \ {in} : owed[t] <= Held(t)
        /\ owed[in] - li <= Held(in)
        /\ owed[out] <= before
        /\ out = last => opening + owed[last] <= before
        /\ out # last => opening + owed[last] <= Held(last)
    BY <1>4 DEF Traded
  <1> HIDE DEF owed, in, out, li, lo
  <1>6. \A t \in Token : Walked(k + 1, t) <= Held(t)
    <2> TAKE t \in Token
    <2>1. CASE t = in
      BY <1>2, <1>5, <2>1 DEF li, lo
    <2>2. CASE t = out
      BY <1>2, <1>3, <1>5, <2>2 DEF li, lo
    <2>3. CASE t \notin {in, out}
      BY <1>2, <1>5, <2>3 DEF li, lo
    <2> QED
      BY <2>1, <2>2, <2>3
  <1>7. opening + Walked(k + 1, last) <= Held(last)
    <2>1. CASE out = last
      BY <1>2, <1>3, <1>5, <2>1 DEF li, lo
    <2>2. CASE out # last
      BY <1>2, <1>5, <2>2 DEF li, lo
    <2> QED
      BY <2>1, <2>2
  <1>8. Covers(k)'
    BY <1>1, <1>6, <1>7 DEF Covers, Walked, Held, last, N
  <1> QED
    BY <1>1, <1>8 DEF Ahead

LEMMA AheadFinish ==
    ASSUME TypeOK, InFlight, WellRouted, Ahead, Finish
    PROVE  Ahead'
  <1>1. /\ pc = "leg" /\ pc' = "sweep" /\ call' = call /\ steps' = steps
        /\ answer' = Held(last) - opening
        /\ k > N /\ k <= N + 1
    BY DEF Finish, Produced, InFlight
  <1>2. k = N + 1 /\ N \in Nat \ {0} /\ last \in Token
    BY <1>1, Flying DEF TypeOK
  <1>3. Held(last) \in Nat /\ opening \in Nat /\ Walked(k, last) \in Nat
    BY <1>1, <1>2, WalkFacts DEF TypeOK, Held, Ledger, Account, Walked
  <1>4. opening + Walked(k, last) <= Held(last)
    BY <1>1 DEF Ahead, Covers
  <1>5. Promised(call) = Walked(k, last)
    BY <1>1, <1>2, WalkFacts
  <1>6. Promised(call) <= answer'
    BY <1>1, <1>3, <1>4, <1>5
  <1>7. Promised(call)' = Promised(call)
    BY <1>1 DEF Promised, LegsOf
  <1> QED
    BY <1>1, <1>6, <1>7 DEF Ahead

LEMMA AheadStep ==
    ASSUME TypeOK, InFlight, WellRouted, TakesForNothing = {}, Ahead, [Next]_vars
    PROVE  Ahead'
  <1>1. ASSUME NEW c \in Calls, Execute(c) PROVE Ahead'
    BY <1>1, AheadExecute
  <1>2. CASE SkipLeg
    BY <1>2, AheadSkip
  <1>3. CASE StartLeg
    <2>1. /\ pc = "leg" /\ pc' \in {"allow", "run"}
          /\ UNCHANGED <<bal, call, steps, k, opening>>
          /\ dx' = Share(leg) /\ before' = Held(leg.token_out)
      BY <1>3 DEF StartLeg, chain
    <2>2. Covers(k)'
      BY <2>1 DEF Ahead, Covers, Walked, Held, last, N
    <2>3. Started'
      BY <2>1 DEF Started, Share, Held, leg
    <2> QED
      BY <2>1, <2>2, <2>3 DEF Ahead
  <1>4. CASE Allow
    <2>1. /\ pc = "allow" /\ pc' \in {"allow", "run"}
          /\ UNCHANGED <<bal, call, steps, k, opening, dx, before>>
      BY <1>4 DEF Allow, locals
    <2> QED
      BY <2>1 DEF Ahead, Covers, Walked, Held, last, N, Started, Share, leg
  <1>5. CASE FourArgExchange \/ RunLeg
    BY <1>5, AheadTrade
  <1>6. CASE SettleLeg
    BY <1>6, AheadSettle
  <1>7. CASE Finish
    BY <1>7, AheadFinish
  <1>8. CASE SweepOne
    BY <1>8 DEF SweepOne, Ahead, Promised, LegsOf
  <1>9. CASE Return \/ Revert
    BY <1>9 DEF Return, Revert, Reset, Ahead
  <1>10. ASSUME NEW u \in User, NEW t \in Token, NEW z \in 1..MaxGift, Donate(u, t, z)
         PROVE  Ahead'
    BY <1>10 DEF Donate, Ahead
  <1>11. CASE UNCHANGED vars
    BY <1>11 DEF vars, chain, locals, Ahead, Covers, Walked, Held, last, N, Started,
                 Share, leg, Traded, Promised, LegsOf
  <1> QED
    BY <1>1, <1>2, <1>3, <1>4, <1>5, <1>6, <1>7, <1>8, <1>9, <1>10, <1>11 DEF Next

LEMMA AheadOfTheWalk ==
    ASSUME WellRouted, TakesForNothing = {}
    PROVE  Spec => [](TypeOK /\ InFlight /\ Ahead)
  <1>1. Init => TypeOK /\ InFlight /\ Ahead
    BY TypeInit DEF Init, Idle, Ahead
  <1>2. TypeOK /\ InFlight /\ Ahead /\ [Next]_vars => (TypeOK /\ InFlight /\ Ahead)'
    BY TypeStep, AheadStep
  <1> QED
    BY <1>1, <1>2, PTL DEF Spec

\* However the pools move and whatever the router held before, a route that is
\* not reverted answers with no less than its own bounds promised its caller
\* together (`guaranteed_out`).
THEOREM Guaranteed ==
    ASSUME WellRouted, TakesForNothing = {}
    PROVE  Spec => []GuaranteeKept
  <1>1. Ahead => GuaranteeKept
    <2>1. ASSUME Ahead, pc = "sweep" PROVE answer >= Promised(call)
      BY <2>1 DEF Ahead
    <2> QED
      BY <2>1 DEF GuaranteeKept
  <1> QED
    BY AheadOfTheWalk, <1>1, PTL

\* Every leg that settles is paid at least what `walk_bounds` gave it, and a leg
\* skipped for having nothing to spend was given nothing.
THEOREM EveryFloorEnforced ==
    ASSUME WellRouted, TakesForNothing = {}
    PROVE  Spec => []FloorsEnforced
  <1>1. TypeOK /\ InFlight /\ Ahead => FloorsEnforced
    <2>1. ASSUME TypeOK, InFlight, Ahead, pc = "settle",
                 Clears(leg, Held(leg.token_out) - before)
          PROVE  Held(leg.token_out) - before >= LeastOut(call.walk[k], leg)
      BY <2>1, ClearedMakesGood
    <2>2. ASSUME TypeOK, InFlight, Ahead, pc = "leg", k <= N, Share(leg) = 0
          PROVE  LeastOut(call.walk[k], leg) = 0
      BY <2>2, SkippedIsNothing
    <2> QED
      BY <2>1, <2>2 DEF FloorsEnforced
  <1> QED
    BY AheadOfTheWalk, <1>1, PTL

----------------------------------------------------------------------------
(* What is left between the ends of a route.                               *)

\* No leg from n on spends this token.
SpentNoMore(t, n) == \A m \in n..N : steps[m].token_in # t

\* What no leg will spend again, and some leg has, is gone.
SpentIsGone(n) ==
    \A m \in 1..N :
        /\ m < n /\ SpentNoMore(steps[m].token_in, n)
        /\ steps[m].token_in \notin RoundsDown
        => Held(steps[m].token_in) = 0

\* The leg at hand is the last to spend what it spends, and spends it to the unit.
Empties == SpentNoMore(leg.token_in, k + 1) /\ leg.token_in \notin RoundsDown

Drained ==
    /\ pc \in {"leg", "allow", "run", "retry", "settle"} => SpentIsGone(k)
    /\ pc \in {"allow", "run", "retry"} => dx > 0
    /\ pc \in {"allow", "run"} => before = Held(leg.token_out)
    /\ pc \in {"allow", "run"} /\ Empties => Held(leg.token_in) = dx
    /\ pc = "retry" /\ Empties => Held(leg.token_in) \in {0, dx}
    /\ pc = "settle" /\ Empties => Held(leg.token_in) = 0
    /\ pc = "sweep" /\ s = 1 =>
         \A n \in 1..N : steps[n].token_in \notin RoundsDown => Held(steps[n].token_in) = 0

Orderly == \A c \in Calls : Accepts(c) => LastTakesAll(c)

\* How such a route reads at the leg at hand.
LEMMA LastLegOut ==
    ASSUME TypeOK, InFlight, Orderly, pc # "idle", k <= N
    PROVE  /\ SpentNoMore(leg.token_in, k + 1) => Share(leg) = Held(leg.token_in)
           /\ \A m \in 1..N :
                m < k /\ SpentNoMore(steps[m].token_in, k) =>
                  steps[m].token_in \notin {leg.token_in, leg.token_out}
  <1>1. /\ call \in Calls /\ Accepts(call) /\ LegsOf(call) = steps /\ LastTakesAll(call)
        /\ Len(call.words) = N /\ N \in Nat /\ k \in 1..N
    BY StepsType, Flying DEF InFlight, Orderly, LegsOf, N, TypeOK
  <1>2. /\ SpentNoMore(leg.token_in, k + 1) => leg.frac = ONE
        /\ \A m \in 1..k - 1 :
              leg.token_out = steps[m].token_in
                => \E l \in k + 1..N : steps[l].token_in = steps[m].token_in
    BY <1>1 DEF LastTakesAll, TakesTheRest, SpendsInOrder, SpentNoMore, leg
  <1>3. SpentNoMore(leg.token_in, k + 1) => Share(leg) = Held(leg.token_in)
    <2>1. Held(leg.token_in) \in Nat /\ ONE \in Nat \ {0}
      BY AtHand, MarketAssumption
    <2>2. (Held(leg.token_in) * ONE) \div ONE = Held(leg.token_in)
      <3> DEFINE h == Held(leg.token_in)
      <3>1. h \in Nat /\ ONE \in Nat \ {0}
        BY <2>1
      <3> HIDE DEF h
      <3>2. (h * ONE) \div ONE = h
        BY <3>1
      <3> QED BY <3>2 DEF h
    <2> QED
      BY <1>2, <2>2 DEF Share
  <1>4. ASSUME NEW m \in 1..N, m < k, SpentNoMore(steps[m].token_in, k)
        PROVE  steps[m].token_in \notin {leg.token_in, leg.token_out}
    <2>1. \A l \in k..N : steps[l].token_in # steps[m].token_in
      BY <1>4 DEF SpentNoMore
    <2>2. leg.token_in # steps[m].token_in
      BY <1>1, <2>1 DEF leg
    <2>3. m \in 1..k - 1 /\ \A l \in k + 1..N : steps[l].token_in # steps[m].token_in
      BY <1>1, <1>4, <2>1
    <2> QED
      BY <1>2, <2>2, <2>3
  <1> QED
    BY <1>3, <1>4

\* A leg behind which its token is gone leaves all that is spent gone.
LEMMA GoneAfter ==
    ASSUME TypeOK, InFlight, pc # "idle", k <= N, SpentIsGone(k),
           Empties => Held(leg.token_in) = 0
    PROVE  SpentIsGone(k + 1)
  <1> SUFFICES ASSUME NEW m \in 1..N, m < k + 1, SpentNoMore(steps[m].token_in, k + 1),
                      steps[m].token_in \notin RoundsDown
               PROVE  Held(steps[m].token_in) = 0
    BY DEF SpentIsGone
  <1>1. k \in Nat /\ N \in Nat
    BY Flying DEF TypeOK
  <1>2. CASE steps[m].token_in = leg.token_in
    BY <1>2 DEF Empties
  <1>3. CASE steps[m].token_in # leg.token_in
    <2>1. m < k
      BY <1>1, <1>3 DEF leg
    <2>2. SpentNoMore(steps[m].token_in, k)
      <3>1. ASSUME NEW l \in k..N PROVE steps[l].token_in # steps[m].token_in
        <4>1. l = k \/ l \in k + 1..N
          BY <1>1, <3>1
        <4> QED
          BY <1>3, <4>1 DEF SpentNoMore, leg
      <3> QED
        BY <3>1 DEF SpentNoMore
    <2> QED
      BY <2>1, <2>2 DEF SpentIsGone
  <1> QED
    BY <1>2, <1>3

\* A pool takes what the leg gives it, or nothing at first; what is gone stays gone.
LEMMA DrainedTrade ==
    ASSUME TypeOK, InFlight, Orderly, Drained, FourArgExchange \/ RunLeg
    PROVE  Drained'
  <1>1. /\ pc \in {"run", "retry"} /\ pc # "idle" /\ k <= N
        /\ UNCHANGED <<call, steps, k, dx, before, opening>>
        /\ pc' \in {"retry", "settle"} /\ dx > 0
    BY DEF FourArgExchange, RunLeg, InFlight, Drained
  <1>2. /\ leg.token_in \in Token /\ leg.token_out \in Token /\ leg.token_in # leg.token_out
        /\ Held(leg.token_in) \in Nat /\ dx \in Nat /\ Held(leg.token_out) \in Nat
    BY <1>1, AtHand DEF Unpacks, TypeOK
  <1>3. PICK taken \in Nat, paid \in Nat :
          /\ taken <= Held(leg.token_in) /\ Trade(taken, paid)
          /\ Empties => taken \in {0, dx}
          /\ Empties /\ (pc = "retry" \/ pc' = "settle") => taken = dx
    <2>1. \A taken \in {0} \cup Debited(leg.token_in, dx) : taken \in Nat
      BY <1>2, DebitedRange
    <2>2. Empties => Debited(leg.token_in, dx) = {dx}
      BY DEF Empties, Debited
    <2>3. MaxPay \in Nat /\ \A paid \in 0..MaxPay : paid \in Nat
      BY ConstantAssumption
    <2>4. CASE FourArgExchange
      <3>1. PICK taken \in {0} \cup Debited(leg.token_in, dx), paid \in 0..MaxPay :
              /\ taken <= Held(leg.token_in) /\ Trade(taken, paid)
              /\ taken = 0 => paid = 0
              /\ pc' = IF bal'[Router][leg.token_out] = before THEN "retry" ELSE "settle"
              /\ pc = "run"
        BY <2>4 DEF FourArgExchange
      <3>2. bal'[Router][leg.token_out] = Held(leg.token_out) + paid
        BY <1>1, <2>1, <2>3, <3>1, TradeLedger
      <3>3. taken = 0 => pc' = "retry"
        BY <1>1, <1>2, <3>1, <3>2 DEF Drained
      <3> QED
        BY <2>1, <2>2, <2>3, <3>1, <3>3
    <2>5. CASE RunLeg
      <3>1. PICK taken \in Debited(leg.token_in, dx), paid \in 0..MaxPay :
              taken <= Held(leg.token_in) /\ Trade(taken, paid)
        BY <2>5 DEF RunLeg
      <3>2. taken \in Nat /\ paid \in Nat /\ (Empties => taken = dx)
        BY <2>1, <2>2, <2>3
      <3> QED
        BY <3>1, <3>2
    <2> QED
      BY <2>4, <2>5
  <1>4. /\ bal'[Router][leg.token_in] = Held(leg.token_in) - taken
        /\ \A t \in Token \ {leg.token_in, leg.token_out} : bal'[Router][t] = Held(t)
    BY <1>1, <1>3, TradeLedger
  <1>5. leg' = leg /\ N' = N /\ (Empties' <=> Empties)
    BY <1>1 DEF leg, N, Empties, SpentNoMore
  <1>6. SpentIsGone(k)'
    <2> SUFFICES ASSUME NEW m \in 1..N, m < k, SpentNoMore(steps[m].token_in, k),
                        steps[m].token_in \notin RoundsDown
                 PROVE  bal'[Router][steps[m].token_in] = 0
      BY <1>1, <1>5 DEF SpentIsGone, SpentNoMore, Held
    <2>1. steps[m].token_in \in Token \ {leg.token_in, leg.token_out}
      BY <1>1, LastLegOut, Flying DEF Step
    <2> QED
      BY <1>1, <1>4, <2>1 DEF Drained, SpentIsGone
  <1>7. Empties => Held(leg.token_in) \in {0, dx}
    BY <1>1 DEF Drained
  <1>8. Empties /\ pc' = "settle" => bal'[Router][leg.token_in] = 0
    BY <1>1, <1>2, <1>3, <1>4, <1>7
  <1>9. Empties => bal'[Router][leg.token_in] \in {0, dx}
    BY <1>1, <1>2, <1>3, <1>4, <1>7
  <1> QED
    BY <1>1, <1>5, <1>6, <1>8, <1>9 DEF Drained, Held

LEMMA DrainedStep ==
    ASSUME TypeOK, InFlight, Orderly, Drained, [Next]_vars
    PROVE  Drained'
  <1>1. ASSUME NEW c \in Calls, Execute(c) PROVE Drained'
    BY <1>1 DEF Execute, Drained, SpentIsGone
  <1>2. CASE SkipLeg
    <2>1. /\ pc = "leg" /\ pc' = "leg" /\ k <= N /\ k' = k + 1
          /\ UNCHANGED <<bal, call, steps>> /\ Share(leg) = 0
      BY <1>2 DEF SkipLeg, chain
    <2>2. Empties => Held(leg.token_in) = 0
      BY <2>1, LastLegOut DEF Empties
    <2>3. SpentIsGone(k + 1)
      BY <2>1, <2>2, GoneAfter DEF Drained
    <2> QED
      BY <2>1, <2>3 DEF Drained, SpentIsGone, SpentNoMore, N, Held
  <1>3. CASE StartLeg
    <2>1. /\ pc = "leg" /\ pc' \in {"allow", "run"} /\ k <= N
          /\ UNCHANGED <<bal, call, steps, k>> /\ Share(leg) > 0 /\ dx' = Share(leg)
          /\ before' = Held(leg.token_out)
      BY <1>3 DEF StartLeg, chain
    <2>2. Empties => Held(leg.token_in) = dx'
      BY <2>1, LastLegOut DEF Empties
    <2> QED
      BY <2>1, <2>2 DEF Drained, SpentIsGone, SpentNoMore, Empties, N, Held, leg
  <1>4. CASE Allow
    <2>1. /\ pc = "allow" /\ pc' \in {"allow", "run"}
          /\ UNCHANGED <<bal, call, steps, k, dx, before>>
      BY <1>4 DEF Allow, locals
    <2> QED
      BY <2>1 DEF Drained, SpentIsGone, SpentNoMore, Empties, N, Held, leg
  <1>5. CASE FourArgExchange \/ RunLeg
    BY <1>5, DrainedTrade
  <1>6. CASE SettleLeg
    <2>1. /\ pc = "settle" /\ pc' = "leg" /\ k' = k + 1 /\ k <= N
          /\ UNCHANGED <<bal, call, steps>>
      BY <1>6 DEF SettleLeg, chain, InFlight
    <2>2. SpentIsGone(k + 1)
      BY <2>1, GoneAfter DEF Drained
    <2> QED
      BY <2>1, <2>2 DEF Drained, SpentIsGone, SpentNoMore, N, Held
  <1>7. CASE Finish
    <2>1. /\ pc = "leg" /\ k > N /\ pc' = "sweep" /\ UNCHANGED <<bal, steps>>
          /\ N \in Nat /\ k \in Nat
      BY <1>7, Flying DEF Finish, chain, TypeOK
    <2>2. ASSUME NEW n \in 1..N, steps[n].token_in \notin RoundsDown
          PROVE  Held(steps[n].token_in) = 0
      <3>1. n < k /\ SpentNoMore(steps[n].token_in, k)
        BY <2>1 DEF SpentNoMore
      <3> QED
        BY <2>1, <2>2, <3>1 DEF Drained, SpentIsGone
    <2> QED
      BY <2>1, <2>2 DEF Drained, N, Held
  <1>8. CASE SweepOne
    <2>1. pc' = "sweep" /\ s' # 1
      BY <1>8 DEF SweepOne, TypeOK
    <2> QED
      BY <2>1 DEF Drained
  <1>9. CASE Return \/ Revert
    BY <1>9 DEF Return, Revert, Reset, Drained
  <1>10. ASSUME NEW u \in User, NEW t \in Token, NEW z \in 1..MaxGift, Donate(u, t, z)
         PROVE  Drained'
    BY <1>10 DEF Donate, Drained
  <1>11. CASE UNCHANGED vars
    BY <1>11 DEF vars, chain, locals, Drained, SpentIsGone, SpentNoMore, Empties, N, Held, leg
  <1> QED
    BY <1>1, <1>2, <1>3, <1>4, <1>5, <1>6, <1>7, <1>8, <1>9, <1>10, <1>11 DEF Next

\* When the legs of a route are done, nothing is left in the router of anything they
\* spent, whatever the pools took and paid, what it held before and what was refused
\* on the way: the sweep finds the output, and what a rounding token keeps back.
THEOREM NothingIsStranded ==
    ASSUME Orderly
    PROVE  Spec => []NothingStranded
  <1>1. Init => TypeOK /\ InFlight /\ Drained
    BY TypeInit DEF Init, Idle, Drained
  <1>2. TypeOK /\ InFlight /\ Drained /\ [Next]_vars => (TypeOK /\ InFlight /\ Drained)'
    BY TypeStep, DrainedStep
  <1>3. Drained => NothingStranded
    BY DEF Drained, NothingStranded
  <1> QED
    BY <1>1, <1>2, <1>3, PTL DEF Spec

----------------------------------------------------------------------------
(* What a leg's bound is worth, for every quote, tolerance and scale.      *)

Positive == Nat \ {0}

\* The floor of a quotient, spelled with products.
LEMMA Floor ==
    ASSUME NEW a \in Nat, NEW b \in Positive
    PROVE  /\ a \div b \in Nat
           /\ b * (a \div b) <= a
           /\ a < b * (a \div b) + b
  BY DEF Positive

\* Something under c units of o is floored under c.
LEMMA FloorUnder ==
    ASSUME NEW a \in Nat, NEW c \in Nat, NEW o \in Positive
    PROVE  /\ a <= c * o => a \div o <= c
           /\ a < c * o => a \div o < c
           /\ c * o <= a => c <= a \div o
  <1> DEFINE q == a \div o
  <1>1. q \in Nat /\ o * q <= a /\ a < o * q + o
    BY Floor
  <1> HIDE DEF q
  <1>2. a <= c * o => q <= c
    <2> SUFFICES ASSUME a <= c * o, q > c PROVE FALSE
      BY <1>1
    <2>1. (c + 1) * o <= q * o
      BY <1>1 DEF Positive
    <2> QED
      BY <1>1, <2>1 DEF Positive
  <1>3. a < c * o => q < c
    <2> SUFFICES ASSUME a < c * o, q >= c PROVE FALSE
      BY <1>1
    <2>1. c * o <= q * o
      BY <1>1 DEF Positive
    <2> QED
      BY <1>1, <2>1 DEF Positive
  <1>4. c * o <= a => c <= q
    <2> SUFFICES ASSUME c * o <= a, q < c PROVE FALSE
      BY <1>1
    <2>1. (q + 1) * o <= c * o
      BY <1>1 DEF Positive
    <2> QED
      BY <1>1, <2>1 DEF Positive
  <1> QED
    BY <1>2, <1>3, <1>4 DEF q

\* A leg that lands on the quote it was bound by clears its bound, whatever is
\* granted under it (`min_rates`).
THEOREM QuoteClears ==
    ASSUME NEW want \in Positive, NEW have \in Positive, NEW share \in 0..SHARE_ONE
    PROVE  FloorAt(have, Bound(want, have, share)) <= want
  <1> DEFINE rate == (want * ONE) \div have
             off  == (rate * share) \div SHARE_ONE
             unit == (want * ONE - 1) \div have
  <1>0. ONE \in Positive /\ SHARE_ONE \in Positive
    BY MarketAssumption, ScaleAssumption DEF Positive
  <1>1. want * ONE \in Nat /\ want * ONE - 1 \in Nat
    BY <1>0 DEF Positive
  <1>2. CASE want * share < SHARE_ONE
    <2>1. unit \in Nat /\ have * unit <= want * ONE - 1
      BY <1>1, Floor
    <2> HIDE DEF unit
    <2>2. have * unit \in Nat /\ have * unit <= want * ONE
      BY <1>1, <2>1 DEF Positive
    <2>3. (have * unit) \div ONE <= want
      BY <1>0, <2>2, FloorUnder DEF Positive
    <2> QED
      BY <1>2, <2>3 DEF Bound, FloorAt, unit
  <1>3. CASE ~(want * share < SHARE_ONE)
    <2>1. rate \in Nat /\ have * rate <= want * ONE
      BY <1>1, Floor
    <2>2. off \in Nat /\ off <= rate
      <3> HIDE DEF rate
      <3>1. rate * share \in Nat /\ rate * share <= rate * SHARE_ONE
        BY <1>0, <2>1 DEF Positive
      <3> QED
        BY <1>0, <2>1, <3>1, FloorUnder, Floor
    <2> HIDE DEF rate, off
    <2>3. rate - off \in Nat /\ have * (rate - off) <= have * rate
      BY <2>1, <2>2 DEF Positive
    <2>4. have * (rate - off) \in Nat /\ have * (rate - off) <= want * ONE
      BY <1>1, <2>1, <2>3 DEF Positive
    <2>5. (have * (rate - off)) \div ONE <= want
      BY <1>0, <2>4, FloorUnder DEF Positive
    <2> QED
      BY <1>3, <2>5 DEF Bound, FloorAt, rate, off
  <1> QED
    BY <1>2, <1>3

\* A leg too coarse for its tolerance is left a whole unit, and no rate that
\* leaves one is tighter (`min_rates`, 424-428).
THEOREM CoarseLegKeepsAUnit ==
    ASSUME NEW want \in Positive, NEW have \in Positive, NEW share \in Nat,
           want * share < SHARE_ONE
    PROVE  /\ FloorAt(have, Bound(want, have, share)) < want
           /\ want <= FloorAt(have, Bound(want, have, share) + 1)
  <1> DEFINE unit == (want * ONE - 1) \div have
  <1>0. ONE \in Positive
    BY MarketAssumption DEF Positive
  <1>1. want * ONE - 1 \in Nat /\ want * ONE \in Nat
    BY <1>0 DEF Positive
  <1>2. unit \in Nat /\ have * unit <= want * ONE - 1
        /\ want * ONE - 1 < have * unit + have
    BY <1>1, Floor
  <1>3. Bound(want, have, share) = unit
    BY DEF Bound
  <1> HIDE DEF unit
  <1>4. (have * unit) \div ONE < want
    <2>1. have * unit \in Nat /\ have * unit < want * ONE
      BY <1>1, <1>2 DEF Positive
    <2> QED
      BY <1>0, <2>1, FloorUnder DEF Positive
  <1>5. want <= (have * (unit + 1)) \div ONE
    <2>1. have * (unit + 1) = have * unit + have
      BY <1>2 DEF Positive
    <2>2. have * unit \in Nat /\ have \in Nat
      BY <1>2 DEF Positive
    <2>3. have * (unit + 1) \in Nat /\ want * ONE <= have * (unit + 1)
      BY <1>1, <1>2, <2>1, <2>2
    <2> QED
      BY <1>0, <2>3, FloorUnder DEF Positive
  <1> QED
    BY <1>3, <1>4, <1>5 DEF FloorAt

\* Factors of a positive number compare as their products do.
LEMMA Cancel ==
    ASSUME NEW a \in Int, NEW b \in Int, NEW o \in Positive
    PROVE  o * a < o * b => a < b
  <1> SUFFICES ASSUME ~(a < b) PROVE ~(o * a < o * b)
    OBVIOUS
  <1>1. o * b <= o * a
    BY DEF Positive
  <1> QED
    BY <1>1 DEF Positive

\* What the rounding of a rate takes beyond the grant is a step of it and a unit.
LEMMA LittleIsRounded ==
    ASSUME NEW want \in Positive, NEW have \in Positive, NEW share \in 0..SHARE_ONE
    PROVE  FloorAt(have, Bound(want, have, share))
             >= want - (want * share) \div SHARE_ONE - (have \div ONE + 2)
  <1> DEFINE g == (want * share) \div SHARE_ONE
             h == have \div ONE
             bound == Bound(want, have, share)
             least == (have * bound) \div ONE
  <1>0. ONE \in Positive /\ SHARE_ONE \in Positive /\ share \in Nat
    BY MarketAssumption, ScaleAssumption DEF Positive
  <1>1. want * ONE \in Nat /\ want * ONE - 1 \in Nat /\ want * share \in Nat
    BY <1>0 DEF Positive
  <1>2. g \in Nat /\ want * share < SHARE_ONE * g + SHARE_ONE
    BY <1>0, <1>1, Floor
  <1>3. h \in Nat /\ have < ONE * h + ONE
    BY <1>0, Floor DEF Positive
  <1>4. bound \in Nat /\ have * bound >= want * ONE - have - ONE * g - ONE
    <2>1. CASE want * share < SHARE_ONE
      <3> DEFINE unit == (want * ONE - 1) \div have
      <3>1. unit \in Nat /\ want * ONE - 1 < have * unit + have
        BY <1>1, Floor
      <3>2. bound = unit
        BY <2>1 DEF Bound
      <3> HIDE DEF unit, g, bound
      <3>3. ONE * g \in Nat /\ have * unit \in Nat
        BY <1>0, <1>2, <3>1 DEF Positive
      <3> QED
        BY <1>0, <1>1, <3>1, <3>2, <3>3 DEF Positive
    <2>2. CASE ~(want * share < SHARE_ONE)
      <3> DEFINE rate == (want * ONE) \div have
                 off  == (rate * share) \div SHARE_ONE
      <3>1. rate \in Nat /\ have * rate <= want * ONE /\ want * ONE < have * rate + have
        BY <1>1, Floor
      <3>2. bound = rate - off
        BY <2>2 DEF Bound
      <3>3. off \in Nat /\ SHARE_ONE * off <= rate * share /\ off <= rate
        <4> HIDE DEF rate
        <4>1. rate * share \in Nat /\ rate * share <= rate * SHARE_ONE
          BY <1>0, <3>1 DEF Positive
        <4> QED
          BY <1>0, <3>1, <4>1, Floor, FloorUnder
      <3> HIDE DEF rate, off, g, bound
      <3>4. SHARE_ONE * (have * off) < SHARE_ONE * (ONE * g + ONE)
        <4>1. have * (SHARE_ONE * off) <= have * (rate * share)
          <5>1. SHARE_ONE * off \in Nat /\ rate * share \in Nat
            BY <1>0, <3>1, <3>3 DEF Positive
          <5> QED BY <3>3, <5>1 DEF Positive
        <4>2. (have * rate) * share <= (want * ONE) * share
          <5>1. have * rate \in Nat
            BY <3>1 DEF Positive
          <5> QED BY <1>0, <1>1, <3>1, <5>1
        <4>3. ONE * (want * share) < ONE * (SHARE_ONE * g + SHARE_ONE)
          <5>1. SHARE_ONE * g + SHARE_ONE \in Nat
            BY <1>0, <1>2 DEF Positive
          <5> QED BY <1>0, <1>1, <1>2, <5>1 DEF Positive
        <4>4. /\ have * (SHARE_ONE * off) = SHARE_ONE * (have * off)
              /\ have * (rate * share) = (have * rate) * share
              /\ (want * ONE) * share = ONE * (want * share)
              /\ ONE * (SHARE_ONE * g + SHARE_ONE) = SHARE_ONE * (ONE * g + ONE)
          BY <1>0, <1>2, <3>1, <3>3 DEF Positive
        <4>5. /\ have * (SHARE_ONE * off) \in Nat /\ have * (rate * share) \in Nat
              /\ (want * ONE) * share \in Nat /\ ONE * (SHARE_ONE * g + SHARE_ONE) \in Nat
          BY <1>0, <1>2, <3>1, <3>3 DEF Positive
        <4> QED
          BY <4>1, <4>2, <4>3, <4>4, <4>5
      <3>5. have * off \in Nat /\ ONE * g + ONE \in Nat /\ have * rate \in Nat
        BY <1>0, <1>2, <3>1, <3>3 DEF Positive
      <3>6. have * off < ONE * g + ONE
        BY <1>0, <3>4, <3>5, Cancel
      <3>7. have * (rate - off) = have * rate - have * off /\ rate - off \in Nat
        BY <3>1, <3>3 DEF Positive
      <3>8. ONE * g \in Nat
        BY <1>0, <1>2 DEF Positive
      <3> QED
        BY <1>0, <1>1, <3>1, <3>2, <3>5, <3>6, <3>7, <3>8 DEF Positive
    <2> QED BY <2>1, <2>2
  <1> HIDE DEF g, h, bound
  <1>5. have * bound \in Nat
    BY <1>4 DEF Positive
  <1>6. least \in Nat /\ have * bound < ONE * least + ONE
    BY <1>0, <1>5, Floor
  <1> HIDE DEF least
  <1>7. ONE * (want - h - g - 2) < ONE * (least + 1)
    <2>1. /\ ONE * (want - h - g - 2) = want * ONE - ONE * h - ONE * g - ONE - ONE
          /\ ONE * (least + 1) = ONE * least + ONE
          /\ ONE * h \in Nat /\ ONE * g \in Nat /\ ONE * least \in Nat
      BY <1>0, <1>2, <1>3, <1>6 DEF Positive
    <2> QED
      BY <1>0, <1>1, <1>3, <1>4, <1>5, <1>6, <2>1 DEF Positive
  <1>8. want - h - g - 2 < least + 1
    BY <1>0, <1>2, <1>3, <1>6, <1>7, Cancel DEF Positive
  <1>9. least >= want - g - (h + 2)
    BY <1>2, <1>3, <1>6, <1>8 DEF Positive
  <1> QED
    BY <1>9 DEF FloorAt, least, bound, g, h

----------------------------------------------------------------------------
(* Every quote that a leg can be bound by.                                 *)

Quoted == Amounts \subseteq Positive /\ Shares \subseteq 0..SHARE_ONE

LEMMA InputsStay == EncodingSpec => [](about = "quote" => given \in Quotes)
  <1>1. EncodingInit => (about = "quote" => given \in Quotes)
    BY DEF EncodingInit, QuoteInit, SplitInit, CallInit, BudgetInit
  <1>2. (about = "quote" => given \in Quotes) /\ [Keep]_<<about, given>>
          => (about = "quote" => given \in Quotes)'
    BY DEF Keep
  <1> QED
    BY <1>1, <1>2, PTL DEF EncodingSpec

\* `min_rates` (core/routecall.py:424-428).  Whatever is granted under its quote, a leg
\* that lands on that quote clears its bound; one too coarse for its tolerance is left a
\* whole unit, by the tightest rate that leaves one.
THEOREM ClearsItsBound ==
    ASSUME Quoted
    PROVE  EncodingSpec => []QuoteClearsItsBound
  <1>1. (about = "quote" => given \in Quotes) => QuoteClearsItsBound
    <2> SUFFICES ASSUME given \in Quotes
                 PROVE  /\ Least(given) <= given.want
                        /\ given.want * given.share < SHARE_ONE =>
                             /\ Least(given) < given.want
                             /\ FloorAt(given.have,
                                        Bound(given.want, given.have, given.share) + 1)
                                  >= given.want
      BY DEF QuoteClearsItsBound
    <2>1. /\ given.want \in Positive /\ given.have \in Positive
          /\ given.share \in 0..SHARE_ONE
      BY DEF Quotes, Quoted
    <2>2. Least(given) <= given.want
      BY <2>1, QuoteClears DEF Least
    <2>3. ASSUME given.want * given.share < SHARE_ONE
          PROVE  /\ Least(given) < given.want
                 /\ FloorAt(given.have, Bound(given.want, given.have, given.share) + 1)
                      >= given.want
      <3>1. given.share \in Nat
        BY <2>1, ScaleAssumption
      <3>2. /\ Least(given) < given.want
            /\ given.want <= FloorAt(given.have,
                                     Bound(given.want, given.have, given.share) + 1)
        BY <2>1, <2>3, <3>1, CoarseLegKeepsAUnit DEF Least
      <3> QED BY <3>2
    <2> QED
      BY <2>2, <2>3
  <1> QED
    BY <1>1, InputsStay, PTL

\* `min_rates` (core/routecall.py:398-428).  A leg is bound no looser than what it was
\* granted, but for what the rounding of its rate takes: a step of it, have / ONE units,
\* and two more.
THEOREM NoLooser ==
    ASSUME Quoted
    PROVE  EncodingSpec => []NoLooserThanGranted
  <1>1. (about = "quote" => given \in Quotes) => NoLooserThanGranted
    <2> SUFFICES ASSUME given \in Quotes
                 PROVE  Least(given) >= given.want
                          - (given.want * given.share) \div SHARE_ONE
                          - (given.have \div ONE + 2)
      BY DEF NoLooserThanGranted
    <2>1. /\ given.want \in Positive /\ given.have \in Positive
          /\ given.share \in 0..SHARE_ONE
      BY DEF Quotes, Quoted
    <2> QED
      BY <2>1, LittleIsRounded DEF Least
  <1> QED
    BY <1>1, InputsStay, PTL

----------------------------------------------------------------------------
(* Numbers, and functions defined a step at a time.                        *)

\* Of some numbers one is the least.
LEMMA OneIsLeast ==
    ASSUME NEW Values \in SUBSET Nat, Values # {}
    PROVE  \E n \in Values : \A m \in Values : n <= m
  <1> DEFINE Below == OpToRel(<, Nat)
  <1>1. IsWellFoundedOn(Below, Nat)
    BY NatLessThanWellFounded
  <1>2. \A m, n \in Nat : m < n => <<m, n>> \in Below
    BY SMT DEF OpToRel
  <1> HIDE DEF Below
  <1>3. PICK n \in Values : \A m \in Values : ~(<<m, n>> \in Below)
    BY <1>1, WFMin
  <1>4. \A m \in Values : n <= m
    <2> SUFFICES ASSUME NEW m \in Values PROVE ~(m < n)
      OBVIOUS
    <2>1. n \in Nat /\ m \in Nat
      OBVIOUS
    <2> QED BY <1>2, <1>3, <2>1
  <1> QED BY <1>4

\* What holds of 0 and passes from each number to the next holds up to top.
LEMMA UpTo ==
    ASSUME NEW top \in Nat, NEW Good, 0 \in Good,
           \A n \in 1..top : n - 1 \in Good => n \in Good
    PROVE  \A n \in 0..top : n \in Good
  <1> DEFINE Bad == {n \in 0..top : n \notin Good}
  <1> SUFFICES ASSUME Bad # {} PROVE FALSE
    OBVIOUS
  <1>1. Bad \in SUBSET Nat
    OBVIOUS
  <1>2. PICK n \in Bad : \A m \in Bad : n <= m
    <2> HIDE DEF Bad
    <2> QED BY <1>1, OneIsLeast
  <1>3. n \in 1..top /\ n - 1 \in 0..top /\ n - 1 \notin Bad
    BY <1>2
  <1> QED BY <1>3

\* f is `step` taken top times from s0.
Iterates(f, top, s0, step) == f[0] = s0 /\ \A n \in 1..top : f[n] = step[n][f[n - 1]]

\* A step that stays in a set can be taken top times.
LEMMA Iteration ==
    ASSUME NEW top \in Nat, NEW Values, NEW s0 \in Values,
           NEW step \in [1..top -> [Values -> Values]]
    PROVE  \E f \in [0..top -> Values] : Iterates(f, top, s0, step)
  <1> DEFINE Takes(m, f) == f[0] = s0 /\ \A n \in 1..m : f[n] = step[n][f[n - 1]]
             Good == {m \in 0..top : \E f \in [0..top -> Values] : Takes(m, f)}
  <1>1. 0 \in Good
    <2> DEFINE f == [m \in 0..top |-> s0]
    <2>1. f \in [0..top -> Values] /\ f[0] = s0
      OBVIOUS
    <2> HIDE DEF f
    <2> QED BY <2>1
  <1>2. ASSUME NEW m \in 1..top, m - 1 \in Good PROVE m \in Good
    <2>1. PICK f \in [0..top -> Values] : Takes(m - 1, f)
      BY <1>2
    <2>2. f[m - 1] \in Values
      OBVIOUS
    <2>3. step[m][f[m - 1]] \in Values
      BY <2>2
    <2> DEFINE g == [f EXCEPT ![m] = step[m][f[m - 1]]]
    <2>4. g \in [0..top -> Values]
      BY <2>3
    <2>5. g[m] = step[m][f[m - 1]] /\ \A n \in 0..m - 1 : g[n] = f[n]
      OBVIOUS
    <2> HIDE DEF g
    <2>6. g[0] = s0
      BY <2>1, <2>5
    <2>7. ASSUME NEW n \in 1..m PROVE g[n] = step[n][g[n - 1]]
      <3>1. g[n - 1] = f[n - 1]
        BY <2>5
      <3>2. CASE n = m
        BY <2>5, <3>1, <3>2
      <3>3. CASE n # m
        <4>1. n \in 1..m - 1 /\ n \in 0..m - 1
          BY <3>3
        <4>2. f[n] = step[n][f[n - 1]]
          BY <2>1, <4>1
        <4> QED BY <2>5, <3>1, <4>1, <4>2
      <3> QED BY <3>2, <3>3
    <2> QED BY <2>4, <2>6, <2>7
  <1>3. \A m \in 0..top : m \in Good
    <2> HIDE DEF Good
    <2> QED BY <1>1, <1>2, UpTo
  <1>4. top \in Good
    BY <1>3
  <1> QED BY <1>4 DEF Iterates

----------------------------------------------------------------------------
(* A route of any length, encoded.                                         *)

LEMMA LegsAre ==
    ASSUME NEW route \in Realized
    PROVE  /\ Len(route.legs) \in Nat /\ DOMAIN route.legs = 1..Len(route.legs)
           /\ 0 \in Slots(route) /\ route.dst_slot \in Slots(route)
           /\ \A n \in 1..Len(route.legs) :
                 /\ route.legs[n] \in RouteLeg
                 /\ route.legs[n].src \in Slots(route) /\ route.legs[n].dst \in Slots(route)
                 /\ LegIn(route.legs[n]) \in Nat /\ LegOut(route.legs[n]) \in Nat
                 /\ route.legs[n].amount_in \in Nat
  <1>1. route.legs \in Seq(RouteLeg)
    BY DEF Realized
  <1>2. Len(route.legs) \in Nat /\ DOMAIN route.legs = 1..Len(route.legs)
    BY <1>1
  <1>3. \A n \in 1..Len(route.legs) : route.legs[n] \in RouteLeg
    BY <1>1
  <1>4. 0 \in Slots(route) /\ route.dst_slot \in Slots(route)
    BY DEF Slots
  <1>5. ASSUME NEW n \in 1..Len(route.legs)
        PROVE  /\ route.legs[n].src \in Slots(route) /\ route.legs[n].dst \in Slots(route)
               /\ LegIn(route.legs[n]) \in Nat /\ LegOut(route.legs[n]) \in Nat
               /\ route.legs[n].amount_in \in Nat
    <2>1. n \in DOMAIN route.legs
      BY <1>2
    <2>2. route.legs[n].src \in Slots(route) /\ route.legs[n].dst \in Slots(route)
      BY <2>1 DEF Slots
    <2> QED
      BY <1>3, <2>2 DEF RouteLeg, LegIn, LegOut
  <1> QED BY <1>2, <1>3, <1>4, <1>5

\* A leg moves two balances.
Moved(b, l, out, in, after) ==
    \A slot \in DOMAIN b : after[slot] =
        b[slot] - (IF slot = l.src THEN out ELSE 0) + (IF slot = l.dst THEN in ELSE 0)

LEMMA ShiftIs ==
    ASSUME NEW Values, NEW b \in [Values -> Nat], NEW l, l.src \in Values, l.dst \in Values,
           NEW out \in Nat, out <= b[l.src], NEW in \in Nat
    PROVE  /\ Shift(b, l, out, in) \in [Values -> Nat]
           /\ Moved(b, l, out, in, Shift(b, l, out, in))
  <1> DEFINE spent == [b EXCEPT ![l.src] = @ - out]
  <1>1. /\ spent \in [Values -> Nat]
        /\ \A slot \in Values : spent[slot] = b[slot] - (IF slot = l.src THEN out ELSE 0)
    OBVIOUS
  <1> HIDE DEF spent
  <1>2. Shift(b, l, out, in) = [spent EXCEPT ![l.dst] = @ + in]
    BY DEF Shift, spent
  <1> QED BY <1>1, <1>2 DEF Moved

\* `fractions`' loop body: a share is of what is there.
LEMMA SliceIs ==
    ASSUME NEW legs, NEW n, legs[n].amount_in \in Nat, NEW have \in Nat
    PROVE  /\ Slice(legs, n, have).frac \in 0..ONE
           /\ Slice(legs, n, have).take \in 0..have
           /\ LastOut(legs, n) => Slice(legs, n, have) = [frac |-> ONE, take |-> have]
  <1>0. ONE \in Positive
    BY MarketAssumption DEF Positive
  <1>1. CASE LastOut(legs, n) \/ legs[n].amount_in >= have
    BY <1>0, <1>1 DEF Slice, Positive
  <1>2. CASE ~(LastOut(legs, n) \/ legs[n].amount_in >= have)
    <2> DEFINE a == legs[n].amount_in
    <2>1. a < have /\ a \in Nat /\ have \in Positive
      BY <1>2 DEF Positive
    <2>2. Slice(legs, n, have) = [frac |-> (a * ONE) \div have, take |-> a]
      BY <1>2 DEF Slice
    <2> HIDE DEF a
    <2>3. a * ONE \in Nat /\ a * ONE <= ONE * have
      <3>1. a <= have /\ ONE \in Nat
        BY <1>0, <2>1 DEF Positive
      <3> QED BY <2>1, <3>1
    <2>4. (a * ONE) \div have \in 0..ONE
      BY <1>0, <2>1, <2>3, FloorUnder, Floor DEF Positive
    <2> QED BY <1>2, <2>1, <2>2, <2>4
  <1> QED BY <1>1, <1>2

LEMMA FilledIs ==
    ASSUME NEW route \in Realized
    PROVE  Filled(route) \in [Slots(route) -> Nat]
  BY DEF Filled, Realized

\* What leg n of fractions' loop makes of the balances.
ModelledLeg(route, n, b) ==
    LET l == route.legs[n] IN Shift(b, l, Slice(route.legs, n, b[l.src]).take, LegOut(l))

LEMMA ModelledLegIs ==
    ASSUME NEW route \in Realized, NEW n \in 1..Len(route.legs),
           NEW b \in [Slots(route) -> Nat]
    PROVE  ModelledLeg(route, n, b) \in [Slots(route) -> Nat]
  <1> DEFINE l == route.legs[n]
             out == Slice(route.legs, n, b[l.src]).take
  <1>1. /\ l.src \in Slots(route) /\ l.dst \in Slots(route) /\ LegOut(l) \in Nat
        /\ l.amount_in \in Nat
    BY LegsAre
  <1>2. b[l.src] \in Nat
    BY <1>1
  <1>3. out \in 0..b[l.src]
    BY <1>1, <1>2, SliceIs
  <1>4. out \in Nat /\ out <= b[l.src]
    BY <1>2, <1>3
  <1> HIDE DEF l, out
  <1>5. Shift(b, l, out, LegOut(l)) \in [Slots(route) -> Nat]
    BY <1>1, <1>4, ShiftIs
  <1> QED BY <1>5 DEF ModelledLeg, l, out

LEMMA ModelledIs ==
    ASSUME NEW route \in Realized
    PROVE  /\ Modelled(route) \in [0..Len(route.legs) -> [Slots(route) -> Nat]]
           /\ Modelled(route)[0] = Filled(route)
           /\ \A n \in 1..Len(route.legs) :
                Modelled(route)[n] = ModelledLeg(route, n, Modelled(route)[n - 1])
  <1> DEFINE top == Len(route.legs)
             Values == [Slots(route) -> Nat]
             step == [n \in 1..top |-> [b \in Values |-> ModelledLeg(route, n, b)]]
             Is(f) == f = [n \in 0..top |-> IF n = 0 THEN Filled(route)
                                          ELSE ModelledLeg(route, n, f[n - 1])]
  <1>1. top \in Nat
    BY LegsAre
  <1>2. step \in [1..top -> [Values -> Values]]
    BY ModelledLegIs
  <1>3. Filled(route) \in Values
    BY FilledIs
  <1>4. PICK f \in [0..top -> Values] : Iterates(f, top, Filled(route), step)
    <2> HIDE DEF step, top, Values
    <2> QED BY <1>1, <1>2, <1>3, Iteration, Zenon
  <1>5. ASSUME NEW n \in 1..top PROVE f[n] = ModelledLeg(route, n, f[n - 1])
    <2> HIDE DEF Values, top
    <2>1. n - 1 \in 0..top
      BY <1>1
    <2>2. f[n - 1] \in Values
      BY <2>1
    <2>3. f[n] = step[n][f[n - 1]]
      BY <1>4 DEF Iterates
    <2> QED BY <2>2, <2>3
  <1> HIDE DEF step, Values, top
  <1>6. Is(f)
    <2>1. f[0] = Filled(route)
      BY <1>4 DEF Iterates
    <2> QED BY <1>5, <2>1
  <1>7. \A g : Is(g) => g = f
    <2> SUFFICES ASSUME NEW g, Is(g) PROVE g = f
      OBVIOUS
    <2> DEFINE Good == {n \in 0..top : g[n] = f[n]}
    <2>1. g[0] = Filled(route) /\ \A n \in 1..top : g[n] = ModelledLeg(route, n, g[n - 1])
      BY <1>1
    <2>2. f[0] = Filled(route)
      BY <1>4 DEF Iterates
    <2>3. 0 \in Good
      BY <1>1, <2>1, <2>2
    <2>4. ASSUME NEW n \in 1..top, n - 1 \in Good PROVE n \in Good
      BY <1>1, <1>5, <2>1, <2>4
    <2>5. \A n \in 0..top : n \in Good
      <3> HIDE DEF Good
      <3> QED BY <1>1, <2>3, <2>4, UpTo
    <2>6. g = [n \in 0..top |-> g[n]] /\ f = [n \in 0..top |-> f[n]]
      OBVIOUS
    <2> QED BY <2>5, <2>6
  <1>8. Modelled(route) = f
    <2>1. Modelled(route) = CHOOSE g : Is(g)
      BY DEF Modelled, ModelledLeg, top
    <2> HIDE DEF Is
    <2> QED BY <1>6, <1>7, <2>1
  <1> QED BY <1>4, <1>5, <1>8 DEF Iterates, Values, top

LEMMA FractionsAre ==
    ASSUME NEW route \in Realized
    PROVE  /\ DOMAIN Fractions(route) = 1..Len(route.legs)
           /\ \A n \in 1..Len(route.legs) :
                /\ Fractions(route)[n] \in 0..ONE
                /\ LastOut(route.legs, n) => Fractions(route)[n] = ONE
  <1>1. Fractions(route) = [n \in 1..Len(route.legs) |->
             Slice(route.legs, n, Modelled(route)[n - 1][route.legs[n].src]).frac]
    BY LegsAre DEF Fractions
  <1>2. ASSUME NEW n \in 1..Len(route.legs)
        PROVE  /\ Fractions(route)[n] \in 0..ONE
               /\ LastOut(route.legs, n) => Fractions(route)[n] = ONE
    <2> DEFINE have == Modelled(route)[n - 1][route.legs[n].src]
    <2>1. n - 1 \in 0..Len(route.legs)
      BY LegsAre
    <2>2. have \in Nat
      BY <2>1, ModelledIs, LegsAre
    <2>3. Fractions(route)[n] = Slice(route.legs, n, have).frac
      BY <1>1
    <2> HIDE DEF have
    <2>4. route.legs[n].amount_in \in Nat
      BY LegsAre
    <2> QED BY <2>2, <2>3, <2>4, SliceIs
  <1> QED BY <1>1, <1>2

----------------------------------------------------------------------------
(* Its bounds.                                                             *)

\* What a fee is, where it was measured or not.
Figures == Int \cup {NaN}

\* The share a leg is granted is a share.
LEMMA ToleranceIs ==
    ASSUME NEW l \in RouteLeg, NEW volatile
    PROVE  Tolerance(l, volatile) \in 0..SHARE_ONE
  <1>0. SHARE_ONE \in Positive /\ FEE_SHARE \in Positive
        /\ FLOOR \in Nat /\ VOLATILE_FLOOR \in Nat
    BY ScaleAssumption DEF Positive
  <1>1. MovementFloor(l, volatile) \in Nat
    BY <1>0 DEF MovementFloor
  <1>2. BoundingFee(l) \in Nat
    <2>1. l.fee_floor \in Figures /\ l.fee_frac \in Figures /\ l.gamma \in Figures
      BY DEF RouteLeg, Figures
    <2>2. LegFee(l) \in Nat
      BY <1>0, <2>1 DEF LegFee, Usable, Figures, Positive
    <2> QED BY <2>1, <2>2 DEF BoundingFee, Usable, Figures
  <1> DEFINE share == BoundingFee(l) \div FEE_SHARE
             floor == MovementFloor(l, volatile)
  <1>3. share \in Nat
    BY <1>0, <1>2, Floor
  <1>4. floor \in Nat
    BY <1>1
  <1> HIDE DEF share, floor
  <1>5. AtMost(SHARE_ONE, AtLeast(share, floor)) \in 0..SHARE_ONE
    BY <1>0, <1>3, <1>4 DEF AtMost, AtLeast, Positive
  <1> QED BY <1>5 DEF Tolerance, share, floor

LEMMA BoundIs ==
    ASSUME NEW want \in Positive, NEW have \in Positive, NEW share \in 0..SHARE_ONE
    PROVE  Bound(want, have, share) \in Nat
  <1> DEFINE rate == (want * ONE) \div have
             off == (rate * share) \div SHARE_ONE
             unit == (want * ONE - 1) \div have
  <1>0. ONE \in Positive /\ SHARE_ONE \in Positive /\ share \in Nat
    BY MarketAssumption, ScaleAssumption DEF Positive
  <1>1. want * ONE \in Positive
    BY <1>0 DEF Positive
  <1>2. rate \in Nat /\ unit \in Nat
    BY <1>1, Floor DEF Positive
  <1> HIDE DEF rate, unit
  <1>3. rate * share \in Nat /\ rate * share <= rate * SHARE_ONE
    BY <1>0, <1>2 DEF Positive
  <1>4. off \in Nat /\ off <= rate
    BY <1>0, <1>2, <1>3, Floor, FloorUnder
  <1> HIDE DEF off
  <1>5. Bound(want, have, share) = unit \/ Bound(want, have, share) = rate - off
    BY DEF Bound, rate, unit, off
  <1> QED BY <1>2, <1>4, <1>5

LEMMA MinRatesAre ==
    ASSUME NEW route \in Realized, NEW volatile
    PROVE  /\ DOMAIN MinRates(route, volatile) = 1..Len(route.legs)
           /\ \A n \in 1..Len(route.legs) : MinRates(route, volatile)[n] \in Nat
  <1>1. MinRates(route, volatile) =
          [n \in 1..Len(route.legs) |-> MinRate(route.legs[n], volatile)]
    BY LegsAre DEF MinRates
  <1>2. ASSUME NEW n \in 1..Len(route.legs) PROVE MinRate(route.legs[n], volatile) \in Nat
    <2> DEFINE l == route.legs[n]
    <2>1. l \in RouteLeg /\ LegIn(l) \in Nat /\ LegOut(l) \in Nat
      BY LegsAre
    <2> HIDE DEF l
    <2>2. Tolerance(l, volatile) \in 0..SHARE_ONE
      BY <2>1, ToleranceIs
    <2>3. Measured(l) => LegIn(l) \in Positive /\ LegOut(l) \in Positive
      BY <2>1 DEF Measured, Positive
    <2>4. MinRate(l, volatile) \in Nat
      BY <2>2, <2>3, BoundIs DEF MinRate
    <2> QED BY <2>4 DEF l
  <1> QED BY <1>1, <1>2

\* What leg n of walk_bounds' loop makes of the balances.
BoundLeg(route, fracs, rates, n, b) ==
    LET l == route.legs[n]
        spent == (b[l.src] * fracs[n]) \div ONE
    IN  Shift(b, l, spent, FloorAt(spent, rates[n]))

\* The shares and rates of a route.
Scaling(route, fracs, rates) ==
    \A n \in 1..Len(route.legs) : fracs[n] \in 0..ONE /\ rates[n] \in Nat

LEMMA SpentIs ==
    ASSUME NEW have \in Nat, NEW frac \in 0..ONE, NEW rate \in Nat
    PROVE  /\ (have * frac) \div ONE \in 0..have
           /\ FloorAt((have * frac) \div ONE, rate) \in Nat
  <1> DEFINE spent == (have * frac) \div ONE
  <1>0. ONE \in Positive /\ frac \in Nat
    BY MarketAssumption DEF Positive
  <1>1. have * frac \in Nat /\ have * frac <= have * ONE
    BY <1>0 DEF Positive
  <1>2. spent \in Nat /\ spent <= have
    BY <1>0, <1>1, Floor, FloorUnder
  <1> HIDE DEF spent
  <1>3. spent * rate \in Nat
    BY <1>2
  <1>4. FloorAt(spent, rate) \in Nat
    BY <1>0, <1>3, Floor DEF FloorAt
  <1> QED BY <1>2, <1>4 DEF spent

LEMMA BoundLegIs ==
    ASSUME NEW route \in Realized, NEW fracs, NEW rates, Scaling(route, fracs, rates),
           NEW n \in 1..Len(route.legs), NEW b \in [Slots(route) -> Nat]
    PROVE  /\ BoundLeg(route, fracs, rates, n, b) \in [Slots(route) -> Nat]
           /\ LET l == route.legs[n]
                  spent == (b[l.src] * fracs[n]) \div ONE
              IN  Moved(b, l, spent, FloorAt(spent, rates[n]),
                        BoundLeg(route, fracs, rates, n, b))
  <1> DEFINE l == route.legs[n]
             spent == (b[l.src] * fracs[n]) \div ONE
             gained == FloorAt(spent, rates[n])
  <1>1. l.src \in Slots(route) /\ l.dst \in Slots(route)
    BY LegsAre
  <1>2. b[l.src] \in Nat /\ fracs[n] \in 0..ONE /\ rates[n] \in Nat
    BY <1>1 DEF Scaling
  <1>3. spent \in 0..b[l.src] /\ gained \in Nat
    BY <1>2, SpentIs
  <1>4. spent \in Nat /\ spent <= b[l.src] /\ gained \in Nat
    BY <1>2, <1>3
  <1> HIDE DEF spent, gained, l
  <1>5. /\ Shift(b, l, spent, gained) \in [Slots(route) -> Nat]
        /\ Moved(b, l, spent, gained, Shift(b, l, spent, gained))
    BY <1>1, <1>4, ShiftIs
  <1> QED BY <1>5 DEF BoundLeg, l, spent, gained

LEMMA WalkBoundsIs ==
    ASSUME NEW route \in Realized, NEW fracs, NEW rates, Scaling(route, fracs, rates)
    PROVE  LET walk == WalkBounds(route, fracs, rates)
           IN  /\ walk \in [0..Len(route.legs) -> [Slots(route) -> Nat]]
               /\ walk[0] = Filled(route)
               /\ \A n \in 1..Len(route.legs) :
                    walk[n] = BoundLeg(route, fracs, rates, n, walk[n - 1])
  <1> DEFINE top == Len(route.legs)
             Values == [Slots(route) -> Nat]
             one(n, b) == BoundLeg(route, fracs, rates, n, b)
             step == [n \in 1..top |-> [b \in Values |-> one(n, b)]]
             Is(f) == f = [n \in 0..top |-> IF n = 0 THEN Filled(route) ELSE one(n, f[n - 1])]
             walk == WalkBounds(route, fracs, rates)
  <1>1. top \in Nat
    BY LegsAre
  <1>2. step \in [1..top -> [Values -> Values]]
    BY BoundLegIs
  <1>3. Filled(route) \in Values
    BY FilledIs
  <1>4. walk = CHOOSE g : Is(g)
    BY DEF WalkBounds, BoundLeg
  <1> HIDE DEF one
  <1>5. PICK f \in [0..top -> Values] : Iterates(f, top, Filled(route), step)
    <2> HIDE DEF step, top, Values
    <2> QED BY <1>1, <1>2, <1>3, Iteration, Zenon
  <1>6. ASSUME NEW n \in 1..top PROVE f[n] = one(n, f[n - 1])
    <2> HIDE DEF Values, top
    <2>1. n - 1 \in 0..top
      BY <1>1
    <2>2. f[n - 1] \in Values
      BY <2>1
    <2>3. f[n] = step[n][f[n - 1]]
      BY <1>5 DEF Iterates
    <2> QED BY <2>2, <2>3
  <1> HIDE DEF step, Values, top, walk
  <1>7. Is(f)
    <2>1. f[0] = Filled(route)
      BY <1>5 DEF Iterates
    <2> QED BY <1>6, <2>1
  <1>8. Is(walk)
    <2> HIDE DEF Is
    <2> QED BY <1>4, <1>7
  <1>9. walk[0] = Filled(route) /\ \A n \in 1..top : walk[n] = one(n, walk[n - 1])
    BY <1>1, <1>8
  <1>10. \A n \in 0..top : walk[n] \in Values
    <2> DEFINE Good == {n \in 0..top : walk[n] \in Values}
    <2>1. 0 \in Good
      BY <1>1, <1>3, <1>9
    <2>2. ASSUME NEW n \in 1..top, n - 1 \in Good PROVE n \in Good
      <3>1. one(n, walk[n - 1]) \in Values
        BY <2>2, BoundLegIs DEF one, Values, top
      <3> QED BY <1>1, <1>9, <3>1
    <2>3. \A n \in 0..top : n \in Good
      <3> HIDE DEF Good
      <3> QED BY <1>1, <2>1, <2>2, UpTo
    <2> QED BY <2>3
  <1>11. walk = [n \in 0..top |-> walk[n]]
    BY <1>8
  <1>12. walk \in [0..top -> Values]
    BY <1>10, <1>11
  <1> QED BY <1>9, <1>12 DEF walk, top, Values, one

----------------------------------------------------------------------------
(* The tokens it names.                                                    *)

Has(tokens, t) == \E ref \in 1..Len(tokens) : tokens[ref] = t

LEMMA ListedIs ==
    ASSUME NEW tokens \in Seq(Token), NEW t \in Token, NEW named \in BOOLEAN
    PROVE  /\ Listed(tokens, t, named) \in Seq(Token)
           /\ \A u \in Token : Has(tokens, u) => Has(Listed(tokens, t, named), u)
           /\ named => Has(Listed(tokens, t, named), t)
  <1>1. CASE named /\ ~Contains(tokens, t)
    <2> DEFINE more == Append(tokens, t)
    <2>1. Listed(tokens, t, named) = more
      BY <1>1 DEF Listed
    <2>2. /\ more \in Seq(Token) /\ Len(more) = Len(tokens) + 1 /\ Len(tokens) \in Nat
          /\ more[Len(tokens) + 1] = t /\ \A ref \in 1..Len(tokens) : more[ref] = tokens[ref]
      OBVIOUS
    <2> HIDE DEF more
    <2>3. Has(more, t)
      BY <2>2 DEF Has
    <2>4. \A u \in Token : Has(tokens, u) => Has(more, u)
      BY <2>2 DEF Has
    <2> QED BY <2>1, <2>2, <2>3, <2>4
  <1>2. CASE ~(named /\ ~Contains(tokens, t))
    <2>1. Listed(tokens, t, named) = tokens
      BY <1>2 DEF Listed
    <2>2. named => Has(tokens, t)
      BY <1>2 DEF Has, Contains
    <2> QED BY <2>1, <2>2
  <1> QED BY <1>1, <1>2

LEMMA NamedOrNot ==
    ASSUME NEW l, NEW naming
    PROVE  NamesIn(l, naming) \in BOOLEAN /\ NamesOut(l, naming) \in BOOLEAN
  BY DEF NamesIn, NamesOut, MustName

\* The list after a leg.
ListLeg(l, naming, tokens) ==
    Listed(Listed(tokens, l.token_in, NamesIn(l, naming)), l.token_out, NamesOut(l, naming))

LEMMA ListLegIs ==
    ASSUME NEW l \in RouteLeg, NEW naming, NEW tokens \in Seq(Token)
    PROVE  /\ ListLeg(l, naming, tokens) \in Seq(Token)
           /\ \A u \in Token : Has(tokens, u) => Has(ListLeg(l, naming, tokens), u)
           /\ NamesIn(l, naming) => Has(ListLeg(l, naming, tokens), l.token_in)
           /\ NamesOut(l, naming) => Has(ListLeg(l, naming, tokens), l.token_out)
  <1> DEFINE half == Listed(tokens, l.token_in, NamesIn(l, naming))
  <1>1. l.token_in \in Token /\ l.token_out \in Token
    BY DEF RouteLeg
  <1>2. /\ half \in Seq(Token)
        /\ \A u \in Token : Has(tokens, u) => Has(half, u)
        /\ NamesIn(l, naming) => Has(half, l.token_in)
    BY <1>1, NamedOrNot, ListedIs
  <1> HIDE DEF half
  <1>3. ListLeg(l, naming, tokens) = Listed(half, l.token_out, NamesOut(l, naming))
    BY DEF ListLeg, half
  <1>4. /\ Listed(half, l.token_out, NamesOut(l, naming)) \in Seq(Token)
        /\ \A u \in Token :
             Has(half, u) => Has(Listed(half, l.token_out, NamesOut(l, naming)), u)
        /\ NamesOut(l, naming) => Has(Listed(half, l.token_out, NamesOut(l, naming)), l.token_out)
    BY <1>1, <1>2, NamedOrNot, ListedIs
  <1> QED BY <1>1, <1>2, <1>3, <1>4

\* What the legs up to n name is on the list.
Covered(route, naming, n, tokens) ==
    /\ tokens \in Seq(Token)
    /\ \A m \in 1..n : /\ NamesIn(route.legs[m], naming) => Has(tokens, route.legs[m].token_in)
                       /\ NamesOut(route.legs[m], naming) => Has(tokens, route.legs[m].token_out)

LEMMA CoversOneMore ==
    ASSUME NEW route \in Realized, NEW naming, NEW n \in 1..Len(route.legs), NEW tokens,
           Covered(route, naming, n - 1, tokens)
    PROVE  Covered(route, naming, n, ListLeg(route.legs[n], naming, tokens))
  <1> DEFINE l == route.legs[n]
             more == ListLeg(l, naming, tokens)
  <1>0. Len(route.legs) \in Nat /\ tokens \in Seq(Token)
    BY LegsAre DEF Covered
  <1>1. \A m \in 1..Len(route.legs) : /\ route.legs[m].token_in \in Token
                                      /\ route.legs[m].token_out \in Token
    BY LegsAre DEF RouteLeg
  <1>2. /\ more \in Seq(Token)
        /\ \A u \in Token : Has(tokens, u) => Has(more, u)
        /\ NamesIn(l, naming) => Has(more, l.token_in)
        /\ NamesOut(l, naming) => Has(more, l.token_out)
    BY <1>0, LegsAre, ListLegIs
  <1> HIDE DEF more
  <1>3. ASSUME NEW m \in 1..n
        PROVE  /\ NamesIn(route.legs[m], naming) => Has(more, route.legs[m].token_in)
               /\ NamesOut(route.legs[m], naming) => Has(more, route.legs[m].token_out)
    <2>1. CASE m = n
      BY <1>2, <2>1
    <2>2. CASE m # n
      <3>1. m \in 1..n - 1 /\ m \in 1..Len(route.legs)
        BY <1>0, <2>2
      <3> QED BY <1>1, <1>2, <3>1 DEF Covered
    <2> QED BY <2>1, <2>2
  <1> QED BY <1>2, <1>3 DEF Covered, more

\* Every token a leg names is in the call's list (encode_route, 586-604).
LEMMA TokensAre ==
    ASSUME NEW route \in Realized, NEW naming
    PROVE  Covered(route, naming, Len(route.legs), Tokens(route, naming))
  <1> DEFINE top == Len(route.legs)
             Values == Seq(Token)
             add(n, b) == ListLeg(route.legs[n], naming, b)
             step == [n \in 1..top |-> [b \in Values |-> add(n, b)]]
             Is(f) == f = [n \in 0..top |-> IF n = 0 THEN <<>> ELSE add(n, f[n - 1])]
             after == CHOOSE g : Is(g)
  <1>1. top \in Nat
    BY LegsAre
  <1>2. step \in [1..top -> [Values -> Values]]
    BY LegsAre, ListLegIs
  <1>3. <<>> \in Values
    OBVIOUS
  <1>4. Tokens(route, naming) = after[top]
    BY DEF Tokens, ListLeg
  <1> HIDE DEF add
  <1>5. PICK f \in [0..top -> Values] : Iterates(f, top, <<>>, step)
    <2> HIDE DEF step, top, Values
    <2> QED BY <1>1, <1>2, <1>3, Iteration, Zenon
  <1>6. ASSUME NEW n \in 1..top PROVE f[n] = add(n, f[n - 1])
    <2> HIDE DEF Values, top
    <2>1. n - 1 \in 0..top
      BY <1>1
    <2>2. f[n - 1] \in Values
      BY <2>1
    <2>3. f[n] = step[n][f[n - 1]]
      BY <1>5 DEF Iterates
    <2> QED BY <2>2, <2>3
  <1> HIDE DEF step, Values, top
  <1>7. Is(f)
    <2>1. f[0] = <<>>
      BY <1>5 DEF Iterates
    <2> QED BY <1>6, <2>1
  <1>8. Is(after)
    <2> HIDE DEF Is
    <2> QED BY <1>7
  <1> HIDE DEF after
  <1>9. after[0] = <<>> /\ \A n \in 1..top : after[n] = add(n, after[n - 1])
    BY <1>1, <1>8
  <1> DEFINE Good == {n \in 0..top : Covered(route, naming, n, after[n])}
  <1>10. 0 \in Good
    <2>1. Covered(route, naming, 0, <<>>)
      BY DEF Covered
    <2> QED BY <1>1, <1>9, <2>1
  <1>11. ASSUME NEW n \in 1..top, n - 1 \in Good PROVE n \in Good
    <2>1. Covered(route, naming, n - 1, after[n - 1])
      BY <1>11
    <2>2. Covered(route, naming, n, add(n, after[n - 1]))
      BY <2>1, CoversOneMore DEF top, add
    <2> QED BY <1>1, <1>9, <2>2
  <1>12. \A n \in 0..top : n \in Good
    <2> HIDE DEF Good
    <2> QED BY <1>1, <1>10, <1>11, UpTo
  <1>13. Covered(route, naming, top, after[top])
    BY <1>1, <1>12
  <1> QED BY <1>4, <1>13 DEF top

----------------------------------------------------------------------------
(* What the contract reads back.                                           *)

\* Every side is one of the four, and two of them need no market to agree.
LEMMA RuleIs ==
    ASSUME NEW l \in RouteLeg
    PROVE  /\ Rule(l.kind)[1] \in {"coin", "getter", "target", "native"}
           /\ Rule(l.kind)[2] \in {"coin", "getter", "target", "native"}
           /\ Rule(l.kind)[1] = "target" => ReadIn(l) = Itself(l.target)
           /\ Rule(l.kind)[2] = "target" => ReadOut(l) = Itself(l.target)
           /\ Rule(l.kind)[1] = "native" => ReadIn(l) = NATIVE
           /\ Rule(l.kind)[2] = "native" => ReadOut(l) = NATIVE
  <1> DEFINE kind == l.kind
  <1>0. kind \in Kind
    BY DEF RouteLeg
  <1> USE DEF SwapKinds, DepositKinds, WithdrawKinds, WrapKinds, UnwrapKinds
  <1>1. CASE kind \in SwapKinds
    BY <1>1 DEF Rule, ReadIn, ReadOut, Derive
  <1>2. CASE kind \in DepositKinds
    BY <1>2 DEF Rule, ReadIn, ReadOut, Derive
  <1>3. CASE kind \in WithdrawKinds
    BY <1>3 DEF Rule, ReadIn, ReadOut, Derive
  <1>4. CASE kind \in WrapKinds
    BY <1>4 DEF Rule, ReadIn, ReadOut, Derive
  <1>5. CASE kind \in UnwrapKinds
    BY <1>5 DEF Rule, ReadIn, ReadOut, Derive
  <1>6. CASE kind \in {"WRAP_NATIVE", "STAKE_NATIVE"}
    BY <1>6 DEF Rule, ReadIn, ReadOut, Derive
  <1>7. CASE kind = "UNWRAP_NATIVE"
    BY <1>7 DEF Rule, ReadIn, ReadOut, Derive
  <1> QED BY <1>0, <1>1, <1>2, <1>3, <1>4, <1>5, <1>6, <1>7 DEF Kind

LEMMA ReadIs ==
    ASSUME NEW l \in RouteLeg, OfItsPool(l), NEW naming
    PROVE  /\ ~NamesIn(l, naming) => ReadIn(l) \in {l.token_in, NoToken}
           /\ ~NamesOut(l, naming) => ReadOut(l) \in {l.token_out, NoToken}
           /\ ~NamesIn(l, naming) /\ naming # "none" => ReadIn(l) = l.token_in
           /\ ~NamesOut(l, naming) /\ naming # "none" => ReadOut(l) = l.token_out
  <1>1. l.token_in \in Token /\ l.token_out \in Token
    BY DEF RouteLeg
  <1>2. ~NamesIn(l, naming) =>
          /\ Rule(l.kind)[1] = "target" => l.token_in = l.target
          /\ Rule(l.kind)[1] = "native" => l.token_in = NATIVE
          /\ Rule(l.kind)[1] = "getter" => naming = "none"
    BY DEF NamesIn, MustName
  <1>3. ~NamesOut(l, naming) =>
          /\ Rule(l.kind)[2] = "target" => l.token_out = l.target
          /\ Rule(l.kind)[2] = "native" => l.token_out = NATIVE
          /\ Rule(l.kind)[2] = "getter" => naming = "none"
    BY DEF NamesOut, MustName
  <1>4. ASSUME ~NamesIn(l, naming)
        PROVE  /\ ReadIn(l) \in {l.token_in, NoToken}
               /\ naming # "none" => ReadIn(l) = l.token_in
    <2>1. Rule(l.kind)[1] = "target" => ReadIn(l) = l.token_in
      BY <1>1, <1>2, <1>4, RuleIs DEF Itself
    <2>2. Rule(l.kind)[1] = "native" => ReadIn(l) = l.token_in
      BY <1>2, <1>4, RuleIs
    <2> QED BY <1>2, <1>4, <2>1, <2>2, RuleIs DEF OfItsPool
  <1>5. ASSUME ~NamesOut(l, naming)
        PROVE  /\ ReadOut(l) \in {l.token_out, NoToken}
               /\ naming # "none" => ReadOut(l) = l.token_out
    <2>1. Rule(l.kind)[2] = "target" => ReadOut(l) = l.token_out
      BY <1>1, <1>3, <1>5, RuleIs DEF Itself
    <2>2. Rule(l.kind)[2] = "native" => ReadOut(l) = l.token_out
      BY <1>3, <1>5, RuleIs
    <2> QED BY <1>3, <1>5, <2>1, <2>2, RuleIs DEF OfItsPool
  <1> QED BY <1>4, <1>5

\* A reference to a token on the list finds it; no reference leaves it to the pool.
LEMMA RefIs ==
    ASSUME NEW tokens \in Seq(Token), NEW t, NEW derived
    PROVE  /\ Has(tokens, t) => Resolve(Ref(tokens, t, TRUE), tokens, derived) = t
           /\ Resolve(Ref(tokens, t, FALSE), tokens, derived) = derived
  <1>1. ASSUME Has(tokens, t) PROVE Resolve(Ref(tokens, t, TRUE), tokens, derived) = t
    <2> DEFINE ref == CHOOSE ref \in DOMAIN tokens : tokens[ref] = t
    <2>1. DOMAIN tokens = 1..Len(tokens)
      OBVIOUS
    <2>2. ref \in DOMAIN tokens /\ tokens[ref] = t
      BY <1>1, <2>1 DEF Has
    <2>3. Ref(tokens, t, TRUE) = ref
      BY DEF Ref
    <2> HIDE DEF ref
    <2>4. ref # 0 /\ ref \in DOMAIN tokens
      BY <2>1, <2>2
    <2>5. Resolve(ref, tokens, derived) = t
      BY <2>2, <2>4 DEF Resolve
    <2> QED BY <2>3, <2>5
  <1>2. Resolve(Ref(tokens, t, FALSE), tokens, derived) = derived
    BY DEF Resolve, Ref
  <1> QED BY <1>1, <1>2

\* What is read back of a leg's word: what was sent, between the tokens the leg means,
\* or a token that no getter answers where naming was left to the getters.
ReadsBack(step, l, frac, rate, naming) ==
    /\ step.frac = frac /\ step.min_rate = rate
    /\ step.pool = l.target /\ step.kind = l.kind
    /\ step.token_in \in {l.token_in, NoToken}
    /\ step.token_out \in {l.token_out, NoToken}
    /\ naming # "none" => step.token_in = l.token_in /\ step.token_out = l.token_out

LEMMA WordReads ==
    ASSUME NEW route \in Realized, NEW naming, NEW n \in 1..Len(route.legs),
           NEW frac, NEW rate, OfItsPool(route.legs[n])
    PROVE  ReadsBack(Unpack(EncodeWord(route.legs[n], frac, rate, Tokens(route, naming), naming),
                            Tokens(route, naming)),
                     route.legs[n], frac, rate, naming)
  <1> DEFINE l == route.legs[n]
             tokens == Tokens(route, naming)
             word == EncodeWord(l, frac, rate, tokens, naming)
             step == Unpack(word, tokens)
  <1>1. l \in RouteLeg
    BY LegsAre
  <1>2. /\ tokens \in Seq(Token)
        /\ NamesIn(l, naming) => Has(tokens, l.token_in)
        /\ NamesOut(l, naming) => Has(tokens, l.token_out)
    BY TokensAre DEF Covered
  <1>3. OfItsPool(l)
    OBVIOUS
  <1> HIDE DEF l, tokens
  <1>4. /\ step.frac = frac /\ step.min_rate = rate
        /\ step.pool = l.target /\ step.kind = l.kind
        /\ step.token_in = Resolve(Ref(tokens, l.token_in, NamesIn(l, naming)), tokens, ReadIn(l))
        /\ step.token_out =
             Resolve(Ref(tokens, l.token_out, NamesOut(l, naming)), tokens, ReadOut(l))
    BY DEF Unpack, EncodeWord, ReadIn, ReadOut
  <1> HIDE DEF step
  <1>5. step.token_in = IF NamesIn(l, naming) THEN l.token_in ELSE ReadIn(l)
    <2>1. CASE NamesIn(l, naming)
      <3>1. NamesIn(l, naming) = TRUE
        BY <2>1, NamedOrNot
      <3> QED BY <1>2, <1>4, <2>1, <3>1, RefIs
    <2>2. CASE ~NamesIn(l, naming)
      <3>1. NamesIn(l, naming) = FALSE
        BY <2>2, NamedOrNot
      <3>2. Resolve(Ref(tokens, l.token_in, FALSE), tokens, ReadIn(l)) = ReadIn(l)
        BY <1>2, RefIs
      <3> QED BY <1>4, <2>2, <3>1, <3>2
    <2> QED BY <2>1, <2>2
  <1>6. step.token_out = IF NamesOut(l, naming) THEN l.token_out ELSE ReadOut(l)
    <2>1. CASE NamesOut(l, naming)
      <3>1. NamesOut(l, naming) = TRUE
        BY <2>1, NamedOrNot
      <3> QED BY <1>2, <1>4, <2>1, <3>1, RefIs, ZenonT(60)
    <2>2. CASE ~NamesOut(l, naming)
      <3>1. NamesOut(l, naming) = FALSE
        BY <2>2, NamedOrNot
      <3>2. Resolve(Ref(tokens, l.token_out, FALSE), tokens, ReadOut(l)) = ReadOut(l)
        BY <1>2, RefIs
      <3> QED BY <1>4, <2>2, <3>1, <3>2
    <2> QED BY <2>1, <2>2
  <1>7. /\ step.token_in \in {l.token_in, NoToken} /\ step.token_out \in {l.token_out, NoToken}
        /\ naming # "none" => step.token_in = l.token_in /\ step.token_out = l.token_out
    BY <1>1, <1>3, <1>5, <1>6, ReadIs
  <1> QED BY <1>4, <1>7 DEF ReadsBack, step, word, l, tokens

----------------------------------------------------------------------------
(* The walk of the slots is the walk of the tokens.                        *)

\* The balances of the slots, each under its token.
ByToken(b, token) ==
    [t \in Token |-> IF \E slot \in DOMAIN token : token[slot] = t
                     THEN b[CHOOSE slot \in DOMAIN token : token[slot] = t] ELSE 0]

LEMMA ByTokenIs ==
    ASSUME NEW Where, NEW token \in [Where -> Token], NEW b \in [Where -> Nat],
           \A a1 \in Where : \A a2 \in Where : token[a1] = token[a2] => a1 = a2
    PROVE  /\ ByToken(b, token) \in [Token -> Nat]
           /\ \A slot \in Where : ByToken(b, token)[token[slot]] = b[slot]
           /\ \A t \in Token : (\A slot \in Where : token[slot] # t) => ByToken(b, token)[t] = 0
  <1>1. DOMAIN token = Where
    OBVIOUS
  <1>2. ASSUME NEW slot \in Where PROVE ByToken(b, token)[token[slot]] = b[slot]
    <2> DEFINE found == CHOOSE other \in DOMAIN token : token[other] = token[slot]
    <2>1. found \in Where /\ token[found] = token[slot]
      BY <1>1
    <2>2. found = slot
      BY <2>1
    <2> QED BY <1>1, <2>2 DEF ByToken
  <1>3. ASSUME NEW t \in Token, \A slot \in Where : token[slot] # t
        PROVE  ByToken(b, token)[t] = 0
    BY <1>1, <1>3 DEF ByToken
  <1>4. ASSUME NEW t \in Token PROVE ByToken(b, token)[t] \in Nat
    <2>1. CASE \E slot \in Where : token[slot] = t
      BY <1>2, <2>1
    <2>2. CASE ~\E slot \in Where : token[slot] = t
      BY <1>3, <2>2
    <2> QED BY <2>1, <2>2
  <1>5. ByToken(b, token) = [t \in Token |-> ByToken(b, token)[t]]
    BY DEF ByToken
  <1> QED BY <1>2, <1>3, <1>4, <1>5

\* What moves two slots moves their tokens.
LEMMA MovedByToken ==
    ASSUME NEW Where, NEW token \in [Where -> Token],
           NEW b \in [Where -> Nat], NEW after \in [Where -> Nat],
           \A a1 \in Where : \A a2 \in Where : token[a1] = token[a2] => a1 = a2,
           NEW l, l.src \in Where, l.dst \in Where, NEW out \in Nat, NEW in \in Nat,
           Moved(b, l, out, in, after), NEW t \in Token
    PROVE  ByToken(after, token)[t] =
             ByToken(b, token)[t] - (IF t = token[l.src] THEN out ELSE 0)
                                  + (IF t = token[l.dst] THEN in ELSE 0)
  <1>1. CASE \E slot \in Where : token[slot] = t
    <2>1. PICK slot \in Where : token[slot] = t
      BY <1>1
    <2>2. ByToken(after, token)[t] = after[slot] /\ ByToken(b, token)[t] = b[slot]
      BY <2>1, ByTokenIs
    <2>3. after[slot] = b[slot] - (IF slot = l.src THEN out ELSE 0)
                                + (IF slot = l.dst THEN in ELSE 0)
      BY DEF Moved
    <2>4. (t = token[l.src] <=> slot = l.src) /\ (t = token[l.dst] <=> slot = l.dst)
      BY <2>1
    <2> QED BY <2>2, <2>3, <2>4
  <1>2. CASE ~\E slot \in Where : token[slot] = t
    <2>1. ByToken(after, token)[t] = 0 /\ ByToken(b, token)[t] = 0
      BY <1>2, ByTokenIs
    <2>2. t # token[l.src] /\ t # token[l.dst]
      BY <1>2
    <2> QED BY <2>1, <2>2
  <1> QED BY <1>1, <1>2

----------------------------------------------------------------------------
(* A route, the call it makes, and what arrives.                           *)

\* The call as the contract sees it is the one that was made.
Arrives(c, sent) ==
    /\ c.words = sent.words /\ c.tokens = sent.tokens
    /\ c.amount_in = sent.amount_in /\ c.min_out = sent.min_out

\* It is the call made of this route, whoever is paid and whatever least is asked for.
Encodes(c, route, volatile, naming) ==
    \E receiver, approvals, least, sender :
        Arrives(c, Received(EncodeRoute(route, receiver, approvals, least, volatile, naming),
                            sender))

\* The walk of its bounds, by tokens.
WalkByToken(route, token, volatile) ==
    [n \in 1..Len(route.legs) + 1 |->
        ByToken(WalkBounds(route, Fractions(route), MinRates(route, volatile))[n - 1], token)]

LEMMA ReceivedIs ==
    ASSUME NEW told, NEW sender
    PROVE  /\ Received(told, sender).words = told.words
           /\ Received(told, sender).tokens = told.tokens
           /\ Received(told, sender).amount_in = told.amount_in
           /\ Received(told, sender).min_out = told.min_out
  BY DEF Received, Arguments

\* The words of such a call.
LEMMA WordsAre ==
    ASSUME NEW c, NEW route \in Realized, NEW volatile, NEW naming,
           Encodes(c, route, volatile, naming)
    PROVE  /\ c.words = [n \in 1..Len(route.legs) |->
                EncodeWord(route.legs[n], Fractions(route)[n], MinRates(route, volatile)[n],
                           Tokens(route, naming), naming)]
           /\ Len(c.words) = Len(route.legs)
           /\ c.tokens = Tokens(route, naming) /\ c.amount_in = route.amount_in
  <1>0. DOMAIN route.legs = 1..Len(route.legs) /\ Len(route.legs) \in Nat
    BY LegsAre
  <1>1. PICK receiver, approvals, least, sender :
          Arrives(c, Received(EncodeRoute(route, receiver, approvals, least, volatile, naming),
                              sender))
    BY DEF Encodes
  <1> DEFINE told == EncodeRoute(route, receiver, approvals, least, volatile, naming)
  <1>2. /\ c.words = told.words /\ c.tokens = told.tokens /\ c.amount_in = told.amount_in
    <2> HIDE DEF told
    <2>1. Arrives(c, Received(told, sender))
      BY <1>1 DEF told
    <2> QED BY <2>1, ReceivedIs DEF Arrives
  <1>3. /\ told.words = [n \in 1..Len(route.legs) |->
             EncodeWord(route.legs[n], Fractions(route)[n], MinRates(route, volatile)[n],
                        Tokens(route, naming), naming)]
        /\ told.tokens = Tokens(route, naming) /\ told.amount_in = route.amount_in
    BY <1>0 DEF EncodeRoute
  <1> HIDE DEF told
  <1>4. Len(c.words) = Len(route.legs)
    BY <1>0, <1>2, <1>3
  <1> QED BY <1>2, <1>3, <1>4

\* The legs the contract runs: the route's, with its shares and rates.
LEMMA LegsRead ==
    ASSUME NEW c, NEW route, NEW token, NEW volatile, NEW naming,
           Executable(route, token), Encodes(c, route, volatile, naming), Accepts(c),
           NEW n \in 1..Len(route.legs)
    PROVE  /\ LegsOf(c)[n].token_in = token[route.legs[n].src]
           /\ LegsOf(c)[n].token_out = token[route.legs[n].dst]
           /\ LegsOf(c)[n].frac = Fractions(route)[n]
           /\ LegsOf(c)[n].min_rate = MinRates(route, volatile)[n]
           /\ Fractions(route)[n] # 0
  <1> DEFINE l == route.legs[n]
             frac == Fractions(route)[n]
             rate == MinRates(route, volatile)[n]
             tokens == Tokens(route, naming)
             step == Unpack(EncodeWord(l, frac, rate, tokens, naming), tokens)
  <1>0. route \in Realized /\ OfItsPool(l)
        /\ l.token_in = token[l.src] /\ l.token_out = token[l.dst]
    BY DEF Executable
  <1>1. Len(c.words) = Len(route.legs) /\ Len(route.legs) \in Nat
        /\ c.words[n] = EncodeWord(l, frac, rate, tokens, naming) /\ c.tokens = tokens
    <2>1. /\ c.words = [m \in 1..Len(route.legs) |->
                  EncodeWord(route.legs[m], Fractions(route)[m], MinRates(route, volatile)[m],
                             Tokens(route, naming), naming)]
          /\ Len(c.words) = Len(route.legs) /\ c.tokens = Tokens(route, naming)
      BY <1>0, WordsAre
    <2> QED BY <1>0, <2>1, LegsAre
  <1>2. LegsOf(c)[n] = step
    <2> HIDE DEF tokens, frac, rate, l
    <2> QED BY <1>1 DEF LegsOf, Steps
  <1>3. Unpacks(step)
    <2>1. n \in 1..Len(c.words)
      BY <1>1
    <2>2. Unpacks(Unpack(c.words[n], c.tokens))
      BY <2>1 DEF Accepts
    <2> HIDE DEF tokens, frac, rate, l
    <2> QED BY <1>1, <2>2
  <1>4. /\ step.frac = frac /\ step.min_rate = rate
        /\ step.token_in \in {l.token_in, NoToken}
        /\ step.token_out \in {l.token_out, NoToken}
    <2>1. ReadsBack(step, l, frac, rate, naming)
      BY <1>0, WordReads
    <2> QED BY <2>1 DEF ReadsBack
  <1> HIDE DEF step, frac, rate
  <1>5. step.frac # 0 /\ step.token_in # NoToken /\ step.token_out # NoToken
    BY <1>3, MarketAssumption DEF Unpacks
  <1> QED BY <1>0, <1>2, <1>4, <1>5 DEF l, frac, rate

\* A call has one walk.
LEMMA OneWalk ==
    ASSUME NEW c, Len(c.words) \in Nat, NEW one, NEW two,
           one \in Seq([Token -> Nat]), two \in Seq([Token -> Nat]),
           IsWalk(c, one), IsWalk(c, two)
    PROVE  one = two
  <1> DEFINE top == Len(c.words)
             Good == {n \in 0..top : one[n + 1] = two[n + 1]}
  <1>1. 0 \in Good
    BY DEF IsWalk
  <1>2. ASSUME NEW n \in 1..top, n - 1 \in Good PROVE n \in Good
    <2>1. one[n] = two[n]
      BY <1>2
    <2>2. one[n + 1] = WalkLeg(one[n], LegsOf(c)[n]) /\ two[n + 1] = WalkLeg(two[n], LegsOf(c)[n])
      BY DEF IsWalk
    <2> QED BY <2>1, <2>2
  <1>3. \A n \in 0..top : n \in Good
    <2> HIDE DEF Good
    <2> QED BY <1>1, <1>2, UpTo
  <1>4. \A n \in 1..top + 1 : one[n] = two[n]
    <2> SUFFICES ASSUME NEW n \in 1..top + 1 PROVE one[n] = two[n]
      OBVIOUS
    <2>1. n - 1 \in 0..top
      OBVIOUS
    <2>2. n - 1 \in Good
      BY <1>3, <2>1
    <2> QED BY <2>2
  <1>5. Len(one) = top + 1 /\ Len(two) = top + 1
    BY DEF IsWalk
  <1>6. one = [n \in 1..top + 1 |-> one[n]] /\ two = [n \in 1..top + 1 |-> two[n]]
    BY <1>5
  <1> HIDE DEF top
  <1> QED BY <1>4, <1>6

\* The walk `walk_bounds` took over the slots is, by tokens, the one the contract's own
\* legs take (core/routecall.py:442, contracts/ElectricRouter.vy): the contract reads out
\* of the words the legs, the shares and the rates the walk was taken with.  What it
\* ends with is guaranteed_out, and the last leg out of every token takes all of it.
THEOREM EncodedWalk ==
    ASSUME NEW c, NEW route, NEW token, NEW volatile, NEW naming,
           Executable(route, token), Encodes(c, route, volatile, naming), Accepts(c)
    PROVE  /\ WalkByToken(route, token, volatile) \in Seq([Token -> Nat])
           /\ IsWalk(c, WalkByToken(route, token, volatile))
           /\ WalkByToken(route, token, volatile)[Len(c.words) + 1]
                         [LegsOf(c)[Len(c.words)].token_out]
                = GuaranteedOut(route, Fractions(route), MinRates(route, volatile))
           /\ TakesTheRest(c)
  <1> DEFINE top == Len(route.legs)
             Where == Slots(route)
             fracs == Fractions(route)
             rates == MinRates(route, volatile)
             walk == WalkBounds(route, fracs, rates)
             byToken == WalkByToken(route, token, volatile)
  <1>1. /\ route \in Realized /\ top \in Nat /\ top > 0 /\ token \in [Where -> Token]
        /\ \A a \in Where : \A b \in Where : token[a] = token[b] => a = b
    BY LegsAre DEF Executable
  <1>2. Len(c.words) = top /\ c.amount_in = route.amount_in
    BY <1>1, WordsAre
  <1>3. Scaling(route, fracs, rates)
    BY <1>1, FractionsAre, MinRatesAre DEF Scaling
  <1>4. /\ walk \in [0..top -> [Where -> Nat]] /\ walk[0] = Filled(route)
        /\ \A n \in 1..top : walk[n] = BoundLeg(route, fracs, rates, n, walk[n - 1])
    <2> HIDE DEF fracs, rates
    <2> QED BY <1>1, <1>3, WalkBoundsIs
  <1>5. byToken = [n \in 1..top + 1 |-> ByToken(walk[n - 1], token)]
    BY DEF WalkByToken
  <1>6. \A n \in 1..top :
          /\ route.legs[n].src \in Where /\ route.legs[n].dst \in Where
          /\ LegsOf(c)[n].token_in = token[route.legs[n].src]
          /\ LegsOf(c)[n].token_out = token[route.legs[n].dst]
          /\ LegsOf(c)[n].frac = fracs[n]
          /\ LegsOf(c)[n].min_rate = rates[n]
    BY <1>1, LegsAre, LegsRead
  <1>7. /\ 0 \in Where /\ route.dst_slot \in Where /\ route.legs[1].src = 0
        /\ route.legs[top].dst = route.dst_slot
    BY <1>1, LegsAre DEF Executable
  <1>8. byToken[Len(c.words) + 1][LegsOf(c)[Len(c.words)].token_out]
          = GuaranteedOut(route, fracs, rates)
    <2>1. GuaranteedOut(route, fracs, rates) = walk[top][route.dst_slot]
      BY DEF GuaranteedOut
    <2> HIDE DEF byToken, walk, top, Where, fracs, rates
    <2>2. byToken[top + 1] = ByToken(walk[top], token) /\ walk[top] \in [Where -> Nat]
      BY <1>1, <1>4, <1>5
    <2>3. LegsOf(c)[top].token_out = token[route.dst_slot]
      BY <1>1, <1>6, <1>7
    <2>4. ByToken(walk[top], token)[token[route.dst_slot]] = walk[top][route.dst_slot]
      BY <1>1, <1>7, <2>2, ByTokenIs
    <2> QED BY <1>2, <2>1, <2>2, <2>3, <2>4
  <1>9. TakesTheRest(c)
    <2> SUFFICES ASSUME NEW n \in 1..top,
                        \A m \in n + 1..top : LegsOf(c)[m].token_in # LegsOf(c)[n].token_in
                 PROVE  LegsOf(c)[n].frac = ONE
      BY <1>2 DEF TakesTheRest
    <2>1. \A m \in n + 1..top : m \in 1..top
      BY <1>1
    <2>2. LastOut(route.legs, n)
      BY <1>6, <2>1 DEF LastOut
    <2> QED BY <1>1, <1>6, <2>2, FractionsAre
  <1> HIDE DEF byToken, walk, top, Where, fracs, rates
  <1>10. \A n \in 0..top : ByToken(walk[n], token) \in [Token -> Nat]
    <2> SUFFICES ASSUME NEW n \in 0..top PROVE ByToken(walk[n], token) \in [Token -> Nat]
      OBVIOUS
    <2>1. walk[n] \in [Where -> Nat]
      BY <1>4
    <2> QED BY <1>1, <2>1, ByTokenIs
  <1>11. byToken \in Seq([Token -> Nat]) /\ Len(byToken) = top + 1
    <2>1. \A n \in 1..top + 1 : byToken[n] \in [Token -> Nat]
      BY <1>1, <1>5, <1>10
    <2>2. byToken = [n \in 1..top + 1 |-> byToken[n]] /\ top + 1 \in Nat
      BY <1>1, <1>5
    <2> QED BY <2>1, <2>2
  <1>12. byToken[1] = WalkStart(c)
    <2>1. Filled(route) \in [Where -> Nat] /\ walk[0] = Filled(route)
          /\ \A slot \in Where : Filled(route)[slot] = IF slot = 0 THEN route.amount_in ELSE 0
      BY <1>1, <1>4, FilledIs DEF Filled, Where
    <2>2. byToken[1] = ByToken(Filled(route), token)
      BY <1>1, <1>5, <2>1
    <2>3. ASSUME NEW t \in Token
          PROVE  ByToken(Filled(route), token)[t] =
                   IF t = token[0] THEN route.amount_in ELSE 0
      <3>1. CASE \E slot \in Where : token[slot] = t
        <4>1. PICK slot \in Where : token[slot] = t
          BY <3>1
        <4>2. ByToken(Filled(route), token)[t] = Filled(route)[slot]
          BY <1>1, <2>1, <4>1, ByTokenIs
        <4>3. slot = 0 <=> t = token[0]
          BY <1>1, <1>7, <4>1
        <4> QED BY <2>1, <4>1, <4>2, <4>3
      <3>2. CASE ~\E slot \in Where : token[slot] = t
        <4>1. ByToken(Filled(route), token)[t] = 0
          BY <1>1, <2>1, <3>2, ByTokenIs
        <4> QED BY <1>7, <3>2, <4>1
      <3> QED BY <3>1, <3>2
    <2>4. LegsOf(c)[1].token_in = token[0]
      BY <1>1, <1>6, <1>7
    <2>5. WalkStart(c) = [t \in Token |-> IF t = token[0] THEN route.amount_in ELSE 0]
      BY <1>2, <2>4 DEF WalkStart
    <2>6. ByToken(Filled(route), token) = [t \in Token |-> ByToken(Filled(route), token)[t]]
      BY DEF ByToken
    <2> QED BY <2>2, <2>3, <2>5, <2>6
  <1>13. ASSUME NEW n \in 1..top PROVE byToken[n + 1] = WalkLeg(byToken[n], LegsOf(c)[n])
    <2> DEFINE b == walk[n - 1]
               after == walk[n]
               l == route.legs[n]
               step == LegsOf(c)[n]
               out == (b[l.src] * fracs[n]) \div ONE
               in == FloorAt(out, rates[n])
               by == ByToken(b, token)
    <2>1. n - 1 \in 0..top /\ n \in 0..top /\ n \in 1..top + 1 /\ n + 1 \in 1..top + 1
      BY <1>1
    <2>2. b \in [Where -> Nat] /\ after \in [Where -> Nat]
          /\ l.src \in Where /\ l.dst \in Where
      BY <1>4, <1>6, <2>1
    <2>3. Moved(b, l, out, in, after)
      <3>1. after = BoundLeg(route, fracs, rates, n, b)
        BY <1>4
      <3>2. b \in [Slots(route) -> Nat] /\ n \in 1..Len(route.legs)
        BY <2>2 DEF Where, top
      <3> HIDE DEF b, after
      <3> QED BY <1>1, <1>3, <3>1, <3>2, BoundLegIs
    <2>4. b[l.src] \in Nat /\ fracs[n] \in 0..ONE /\ rates[n] \in Nat
      BY <1>3, <2>2 DEF Scaling, top
    <2>5. out \in Nat /\ in \in Nat
      <3> DEFINE have == b[l.src]
      <3>1. have \in Nat
        BY <2>4
      <3> HIDE DEF have
      <3>2. /\ (have * fracs[n]) \div ONE \in 0..have
            /\ FloorAt((have * fracs[n]) \div ONE, rates[n]) \in Nat
        BY <2>4, <3>1, SpentIs
      <3>3. (have * fracs[n]) \div ONE \in Nat
        BY <3>1, <3>2
      <3> QED BY <3>2, <3>3 DEF have
    <2>6. byToken[n] = by /\ byToken[n + 1] = ByToken(after, token)
      BY <1>1, <1>5, <2>1
    <2>7. /\ step.token_in = token[l.src] /\ step.token_out = token[l.dst]
          /\ step.frac = fracs[n] /\ step.min_rate = rates[n]
      BY <1>6
    <2>8. by[token[l.src]] = b[l.src]
      <3> HIDE DEF b, l
      <3> QED BY <1>1, <2>2, ByTokenIs
    <2>9. LeastIn(by, step) = out /\ LeastOut(by, step) = in
      BY <2>7, <2>8 DEF LeastIn, LeastOut, FloorAt
    <2> HIDE DEF b, after, l, step, out, in, by
    <2>10. ASSUME NEW t \in Token
           PROVE  ByToken(after, token)[t] =
                    by[t] - (IF t = token[l.src] THEN out ELSE 0)
                          + (IF t = token[l.dst] THEN in ELSE 0)
      BY <1>1, <2>2, <2>3, <2>5, MovedByToken DEF by
    <2>11. ByToken(after, token) = [t \in Token |-> ByToken(after, token)[t]]
      BY DEF ByToken
    <2>12. WalkLeg(by, step) =
             [t \in Token |-> by[t] - (IF t = token[l.src] THEN out ELSE 0)
                                    + (IF t = token[l.dst] THEN in ELSE 0)]
      BY <2>7, <2>9 DEF WalkLeg
    <2>13. ByToken(after, token) = WalkLeg(by, step)
      BY <2>10, <2>11, <2>12
    <2> QED BY <2>6, <2>13 DEF step
  <1>14. IsWalk(c, byToken)
    BY <1>2, <1>11, <1>12, <1>13 DEF IsWalk
  <1> QED BY <1>8, <1>9, <1>11, <1>14 DEF fracs, rates, byToken

\* What an accepted call promises is the guarantee its route was encoded with.
LEMMA PromisedIs ==
    ASSUME NEW c \in Calls, NEW route, NEW token, NEW volatile, NEW naming,
           Executable(route, token), Encodes(c, route, volatile, naming), Accepts(c)
    PROVE  Promised(c) = GuaranteedOut(route, Fractions(route), MinRates(route, volatile))
  <1> DEFINE byToken == WalkByToken(route, token, volatile)
  <1>1. c.walk \in Seq([Token -> Nat]) /\ IsWalk(c, c.walk)
    BY WalkAssumption
  <1>2. byToken \in Seq([Token -> Nat]) /\ IsWalk(c, byToken)
    BY EncodedWalk
  <1>3. Len(c.words) \in Nat
    BY StepsType
  <1>4. byToken[Len(c.words) + 1][LegsOf(c)[Len(c.words)].token_out]
          = GuaranteedOut(route, Fractions(route), MinRates(route, volatile))
    BY EncodedWalk
  <1> HIDE DEF byToken
  <1>5. c.walk = byToken
    BY <1>1, <1>2, <1>3, OneWalk
  <1> QED BY <1>4, <1>5 DEF Promised

\* A route that gets to its sweep has produced what the caller asked for.
LEMMA AskedFor == Spec => [](pc = "sweep" => answer \in Nat /\ answer >= call.min_out)
  <1> DEFINE Asked == pc = "sweep" => answer \in Nat /\ answer >= call.min_out
  <1>1. Init => Asked
    BY DEF Init, Idle
  <1>2. Asked /\ TypeOK /\ TypeOK' /\ InFlight /\ [Next]_vars => Asked'
    <2> SUFFICES ASSUME Asked, TypeOK, TypeOK', InFlight, [Next]_vars, pc' = "sweep"
                 PROVE  answer' \in Nat /\ answer' >= call'.min_out
      OBVIOUS
    <2>0. answer' \in Nat
      BY DEF TypeOK
    <2>1. CASE Finish
      BY <2>0, <2>1 DEF Finish
    <2>2. CASE SweepOne
      BY <2>0, <2>2 DEF SweepOne
    <2>3. CASE UNCHANGED vars
      BY <2>0, <2>3 DEF vars, locals
    <2>4. CASE SkipLeg \/ StartLeg \/ Allow \/ FourArgExchange \/ RunLeg \/ SettleLeg
      BY <2>4 DEF SkipLeg, StartLeg, Allow, FourArgExchange, RunLeg, SettleLeg
    <2>5. CASE Return \/ Revert
      BY <2>5 DEF Return, Revert, Reset
    <2>6. ASSUME NEW c \in Calls, Execute(c) PROVE FALSE
      BY <2>6 DEF Execute
    <2>7. ASSUME NEW u \in User, NEW t \in Token, NEW x1 \in 1..MaxGift, Donate(u, t, x1)
          PROVE  FALSE
      BY <2>7 DEF Donate
    <2> QED
      BY <2>1, <2>2, <2>3, <2>4, <2>5, <2>6, <2>7 DEF Next
  <1> QED BY <1>1, <1>2, TypeCorrect, PTL DEF Spec

\* What `encode_route` tells the caller it guarantees is what the contract makes good
\* (core/routecall.py:574, contracts/ElectricRouter.vy): a route that is encoded, sent and
\* not reverted answers with at least its `guaranteed_out`, whatever the pools pay and
\* whatever the router held before, for every route of every length, under every naming,
\* receiver and slippage.
THEOREM PromiseIsKept ==
    ASSUME WellRouted, TakesForNothing = {},
           NEW c \in Calls, NEW route, NEW token, NEW volatile, NEW naming,
           NEW receiver, NEW approvals, NEW least \in Nat, NEW sender,
           Executable(route, token),
           Arrives(c, Received(EncodeRoute(route, receiver, approvals, least, volatile, naming),
                               sender))
    PROVE  Spec => [](pc = "sweep" /\ call = c =>
                        answer >= EncodeRoute(route, receiver, approvals, least, volatile,
                                              naming).guaranteed_out)
  <1> DEFINE told == EncodeRoute(route, receiver, approvals, least, volatile, naming)
             owed == GuaranteedOut(route, Fractions(route), MinRates(route, volatile))
             Kept == pc = "sweep" /\ call = c => answer >= told.guaranteed_out
  <1>1. Encodes(c, route, volatile, naming)
    BY DEF Encodes
  <1>2. told.guaranteed_out = AtLeast(owed, least) /\ told.min_out = least
    BY DEF EncodeRoute
  <1>3. c.min_out = least
    <2> HIDE DEF told
    <2>1. Arrives(c, Received(told, sender))
      BY DEF told
    <2> QED BY <1>2, <2>1, ReceivedIs DEF Arrives
  <1>4. Accepts(c) => Promised(c) = owed
    BY <1>1, PromisedIs
  <1> HIDE DEF told, owed
  <1>5. /\ TypeOK /\ InFlight
        /\ pc = "sweep" => answer \in Nat /\ answer >= call.min_out
        /\ GuaranteeKept
        => Kept
    <2> SUFFICES ASSUME InFlight, pc = "sweep", call = c, answer >= call.min_out, GuaranteeKept
                 PROVE  answer >= told.guaranteed_out
      OBVIOUS
    <2>1. Accepts(c) /\ answer >= Promised(c)
      BY DEF InFlight, GuaranteeKept
    <2>2. answer >= owed /\ answer >= least
      BY <1>3, <1>4, <2>1
    <2> QED BY <1>2, <2>2 DEF AtLeast
  <1>6. Spec => []Kept
    <2> HIDE DEF Kept
    <2> QED BY <1>5, TypeCorrect, AskedFor, Guaranteed, PTL
  <1> QED BY <1>6 DEF Kept, told

\* Every call is a route that was encoded.
AllEncoded ==
    \A c \in Calls : Accepts(c) =>
        \E route, token, volatile, naming :
            Executable(route, token) /\ InTopologicalOrder(route)
              /\ Encodes(c, route, volatile, naming)

LEMMA EncodedIsOrderly == AllEncoded => Orderly
  <1> SUFFICES ASSUME AllEncoded, NEW c \in Calls, Accepts(c) PROVE LastTakesAll(c)
    BY DEF Orderly
  <1>1. PICK route, token, volatile, naming :
          /\ Executable(route, token) /\ InTopologicalOrder(route)
          /\ Encodes(c, route, volatile, naming)
    BY DEF AllEncoded
  <1>2. TakesTheRest(c)
    BY <1>1, EncodedWalk
  <1>3. SpendsInOrder(c)
    <2> DEFINE top == Len(route.legs)
               legs == route.legs
    <2>1. route \in Realized /\ top \in Nat /\ token \in [Slots(route) -> Token]
          /\ \A a1 \in Slots(route) : \A a2 \in Slots(route) : token[a1] = token[a2] => a1 = a2
      BY <1>1, LegsAre DEF Executable
    <2>2. Len(c.words) = top
      BY <1>1, <2>1, WordsAre
    <2>3. \A n \in 1..top :
            /\ legs[n].src \in Slots(route) /\ legs[n].dst \in Slots(route)
            /\ LegsOf(c)[n].token_in = token[legs[n].src]
            /\ LegsOf(c)[n].token_out = token[legs[n].dst]
      BY <1>1, <2>1, LegsAre, LegsRead
    <2>4. \A n \in 1..top : \A m \in 1..n - 1 : legs[n].dst = legs[m].src =>
            \E l \in n + 1..top : legs[l].src = legs[m].src
      BY <1>1 DEF InTopologicalOrder
    <2> HIDE DEF top, legs
    <2>5. ASSUME NEW n \in 1..top, NEW m \in 1..n - 1,
                 LegsOf(c)[n].token_out = LegsOf(c)[m].token_in
          PROVE  \E l \in n + 1..top : LegsOf(c)[l].token_in = LegsOf(c)[m].token_in
      <3>1. m \in 1..top
        BY <2>1
      <3>2. legs[n].dst = legs[m].src
        BY <2>1, <2>3, <2>5, <3>1
      <3>3. PICK l \in n + 1..top : legs[l].src = legs[m].src
        BY <2>4, <3>2
      <3>4. l \in 1..top
        BY <2>1
      <3> QED BY <2>3, <3>1, <3>3, <3>4
    <2> QED BY <2>2, <2>5 DEF SpendsInOrder
  <1> QED BY <1>2, <1>3 DEF LastTakesAll

\* Routes that are encoded leave nothing behind (fractions, core/routecall.py:216): at the
\* end the router holds nothing of any token a leg spent, but what a rounding token kept.
THEOREM EncodedStrandsNothing ==
    ASSUME AllEncoded
    PROVE  Spec => []NothingStranded
  <1>1. Orderly
    BY EncodedIsOrderly
  <1> QED BY <1>1, NothingIsStranded

----------------------------------------------------------------------------
(* Two legs of any kinds, as a run takes them.                             *)

\* The market the legs of CallInputs are of: x lists A and B, a getter that answers
\* answers with the token it should, and there is an amount a share can be of.
OfThisMarket ==
    /\ {A, B, S, W, E} \subseteq Token /\ {x, W, d} \subseteq Pool /\ E = NATIVE
    /\ Coin(x, 0) = A /\ Coin(x, 1) = B
    /\ ShareToken[x] \in {S, NoToken} /\ Underlying[W] \in {A, NoToken}
    /\ A # B /\ S \notin {A, B} /\ W \notin {A, E}

\* A leg of one unit between two tokens.
Plain(l, kind, pool, from, to) ==
    /\ l \in RouteLeg /\ l.kind = kind /\ l.target = pool
    /\ l.token_in = from /\ l.token_out = to /\ l.i = 0 /\ l.j = 1
    /\ l.src = 0 /\ l.dst = 1 /\ l.amount_in = 1

LEMMA KindedIs ==
    ASSUME NEW kind \in Kind, NEW pool \in Pool, NEW from \in Token, NEW to \in Token
    PROVE  Plain(Kinded(kind, pool, from, to), kind, pool, from, to)
  <1> DEFINE legOf(p, q, t1, t2) ==
               [target |-> p, kind |-> q, i |-> 0, j |-> 1, src |-> 0, dst |-> 1,
                token_in |-> t1, token_out |-> t2, amount_in |-> 1, amount_out |-> 1,
                verified_in |-> 0, verified_out |-> 0, fee_frac |-> NaN,
                fee_floor |-> NaN, gamma |-> SHARE_ONE]
             made == legOf(pool, kind, from, to)
  <1>1. Kinded(kind, pool, from, to) = made
    <2>1. Leg(0, 1, 1, 1) = legOf(x, "SWAP_STABLE", A, B)
      BY DEF Leg
    <2>2. [legOf(x, "SWAP_STABLE", A, B) EXCEPT !.kind = kind] = legOf(x, kind, A, B)
      OBVIOUS
    <2>3. [legOf(x, kind, A, B) EXCEPT !.target = pool] = legOf(pool, kind, A, B)
      OBVIOUS
    <2>4. [legOf(pool, kind, A, B) EXCEPT !.token_in = from] = legOf(pool, kind, from, B)
      OBVIOUS
    <2>5. [legOf(pool, kind, from, B) EXCEPT !.token_out = to] = made
      OBVIOUS
    <2> HIDE DEF legOf
    <2> QED BY <2>1, <2>2, <2>3, <2>4, <2>5, ZenonT(60) DEF Kinded
  <1>2. SHARE_ONE \in Figures /\ NaN \in Figures
    BY ScaleAssumption DEF Figures
  <1>3. made \in RouteLeg
    BY <1>2 DEF RouteLeg, Figures
  <1> QED BY <1>1, <1>3 DEF Plain

\* How each kind's tokens are read.
LEMMA KindsRead ==
    ASSUME NEW l
    PROVE  /\ l.kind \in SwapKinds => /\ Rule(l.kind) = <<"coin", "coin">>
                                      /\ ReadIn(l) = Coin(l.target, l.i)
                                      /\ ReadOut(l) = Coin(l.target, l.j)
           /\ l.kind \in DepositKinds => /\ Rule(l.kind) = <<"coin", "getter">>
                                         /\ ReadIn(l) = Coin(l.target, l.i)
                                         /\ ReadOut(l) = ShareToken[l.target]
           /\ l.kind \in WithdrawKinds => /\ Rule(l.kind) = <<"getter", "coin">>
                                          /\ ReadIn(l) = ShareToken[l.target]
                                          /\ ReadOut(l) = Coin(l.target, l.j)
           /\ l.kind \in WrapKinds => /\ Rule(l.kind) = <<"getter", "target">>
                                      /\ ReadIn(l) = Underlying[l.target]
           /\ l.kind \in UnwrapKinds => /\ Rule(l.kind) = <<"target", "getter">>
                                        /\ ReadOut(l) = Underlying[l.target]
           /\ l.kind \in {"WRAP_NATIVE", "STAKE_NATIVE"} => Rule(l.kind) = <<"native", "target">>
           /\ l.kind = "UNWRAP_NATIVE" => Rule(l.kind) = <<"target", "native">>
  <1> USE DEF SwapKinds, DepositKinds, WithdrawKinds, WrapKinds, UnwrapKinds
  <1>1. l.kind \in SwapKinds => /\ Rule(l.kind) = <<"coin", "coin">>
                                /\ ReadIn(l) = Coin(l.target, l.i)
                                /\ ReadOut(l) = Coin(l.target, l.j)
    BY DEF Rule, ReadIn, ReadOut, Derive
  <1>2. l.kind \in DepositKinds => /\ Rule(l.kind) = <<"coin", "getter">>
                                   /\ ReadIn(l) = Coin(l.target, l.i)
                                   /\ ReadOut(l) = ShareToken[l.target]
    BY DEF Rule, ReadIn, ReadOut, Derive
  <1>3. l.kind \in WithdrawKinds => /\ Rule(l.kind) = <<"getter", "coin">>
                                    /\ ReadIn(l) = ShareToken[l.target]
                                    /\ ReadOut(l) = Coin(l.target, l.j)
    BY DEF Rule, ReadIn, ReadOut, Derive
  <1>4. l.kind \in WrapKinds => Rule(l.kind) = <<"getter", "target">>
                                /\ ReadIn(l) = Underlying[l.target]
    BY DEF Rule, ReadIn, ReadOut, Derive
  <1>5. l.kind \in UnwrapKinds => Rule(l.kind) = <<"target", "getter">>
                                  /\ ReadOut(l) = Underlying[l.target]
    BY DEF Rule, ReadIn, ReadOut, Derive
  <1>6. l.kind \in {"WRAP_NATIVE", "STAKE_NATIVE"} => Rule(l.kind) = <<"native", "target">>
    BY DEF Rule
  <1>7. l.kind = "UNWRAP_NATIVE" => Rule(l.kind) = <<"target", "native">>
    BY DEF Rule
  <1> QED BY <1>1, <1>2, <1>3, <1>4, <1>5, <1>6, <1>7

\* Every leg of a kind is of its pool, and trades one token for another.
LEMMA KindedLegIs ==
    ASSUME OfThisMarket, NEW l \in KindedLegs
    PROVE  /\ l \in RouteLeg /\ OfItsPool(l) /\ l.token_in # l.token_out
           /\ l.src = 0 /\ l.dst = 1 /\ l.amount_in = 1
  <1> DEFINE Fine(m) == /\ m \in RouteLeg /\ OfItsPool(m) /\ m.token_in # m.token_out
                        /\ m.src = 0 /\ m.dst = 1 /\ m.amount_in = 1
  <1>1. /\ {A, B, S, W, E} \subseteq Token /\ {x, W, d} \subseteq Pool
        /\ Coin(x, 0) = A /\ Coin(x, 1) = B
        /\ ShareToken[x] \in {S, NoToken} /\ Underlying[W] \in {A, NoToken}
        /\ A # B /\ S # A /\ S # B /\ W # A /\ W # E
    BY DEF OfThisMarket
  <1>2. ASSUME NEW kind \in SwapKinds PROVE Fine(Kinded(kind, x, A, B))
    <2> DEFINE m == Kinded(kind, x, A, B)
    <2>1. Plain(m, kind, x, A, B)
      BY <1>1, KindedIs DEF Kind
    <2> HIDE DEF m
    <2>2. m.kind \in SwapKinds
      BY <2>1 DEF Plain
    <2>3. OfItsPool(m)
      BY <1>1, <2>1, <2>2, KindsRead DEF Plain, OfItsPool
    <2> QED BY <1>1, <2>1, <2>3 DEF Plain, m
  <1>3. ASSUME NEW kind \in DepositKinds PROVE Fine(Kinded(kind, x, A, S))
    <2> DEFINE m == Kinded(kind, x, A, S)
    <2>1. Plain(m, kind, x, A, S)
      BY <1>1, KindedIs DEF Kind
    <2> HIDE DEF m
    <2>2. m.kind \in DepositKinds
      BY <2>1 DEF Plain
    <2>3. OfItsPool(m)
      BY <1>1, <2>1, <2>2, KindsRead DEF Plain, OfItsPool
    <2> QED BY <1>1, <2>1, <2>3 DEF Plain, m
  <1>4. ASSUME NEW kind \in WithdrawKinds PROVE Fine(Kinded(kind, x, S, B))
    <2> DEFINE m == Kinded(kind, x, S, B)
    <2>1. Plain(m, kind, x, S, B)
      BY <1>1, KindedIs DEF Kind
    <2> HIDE DEF m
    <2>2. m.kind \in WithdrawKinds
      BY <2>1 DEF Plain
    <2>3. OfItsPool(m)
      BY <1>1, <2>1, <2>2, KindsRead DEF Plain, OfItsPool
    <2> QED BY <1>1, <2>1, <2>3 DEF Plain, m
  <1>5. ASSUME NEW kind \in WrapKinds PROVE Fine(Kinded(kind, W, A, W))
    <2> DEFINE m == Kinded(kind, W, A, W)
    <2>1. Plain(m, kind, W, A, W)
      BY <1>1, KindedIs DEF Kind
    <2> HIDE DEF m
    <2>2. m.kind \in WrapKinds
      BY <2>1 DEF Plain
    <2>3. OfItsPool(m)
      BY <1>1, <2>1, <2>2, KindsRead DEF Plain, OfItsPool
    <2> QED BY <1>1, <2>1, <2>3 DEF Plain, m
  <1>6. ASSUME NEW kind \in UnwrapKinds PROVE Fine(Kinded(kind, W, W, A))
    <2> DEFINE m == Kinded(kind, W, W, A)
    <2>1. Plain(m, kind, W, W, A)
      BY <1>1, KindedIs DEF Kind
    <2> HIDE DEF m
    <2>2. m.kind \in UnwrapKinds
      BY <2>1 DEF Plain
    <2>3. OfItsPool(m)
      BY <1>1, <2>1, <2>2, KindsRead DEF Plain, OfItsPool
    <2> QED BY <1>1, <2>1, <2>3 DEF Plain, m
  <1>7. ASSUME NEW kind \in {"WRAP_NATIVE", "STAKE_NATIVE", "UNWRAP_NATIVE"},
               NEW pool \in Pool, NEW from \in Token, NEW to \in Token, from # to
        PROVE  Fine(Kinded(kind, pool, from, to))
    <2> DEFINE m == Kinded(kind, pool, from, to)
    <2>1. Plain(m, kind, pool, from, to)
      BY KindedIs DEF Kind
    <2> HIDE DEF m
    <2>2. m.kind \in {"WRAP_NATIVE", "STAKE_NATIVE"} \/ m.kind = "UNWRAP_NATIVE"
      BY <2>1 DEF Plain
    <2>3. OfItsPool(m)
      BY <2>2, KindsRead DEF OfItsPool
    <2> QED BY <1>7, <2>1, <2>3 DEF Plain, m
  <1> HIDE DEF Fine
  <1>8. Fine(l)
    <2>1. CASE l \in {Kinded(kind, x, A, B) : kind \in SwapKinds}
      BY <1>2, <2>1
    <2>2. CASE l \in {Kinded(kind, x, A, S) : kind \in DepositKinds}
      BY <1>3, <2>2
    <2>3. CASE l \in {Kinded(kind, x, S, B) : kind \in WithdrawKinds}
      BY <1>4, <2>3
    <2>4. CASE l \in {Kinded(kind, W, A, W) : kind \in WrapKinds}
      BY <1>5, <2>4
    <2>5. CASE l \in {Kinded(kind, W, W, A) : kind \in UnwrapKinds}
      BY <1>6, <2>5
    <2>6. CASE l \in {Kinded("WRAP_NATIVE", W, E, W), Kinded("STAKE_NATIVE", W, E, W),
                      Kinded("UNWRAP_NATIVE", W, W, E),
                      Kinded("WRAP_NATIVE", d, A, B), Kinded("UNWRAP_NATIVE", d, B, A)}
      BY <1>1, <1>7, <2>6
    <2> QED BY <2>1, <2>2, <2>3, <2>4, <2>5, <2>6 DEF KindedLegs
  <1> QED BY <1>8 DEF Fine

\* What a call leaves out is what the contract's defaults put back.
LEMMA DefaultsRestore ==
    ASSUME NEW told, Sendable(told), NEW sender
    PROVE  /\ Received(told, sender).tokens = told.tokens
           /\ Received(told, sender).min_out = told.min_out
           /\ Received(told, sender).receiver =
                IF told.receiver = NOBODY THEN sender ELSE told.receiver
  BY DEF Received, Arguments, Sendable, PaysTheSender

LEMMA CallsStay == EncodingSpec => [](about = "call" => given \in CallInputs)
  <1>1. EncodingInit => (about = "call" => given \in CallInputs)
    BY DEF EncodingInit, QuoteInit, SplitInit, CallInit, BudgetInit
  <1>2. (about = "call" => given \in CallInputs) /\ [Keep]_<<about, given>>
          => (about = "call" => given \in CallInputs)'
    BY DEF Keep
  <1> QED
    BY <1>1, <1>2, PTL DEF EncodingSpec

\* What is sent means the route and nothing else (encode_route, core/routecall.py:523,
\* and `_must_name`): in every market of this shape, under every naming, for every payee
\* and sender.
THEOREM MeansTheRoute ==
    ASSUME OfThisMarket
    PROVE  EncodingSpec => []CallMeansTheRoute
  <1>1. ASSUME about = "call", given \in CallInputs PROVE CallMeansTheRoute
    <2> DEFINE route == [amount_in |-> 1, dst_slot |-> 1, legs |-> given.legs]
               naming == given.naming
    <2>1. PICK one \in KindedLegs, two \in KindedLegs : given.legs = <<one, two>>
      BY <1>1 DEF CallInputs
    <2>2. route \in Realized /\ route.legs = <<one, two>> /\ Len(route.legs) = 2
          /\ DOMAIN given.legs = 1..2 /\ route.amount_in = 1
      BY <2>1, KindedLegIs DEF Realized
    <2>3. \A n \in 1..2 : /\ route.legs[n] \in KindedLegs /\ route.legs[n] = given.legs[n]
      BY <2>1, <2>2
    <2> HIDE DEF route
    <2>4. Fractions(route)[1] = ONE /\ Fractions(route)[2] = ONE
      <3>1. Modelled(route)[0][0] = 1
        <4>1. Modelled(route)[0] = Filled(route) /\ 0 \in Slots(route)
          BY <2>2, ModelledIs, LegsAre
        <4> QED BY <2>2, <4>1 DEF Filled
      <3>2. route.legs[1].src = 0 /\ route.legs[1].amount_in = 1
        BY <2>3, KindedLegIs
      <3>3. Slice(route.legs, 1, 1).frac = ONE
        BY <3>2 DEF Slice
      <3>4. Fractions(route)[1] = Slice(route.legs, 1, Modelled(route)[0][0]).frac
        <4>1. 1 \in DOMAIN route.legs /\ 1 - 1 = 0
          BY <2>2
        <4> QED BY <3>2, <4>1 DEF Fractions
      <3>5. LastOut(route.legs, 2)
        BY <2>2 DEF LastOut
      <3> QED BY <2>2, <3>1, <3>3, <3>4, <3>5, FractionsAre, SMTT(30)
    <2>5. /\ Call.words = [n \in 1..2 |->
                             EncodeWord(route.legs[n], Fractions(route)[n], MinRates(route, {})[n],
                                        Tokens(route, naming), naming)]
          /\ Call.tokens = Tokens(route, naming)
      <3>1. Call = EncodeRoute(route, given.receiver, TRUE, given.min_out, {}, naming)
        BY DEF Call, route
      <3>2. DOMAIN route.legs = 1..2
        BY <2>2
      <3> HIDE DEF naming
      <3> QED BY <3>1, <3>2 DEF EncodeRoute
    <2>6. ASSUME NEW n \in 1..2
          PROVE  LET step == Unpack(Call.words[n], Call.tokens)
                     meant == <<given.legs[n].token_in, given.legs[n].token_out>>
                 IN  /\ <<step.token_in, step.token_out>> = meant \/ ~Unpacks(step)
                     /\ given.naming # "none" => Unpacks(step)
      <3> DEFINE l == route.legs[n]
                 step == Unpack(Call.words[n], Call.tokens)
      <3>1. n \in 1..Len(route.legs) /\ l \in RouteLeg /\ OfItsPool(l) /\ l.token_in # l.token_out
        BY <2>2, <2>3, KindedLegIs
      <3>2. l.token_in \in Token /\ l.token_out \in Token
        BY <3>1 DEF RouteLeg
      <3>3. ReadsBack(step, l, Fractions(route)[n], MinRates(route, {})[n], naming)
        <4>1. Call.words[n] = EncodeWord(l, Fractions(route)[n], MinRates(route, {})[n],
                                         Tokens(route, naming), naming)
          BY <2>5
        <4> HIDE DEF naming
        <4> QED BY <2>2, <2>5, <3>1, <4>1, WordReads
      <3>4. Fractions(route)[n] = ONE /\ ONE \in Nat \ {0}
        BY <2>4, MarketAssumption
      <3> HIDE DEF step, l
      <3>5. <<step.token_in, step.token_out>> = <<l.token_in, l.token_out>> \/ ~Unpacks(step)
        BY <3>2, <3>3, MarketAssumption DEF ReadsBack, Unpacks
      <3>6. naming # "none" => Unpacks(step)
        BY <3>1, <3>2, <3>3, <3>4 DEF ReadsBack, Unpacks, l
      <3> QED BY <2>3, <3>5, <3>6 DEF step, l
    <2>7. Sendable(Call) =>
            /\ Arrived.tokens = Call.tokens /\ Arrived.min_out = Call.min_out
            /\ Arrived.receiver = IF Call.receiver = NOBODY THEN alice ELSE Call.receiver
      BY DefaultsRestore DEF Arrived
    <2> QED BY <2>2, <2>6, <2>7 DEF CallMeansTheRoute
  <1>2. (about = "call" => given \in CallInputs) => CallMeansTheRoute
    BY <1>1 DEF CallMeansTheRoute
  <1> QED BY <1>2, CallsStay, PTL

----------------------------------------------------------------------------
(* A split, executed at its own quote.                                     *)

\* What leg n makes of the balances when it pays what was modelled.
PaidLeg(route, n, b) ==
    LET l == route.legs[n]
    IN  Shift(b, l, (b[l.src] * Fractions(route)[n]) \div ONE, LegOut(l))

LEMMA PaidLegIs ==
    ASSUME NEW route \in Realized, NEW n \in 1..Len(route.legs),
           NEW b \in [Slots(route) -> Nat]
    PROVE  /\ PaidLeg(route, n, b) \in [Slots(route) -> Nat]
           /\ LET l == route.legs[n]
              IN  Moved(b, l, (b[l.src] * Fractions(route)[n]) \div ONE, LegOut(l),
                        PaidLeg(route, n, b))
  <1> DEFINE l == route.legs[n]
             spent == (b[l.src] * Fractions(route)[n]) \div ONE
  <1>1. l.src \in Slots(route) /\ l.dst \in Slots(route) /\ LegOut(l) \in Nat
    BY LegsAre
  <1>2. b[l.src] \in Nat /\ Fractions(route)[n] \in 0..ONE
    BY <1>1, FractionsAre
  <1>3. spent \in 0..b[l.src]
    BY <1>2, SpentIs
  <1>4. spent \in Nat /\ spent <= b[l.src]
    BY <1>2, <1>3
  <1> HIDE DEF spent, l
  <1>5. /\ Shift(b, l, spent, LegOut(l)) \in [Slots(route) -> Nat]
        /\ Moved(b, l, spent, LegOut(l), Shift(b, l, spent, LegOut(l)))
    BY <1>1, <1>4, ShiftIs
  <1> QED BY <1>5 DEF PaidLeg, l, spent

LEMMA ExecutedIs ==
    ASSUME NEW route \in Realized
    PROVE  /\ Executed(route) \in [0..Len(route.legs) -> [Slots(route) -> Nat]]
           /\ Executed(route)[0] = Filled(route)
           /\ \A n \in 1..Len(route.legs) :
                Executed(route)[n] = PaidLeg(route, n, Executed(route)[n - 1])
  <1> DEFINE top == Len(route.legs)
             Values == [Slots(route) -> Nat]
             one(n, b) == PaidLeg(route, n, b)
             step == [n \in 1..top |-> [b \in Values |-> one(n, b)]]
             Is(f) == f = [n \in 0..top |-> IF n = 0 THEN Filled(route) ELSE one(n, f[n - 1])]
             walk == Executed(route)
  <1>1. top \in Nat
    BY LegsAre
  <1>2. step \in [1..top -> [Values -> Values]]
    BY PaidLegIs
  <1>3. Filled(route) \in Values
    BY FilledIs
  <1>4. walk = CHOOSE g : Is(g)
    BY DEF Executed, PaidLeg
  <1> HIDE DEF one
  <1>5. PICK f \in [0..top -> Values] : Iterates(f, top, Filled(route), step)
    <2> HIDE DEF step, top, Values
    <2> QED BY <1>1, <1>2, <1>3, Iteration, Zenon
  <1>6. ASSUME NEW n \in 1..top PROVE f[n] = one(n, f[n - 1])
    <2> HIDE DEF Values, top
    <2>1. n - 1 \in 0..top
      BY <1>1
    <2>2. f[n - 1] \in Values
      BY <2>1
    <2>3. f[n] = step[n][f[n - 1]]
      BY <1>5 DEF Iterates
    <2> QED BY <2>2, <2>3
  <1> HIDE DEF step, Values, top, walk
  <1>7. Is(f)
    <2>1. f[0] = Filled(route)
      BY <1>5 DEF Iterates
    <2> QED BY <1>6, <2>1
  <1>8. Is(walk)
    <2> HIDE DEF Is
    <2> QED BY <1>4, <1>7
  <1>9. walk[0] = Filled(route) /\ \A n \in 1..top : walk[n] = one(n, walk[n - 1])
    BY <1>1, <1>8
  <1>10. \A n \in 0..top : walk[n] \in Values
    <2> DEFINE Good == {n \in 0..top : walk[n] \in Values}
    <2>1. 0 \in Good
      BY <1>1, <1>3, <1>9
    <2>2. ASSUME NEW n \in 1..top, n - 1 \in Good PROVE n \in Good
      <3>1. one(n, walk[n - 1]) \in Values
        BY <2>2, PaidLegIs DEF one, Values, top
      <3> QED BY <1>1, <1>9, <3>1
    <2>3. \A n \in 0..top : n \in Good
      <3> HIDE DEF Good
      <3> QED BY <1>1, <2>1, <2>2, UpTo
    <2> QED BY <2>3
  <1>11. walk = [n \in 0..top |-> walk[n]]
    BY <1>8
  <1>12. walk \in [0..top -> Values]
    BY <1>10, <1>11
  <1> QED BY <1>9, <1>12 DEF walk, top, Values, one

\* A share of `a` in `have`, taken of what is really there, is `a` but for the slack.
LEMMA ShareIs ==
    ASSUME NEW a \in Nat, NEW have \in Positive, a < have, NEW slack \in Nat,
           have <= slack * ONE, NEW more \in 0..slack
    PROVE  LET got == ((have + more) * ((a * ONE) \div have)) \div ONE
           IN  /\ got \in Nat /\ a - slack <= got /\ got <= a + slack
               /\ more = 0 => got <= a
  <1> DEFINE frac == (a * ONE) \div have
             got == ((have + more) * frac) \div ONE
  <1>0. ONE \in Positive /\ ONE \in Nat /\ have \in Nat /\ more \in Nat
    BY MarketAssumption DEF Positive
  <1>1. a * ONE \in Nat /\ a * ONE <= have * ONE
    BY <1>0
  <1>2. /\ frac \in Nat /\ have * frac <= a * ONE /\ a * ONE < have * frac + have
        /\ frac <= ONE
    <2>1. a * ONE <= ONE * have
      BY <1>0, <1>1
    <2> QED BY <1>0, <1>1, <2>1, Floor, FloorUnder
  <1> HIDE DEF frac
  <1>3. /\ (have + more) * frac = have * frac + more * frac
        /\ have * frac \in Nat /\ more * frac \in Nat
    BY <1>0, <1>2
  <1>4. more * frac <= slack * ONE
    <2>1. more * frac <= more * ONE
      BY <1>0, <1>2
    <2>2. more * ONE <= slack * ONE
      BY <1>0
    <2>3. more * ONE \in Nat /\ slack * ONE \in Nat
      BY <1>0
    <2> QED BY <1>3, <2>1, <2>2, <2>3
  <1>5. (a + slack) * ONE = a * ONE + slack * ONE /\ slack * ONE \in Nat
    BY <1>0
  <1>6. (have + more) * frac \in Nat /\ (have + more) * frac <= (a + slack) * ONE
    BY <1>1, <1>2, <1>3, <1>4, <1>5
  <1>7. got \in Nat /\ got <= a + slack
    BY <1>0, <1>6, Floor, FloorUnder
  <1>8. more = 0 => got <= a
    BY <1>0, <1>1, <1>2, <1>3, FloorUnder
  <1>9. a - slack <= got
    <2>1. CASE a < slack
      BY <1>7, <2>1
    <2>2. CASE a >= slack
      <3>1. a - slack \in Nat /\ (a - slack) * ONE = a * ONE - slack * ONE
        BY <1>0, <2>2
      <3>2. (a - slack) * ONE <= (have + more) * frac
        <4>1. a * ONE - slack * ONE <= a * ONE - have
          BY <1>0, <1>1, <1>5
        <4>2. a * ONE - have < have * frac
          BY <1>0, <1>1, <1>2, <1>3
        <4>3. have * frac <= (have + more) * frac
          BY <1>3
        <4> QED BY <1>0, <1>1, <1>3, <1>5, <1>6, <3>1, <4>1, <4>2, <4>3
      <3> QED BY <1>0, <1>6, <3>1, <3>2, FloorUnder
    <2> QED BY <2>1, <2>2
  <1> QED BY <1>7, <1>8, <1>9 DEF frac

\* What a leg that leaves something behind takes, of a slot that may hold `more`.
LEMMA SplitTakes ==
    ASSUME NEW legs, NEW n, ~LastOut(legs, n), NEW a \in Nat, legs[n].amount_in = a,
           NEW have \in Nat, a <= have, NEW slack \in Nat, have <= slack * ONE,
           NEW more \in 0..slack
    PROVE  LET got == ((have + more) * Slice(legs, n, have).frac) \div ONE
           IN  /\ Slice(legs, n, have).take = a
               /\ got \in 0..have + more /\ a - slack <= got /\ got <= a + slack
               /\ more = 0 => got <= a
  <1> DEFINE got == ((have + more) * Slice(legs, n, have).frac) \div ONE
  <1>0. ONE \in Positive /\ more \in Nat /\ have + more \in Nat
    BY MarketAssumption DEF Positive
  <1>1. Slice(legs, n, have).frac \in 0..ONE
    BY SliceIs
  <1>2. got \in 0..have + more
    BY <1>0, <1>1, SpentIs
  <1>3. CASE a >= have
    <2>1. Slice(legs, n, have) = [frac |-> ONE, take |-> have] /\ a = have
      BY <1>3 DEF Slice
    <2>2. ((have + more) * ONE) \div ONE = have + more
      BY <1>0 DEF Positive
    <2> QED BY <1>0, <1>2, <2>1, <2>2
  <1>4. CASE ~(a >= have)
    <2>1. Slice(legs, n, have) = [frac |-> (a * ONE) \div have, take |-> a]
      BY <1>4 DEF Slice
    <2>2. have \in Positive /\ a < have
      BY <1>4 DEF Positive
    <2>3. LET take == ((have + more) * ((a * ONE) \div have)) \div ONE
          IN  /\ take \in Nat /\ a - slack <= take /\ take <= a + slack
              /\ more = 0 => take <= a
      BY <2>2, ShareIs
    <2> QED BY <1>2, <2>1, <2>3
  <1> QED BY <1>3, <1>4

\* All of a slot is all of it.
LEMMA AllOfIt ==
    ASSUME NEW have \in Nat PROVE (have * ONE) \div ONE = have
  BY MarketAssumption

\* A split of any amounts.
SplitMarket == {A, B} \subseteq Token /\ x \in Pool /\ Pieces \subseteq Nat

LEMMA SplitIs ==
    ASSUME SplitMarket, NEW total \in Nat, NEW a \in Nat, NEW b \in Nat, a + b <= total
    PROVE  LET route == SplitRoute(total, a, b)
               legs == route.legs
           IN  /\ route \in Realized /\ Len(legs) = 4 /\ DOMAIN legs = 1..4
               /\ Slots(route) = 0..2
               /\ route.amount_in = total
               /\ legs[1].src = 0 /\ legs[1].dst = 1
               /\ legs[2].src = 0 /\ legs[2].dst = 1
               /\ legs[3].src = 0 /\ legs[3].dst = 1
               /\ legs[4].src = 1 /\ legs[4].dst = 2
               /\ legs[1].amount_in = a /\ LegOut(legs[1]) = a
               /\ legs[2].amount_in = b /\ LegOut(legs[2]) = b
               /\ legs[3].amount_in = total - a - b /\ LegOut(legs[3]) = total - a - b
               /\ legs[4].amount_in = total /\ LegOut(legs[4]) = total
               /\ ~LastOut(legs, 1) /\ ~LastOut(legs, 2)
               /\ LastOut(legs, 3) /\ LastOut(legs, 4)
  <1> DEFINE route == SplitRoute(total, a, b)
             legs == route.legs
             c == total - a - b
             one == Leg(0, 1, a, a)
             two == Leg(0, 1, b, b)
             three == Leg(0, 1, c, c)
             four == Leg(1, 2, total, total)
  <1>0. c \in Nat
    OBVIOUS
  <1>1. \A from \in Nat, to \in Nat, out \in Nat :
          /\ Leg(from, to, out, out) \in RouteLeg
          /\ Leg(from, to, out, out).src = from /\ Leg(from, to, out, out).dst = to
          /\ Leg(from, to, out, out).amount_in = out
          /\ LegOut(Leg(from, to, out, out)) = out
    <2> SUFFICES ASSUME NEW from \in Nat, NEW to \in Nat, NEW out \in Nat
                 PROVE  /\ Leg(from, to, out, out) \in RouteLeg
                        /\ Leg(from, to, out, out).src = from
                        /\ Leg(from, to, out, out).dst = to
                        /\ Leg(from, to, out, out).amount_in = out
                        /\ LegOut(Leg(from, to, out, out)) = out
      OBVIOUS
    <2>1. SHARE_ONE \in Figures /\ NaN \in Figures
      BY ScaleAssumption DEF Figures
    <2>2. "SWAP_STABLE" \in Kind /\ A \in Token /\ B \in Token /\ x \in Pool
      BY DEF Kind, SwapKinds, SplitMarket
    <2>3. Leg(from, to, out, out) \in RouteLeg
      BY <2>1, <2>2 DEF Leg, RouteLeg, Figures
    <2> QED BY <2>3 DEF Leg, LegOut
  <1>2. legs = <<one, two, three, four>> /\ route.amount_in = total /\ route.dst_slot = 2
    BY DEF SplitRoute
  <1>3. /\ one \in RouteLeg /\ two \in RouteLeg /\ three \in RouteLeg /\ four \in RouteLeg
        /\ one.src = 0 /\ one.dst = 1 /\ one.amount_in = a /\ LegOut(one) = a
        /\ two.src = 0 /\ two.dst = 1 /\ two.amount_in = b /\ LegOut(two) = b
        /\ three.src = 0 /\ three.dst = 1 /\ three.amount_in = c /\ LegOut(three) = c
        /\ four.src = 1 /\ four.dst = 2 /\ four.amount_in = total /\ LegOut(four) = total
    <2> HIDE DEF c
    <2> QED BY <1>0, <1>1
  <1>4. route \in Realized
    <2>1. route = [amount_in |-> total, dst_slot |-> 2, legs |-> <<one, two, three, four>>]
      BY DEF SplitRoute
    <2> HIDE DEF route, one, two, three, four
    <2>2. <<one, two, three, four>> \in Seq(RouteLeg)
      BY <1>3
    <2> QED BY <2>1, <2>2 DEF Realized
  <1> HIDE DEF one, two, three, four, c, route
  <1>5. /\ Len(legs) = 4 /\ DOMAIN legs = 1..4
        /\ legs[1] = one /\ legs[2] = two /\ legs[3] = three /\ legs[4] = four
    BY <1>2
  <1>6. Slots(route) = 0..2
    <2>1. DOMAIN legs = {1, 2, 3, 4}
      BY <1>5
    <2>2. {legs[n].src : n \in DOMAIN legs} = {0, 1} /\ {legs[n].dst : n \in DOMAIN legs} = {1, 2}
      BY <1>3, <1>5, <2>1
    <2>3. Slots(route) = {0, 2} \cup {0, 1} \cup {1, 2}
      BY <1>2, <2>2 DEF Slots
    <2> QED BY <2>3
  <1>7. ~LastOut(legs, 1) /\ ~LastOut(legs, 2) /\ LastOut(legs, 3) /\ LastOut(legs, 4)
    BY <1>3, <1>5 DEF LastOut
  <1> QED BY <1>2, <1>3, <1>4, <1>5, <1>6, <1>7 DEF c, route

\* A split at its own quote: each leg takes its piece but for the slack, and both slots
\* are drained.
LEMMA SplitRuns ==
    ASSUME SplitMarket, NEW total \in Nat, NEW a \in Nat, NEW b \in Nat, a + b <= total
    PROVE  LET route == SplitRoute(total, a, b)
               slack == total \div ONE + 1
           IN  /\ \A n \in 1..4 :
                    Spends(route, n) - route.legs[n].amount_in \in -slack..n * slack
               /\ Executed(route)[4][0] = 0 /\ Executed(route)[4][1] = 0
  <1> DEFINE route == SplitRoute(total, a, b)
             legs == route.legs
             slack == total \div ONE + 1
             c == total - a - b
             f == Fractions(route)
             m == Modelled(route)
             b0 == Executed(route)[0]
             b1 == Executed(route)[1]
             b2 == Executed(route)[2]
             b3 == Executed(route)[3]
             b4 == Executed(route)[4]
             s1 == (b0[0] * f[1]) \div ONE
             s2 == (b1[0] * f[2]) \div ONE
             s3 == (b2[0] * f[3]) \div ONE
             s4 == (b3[1] * f[4]) \div ONE
  <1>0. c \in Nat /\ ONE \in Positive /\ ONE \in Nat
    BY MarketAssumption DEF Positive
  <1>1. slack \in Nat /\ total <= slack * ONE
    <2> DEFINE q == total \div ONE
    <2>1. q \in Nat /\ total < ONE * q + ONE
      BY <1>0, Floor
    <2> HIDE DEF q
    <2>2. (q + 1) * ONE = ONE * q + ONE /\ ONE * q \in Nat
      BY <1>0, <2>1
    <2> QED BY <1>0, <2>1, <2>2 DEF q
  <1>2. /\ route \in Realized /\ Len(legs) = 4 /\ DOMAIN legs = 1..4
        /\ Slots(route) = 0..2
        /\ route.amount_in = total
        /\ legs[1].src = 0 /\ legs[1].dst = 1
        /\ legs[2].src = 0 /\ legs[2].dst = 1
        /\ legs[3].src = 0 /\ legs[3].dst = 1
        /\ legs[4].src = 1 /\ legs[4].dst = 2
        /\ legs[1].amount_in = a /\ LegOut(legs[1]) = a
        /\ legs[2].amount_in = b /\ LegOut(legs[2]) = b
        /\ legs[3].amount_in = c /\ LegOut(legs[3]) = c
        /\ legs[4].amount_in = total /\ LegOut(legs[4]) = total
        /\ ~LastOut(legs, 1) /\ ~LastOut(legs, 2)
        /\ LastOut(legs, 3) /\ LastOut(legs, 4)
    BY SplitIs
  <1> HIDE DEF route, slack, c
  <1>3. Filled(route) = [slot \in 0..2 |-> IF slot = 0 THEN total ELSE 0]
    BY <1>2 DEF Filled
  <1>4. m[0][0] = total /\ m[1][0] = total - a
    <2>1. /\ m \in [0..4 -> [0..2 -> Nat]] /\ m[0] = Filled(route)
          /\ \A n \in 1..4 : m[n] = ModelledLeg(route, n, m[n - 1])
      BY <1>2, ModelledIs
    <2> HIDE DEF m
    <2>2. m[0] \in [0..2 -> Nat] /\ m[1] = ModelledLeg(route, 1, m[0]) /\ DOMAIN m[0] = 0..2
      BY <2>1
    <2>3. m[0][0] = total
      BY <1>3, <2>1
    <2>4. Slice(legs, 1, total).take = a
      <3>1. 0 \in 0..slack /\ a <= total
        BY <1>1
      <3>2. \A more \in 0..slack : Slice(legs, 1, total).take = a
        BY <1>1, <1>2, <3>1, SplitTakes, SMTT(30)
      <3> QED BY <3>1, <3>2
    <2>5. m[1] = Shift(m[0], legs[1], a, a)
      BY <1>2, <2>2, <2>3, <2>4 DEF ModelledLeg
    <2>6. Moved(m[0], legs[1], a, a, m[1])
      <3> DEFINE l == legs[1]
                 from == m[0]
      <3>1. /\ l.src \in 0..2 /\ l.dst \in 0..2 /\ from \in [0..2 -> Nat] /\ a <= from[l.src]
        BY <1>2, <2>2, <2>3
      <3> HIDE DEF l, from
      <3>2. Moved(from, l, a, a, Shift(from, l, a, a))
        BY <3>1, ShiftIs
      <3> QED BY <2>5, <3>2 DEF l, from
    <2> QED BY <1>2, <2>2, <2>3, <2>6 DEF Moved
  <1>5. /\ f[1] = Slice(legs, 1, total).frac
        /\ f[2] = Slice(legs, 2, total - a).frac
        /\ f[3] = ONE /\ f[4] = ONE
    <2>1. f = [n \in 1..4 |-> Slice(legs, n, m[n - 1][legs[n].src]).frac]
      BY <1>2 DEF Fractions
    <2>2. f[3] = ONE /\ f[4] = ONE
      BY <1>2, FractionsAre
    <2> HIDE DEF f, m
    <2> QED BY <1>2, <1>4, <2>1, <2>2
  <1> HIDE DEF m
  <1>6. /\ b0 \in [0..2 -> Nat] /\ b1 \in [0..2 -> Nat] /\ b2 \in [0..2 -> Nat]
        /\ b3 \in [0..2 -> Nat] /\ b4 \in [0..2 -> Nat]
        /\ b0 = Filled(route) /\ b1 = PaidLeg(route, 1, b0) /\ b2 = PaidLeg(route, 2, b1)
        /\ b3 = PaidLeg(route, 3, b2) /\ b4 = PaidLeg(route, 4, b3)
    <2>1. /\ Executed(route) \in [0..4 -> [0..2 -> Nat]] /\ Executed(route)[0] = Filled(route)
          /\ \A n \in 1..4 : Executed(route)[n] = PaidLeg(route, n, Executed(route)[n - 1])
      BY <1>2, ExecutedIs
    <2> QED BY <2>1
  <1>7. /\ Spends(route, 1) = s1 /\ Spends(route, 2) = s2
        /\ Spends(route, 3) = s3 /\ Spends(route, 4) = s4
    BY <1>2 DEF Spends
  <1> HIDE DEF b0, b1, b2, b3, b4, f
  <1>8. /\ Moved(b0, legs[1], s1, a, b1) /\ Moved(b1, legs[2], s2, b, b2)
        /\ Moved(b2, legs[3], s3, c, b3) /\ Moved(b3, legs[4], s4, total, b4)
    <2>1. ASSUME NEW n \in 1..4, NEW b9 \in [0..2 -> Nat]
          PROVE  Moved(b9, legs[n], (b9[legs[n].src] * f[n]) \div ONE, LegOut(legs[n]),
                       PaidLeg(route, n, b9))
      BY <1>2, PaidLegIs DEF f
    <2>2. /\ Moved(b0, legs[1], (b0[0] * f[1]) \div ONE, a, b1)
          /\ Moved(b1, legs[2], (b1[0] * f[2]) \div ONE, b, b2)
          /\ Moved(b2, legs[3], (b2[0] * f[3]) \div ONE, c, b3)
          /\ Moved(b3, legs[4], (b3[1] * f[4]) \div ONE, total, b4)
      BY <1>2, <1>6, <2>1
    <2> QED BY <2>2
  <1>9. b0[0] = total /\ b0[1] = 0
    BY <1>3, <1>6
  <1>10. DOMAIN b0 = 0..2 /\ DOMAIN b1 = 0..2 /\ DOMAIN b2 = 0..2 /\ DOMAIN b3 = 0..2
    BY <1>6
  <1>11. s1 \in 0..total /\ a - slack <= s1 /\ s1 <= a
    <2>1. 0 \in 0..slack /\ total + 0 = total
      BY <1>1
    <2>2. LET got == ((total + 0) * Slice(legs, 1, total).frac) \div ONE
          IN  /\ got \in 0..total + 0 /\ a - slack <= got /\ got <= a
      BY <1>1, <1>2, <2>1, SplitTakes
    <2> QED BY <1>5, <1>9, <2>1, <2>2
  <1> HIDE DEF s1
  <1>12. b1[0] = total - s1 /\ b1[1] = a
    BY <1>2, <1>8, <1>9, <1>10, <1>11 DEF Moved
  <1>13. s2 \in 0..total - s1 /\ b - slack <= s2 /\ s2 <= b + slack
    <2> DEFINE have == total - a
               more == a - s1
    <2>1. have \in Nat /\ b <= have /\ have <= slack * ONE /\ more \in 0..slack
          /\ have + more = total - s1
      BY <1>0, <1>1, <1>11
    <2> HIDE DEF have, more
    <2>2. LET got == ((have + more) * Slice(legs, 2, have).frac) \div ONE
          IN  got \in 0..have + more /\ b - slack <= got /\ got <= b + slack
      BY <1>1, <1>2, <2>1, SplitTakes
    <2>3. f[2] = Slice(legs, 2, have).frac
      BY <1>5 DEF have
    <2> QED BY <1>12, <2>1, <2>2, <2>3
  <1> HIDE DEF s2
  <1>14. b2[0] = total - s1 - s2 /\ b2[1] = a + b
    BY <1>2, <1>8, <1>10, <1>11, <1>12, <1>13 DEF Moved
  <1>15. s3 = total - s1 - s2
    <2>1. b2[0] \in Nat
      BY <1>6
    <2> QED BY <1>5, <1>14, <2>1, AllOfIt
  <1> HIDE DEF s3
  <1>16. b3[0] = 0 /\ b3[1] = total
    BY <1>0, <1>2, <1>8, <1>10, <1>11, <1>13, <1>14, <1>15 DEF Moved, c
  <1>17. s4 = total
    BY <1>5, <1>16, AllOfIt
  <1> HIDE DEF s4
  <1>18. b4[0] = 0 /\ b4[1] = 0
    BY <1>2, <1>8, <1>10, <1>16, <1>17 DEF Moved
  <1>19. /\ s1 - a \in -slack..1 * slack /\ s2 - b \in -slack..2 * slack
         /\ s3 - c \in -slack..3 * slack /\ s4 - total \in -slack..4 * slack
    BY <1>1, <1>11, <1>13, <1>15, <1>17 DEF c
  <1>20. \A n \in 1..4 : Spends(route, n) - legs[n].amount_in \in -slack..n * slack
    <2>1. \A n \in 1..4 : n = 1 \/ n = 2 \/ n = 3 \/ n = 4
      OBVIOUS
    <2> HIDE DEF legs
    <2>2. /\ Spends(route, 1) - legs[1].amount_in \in -slack..1 * slack
          /\ Spends(route, 2) - legs[2].amount_in \in -slack..2 * slack
          /\ Spends(route, 3) - legs[3].amount_in \in -slack..3 * slack
          /\ Spends(route, 4) - legs[4].amount_in \in -slack..4 * slack
      BY <1>2, <1>7, <1>19
    <2> QED BY <2>1, <2>2
  <1> QED BY <1>18, <1>20 DEF b4, route, slack

LEMMA SplitsStay == EncodingSpec => [](about = "split" => given \in Splits)
  <1>1. EncodingInit => (about = "split" => given \in Splits)
    BY DEF EncodingInit, QuoteInit, SplitInit, CallInit, BudgetInit
  <1>2. (about = "split" => given \in Splits) /\ [Keep]_<<about, given>>
          => (about = "split" => given \in Splits)'
    BY DEF Keep
  <1> QED
    BY <1>1, <1>2, PTL DEF EncodingSpec

\* `fractions` (core/routecall.py:216).  Whatever the amounts, a split executed at its own
\* quote spends on every leg the piece the model gave it, but for what a share cannot say,
\* and leaves nothing in a slot that is spent.
THEOREM FractionsSplit ==
    ASSUME SplitMarket
    PROVE  EncodingSpec => []FractionsAreTheSplit
  <1>1. (about = "split" => given \in Splits) => FractionsAreTheSplit
    <2> SUFFICES ASSUME given \in Splits
                 PROVE  LET slack == given.amount_in \div ONE + 1
                        IN  /\ \A n \in DOMAIN given.legs :
                                 Spends(given, n) - given.legs[n].amount_in \in -slack..n * slack
                            /\ \A n \in DOMAIN given.legs :
                                 Executed(given)[Len(given.legs)][given.legs[n].src] = 0
      BY DEF FractionsAreTheSplit
    <2>1. PICK total \in Nat, a1 \in Nat, a2 \in Nat :
            a1 + a2 <= total /\ given = SplitRoute(total, a1, a2)
      <3>1. PICK q \in {q \in Pieces \X Pieces \X Pieces : q[2] + q[3] <= q[1]} :
              given = SplitRoute(q[1], q[2], q[3])
        BY DEF Splits
      <3>2. q[1] \in Nat /\ q[2] \in Nat /\ q[3] \in Nat /\ q[2] + q[3] <= q[1]
        BY <3>1 DEF SplitMarket
      <3> QED BY <3>1, <3>2
    <2>2. /\ Len(given.legs) = 4 /\ DOMAIN given.legs = 1..4 /\ given.amount_in = total
          /\ \A n \in 1..4 : given.legs[n].src \in {0, 1}
      <3>1. \A n \in 1..4 : n = 1 \/ n = 2 \/ n = 3 \/ n = 4
        OBVIOUS
      <3> QED BY <2>1, <3>1, SplitIs
    <2>3. LET slack == given.amount_in \div ONE + 1
          IN  /\ \A n \in 1..4 :
                    Spends(given, n) - given.legs[n].amount_in \in -slack..n * slack
              /\ Executed(given)[4][0] = 0 /\ Executed(given)[4][1] = 0
      BY <2>1, <2>2, SplitRuns
    <2> QED BY <2>2, <2>3
  <1> QED BY <1>1, SplitsStay, PTL

----------------------------------------------------------------------------
(* What is spent along a path, and the longest.                            *)

\* u adds up what legs p of g spend, a leg after another.
AddsUp(u, p, g, top) ==
    /\ u \in [0..top -> Int] /\ u[0] = 0
    /\ \A n \in 1..top : u[n] = u[n - 1] + (IF n \in p THEN g[n] ELSE 0)

LEMMA SpentOnIs ==
    ASSUME NEW top \in Nat, NEW g \in [1..top -> Int], NEW p
    PROVE  \E u : AddsUp(u, p, g, top) /\ SpentOn(p, g) = u[top]
  <1> DEFINE more(n, have) == have + (IF n \in p THEN g[n] ELSE 0)
             step == [n \in 1..top |-> [have \in Int |-> more(n, have)]]
             Is(u) == u = [n \in 0..top |-> IF n = 0 THEN 0 ELSE more(n, u[n - 1])]
             sum == CHOOSE u : Is(u)
  <1>1. Len(g) = top
    OBVIOUS
  <1>2. SpentOn(p, g) = sum[top]
    BY <1>1 DEF SpentOn
  <1>3. step \in [1..top -> [Int -> Int]]
    OBVIOUS
  <1>4. PICK f \in [0..top -> Int] : Iterates(f, top, 0, step)
    <2> DEFINE Values == Int
    <2>1. 0 \in Values /\ step \in [1..top -> [Values -> Values]]
      BY <1>3
    <2> HIDE DEF step, Values
    <2>2. \E f \in [0..top -> Values] : Iterates(f, top, 0, step)
      BY <2>1, Iteration, Zenon
    <2> QED BY <2>2 DEF Values
  <1>5. ASSUME NEW n \in 1..top PROVE f[n] = more(n, f[n - 1])
    <2>1. n - 1 \in 0..top /\ f[n - 1] \in Int
      OBVIOUS
    <2>2. f[n] = step[n][f[n - 1]]
      BY <1>4 DEF Iterates
    <2> QED BY <2>1, <2>2
  <1>6. Is(f)
    <2> HIDE DEF more
    <2> QED BY <1>4, <1>5 DEF Iterates
  <1> HIDE DEF sum, more, step
  <1>7. Is(sum)
    <2> HIDE DEF Is
    <2> QED BY <1>6 DEF sum
  <1>8. sum[0] = 0 /\ \A n \in 1..top : sum[n] = more(n, sum[n - 1])
    BY <1>7
  <1>9. \A n \in 0..top : sum[n] \in Int
    <2> DEFINE Good == {n \in 0..top : sum[n] \in Int}
    <2>1. 0 \in Good
      BY <1>8
    <2>2. ASSUME NEW n \in 1..top, n - 1 \in Good PROVE n \in Good
      <3>1. n \in 0..top /\ sum[n] = more(n, sum[n - 1])
        BY <1>8
      <3> QED BY <2>2, <3>1 DEF more
    <2>3. \A n \in 0..top : n \in Good
      <3> HIDE DEF Good
      <3> QED BY <2>1, <2>2, UpTo
    <2> QED BY <2>3
  <1>10. sum = [n \in 0..top |-> sum[n]]
    BY <1>7
  <1>11. sum \in [0..top -> Int]
    BY <1>9, <1>10
  <1> QED BY <1>2, <1>8, <1>11 DEF AddsUp, more

LEMMA Distributes ==
    ASSUME NEW q \in Int, NEW r \in Int, NEW v \in Int
    PROVE  q * (r + v) = q * r + q * v
  OBVIOUS

LEMMA Product ==
    ASSUME NEW q \in Int, NEW r \in Int PROVE q * r \in Int
  OBVIOUS

LEMMA Commutes ==
    ASSUME NEW q \in Int, NEW r \in Int PROVE q * r = r * q
  OBVIOUS

LEMMA ProductIsNat ==
    ASSUME NEW q \in Nat, NEW r \in Nat PROVE q * r \in Nat
  OBVIOUS

\* What compares leg by leg compares in sum.
LEMMA SumsCompare ==
    ASSUME NEW top \in Nat, NEW p \in SUBSET (1..top), NEW a \in Int, NEW b \in Int, NEW c \in Int,
           NEW g \in [1..top -> Int], NEW h \in [1..top -> Int], NEW e \in [1..top -> Int],
           \A n \in p : a * g[n] <= b * h[n] + c * e[n]
    PROVE  /\ SpentOn(p, g) \in Int /\ SpentOn(p, h) \in Int /\ SpentOn(p, e) \in Int
           /\ a * SpentOn(p, g) <= b * SpentOn(p, h) + c * SpentOn(p, e)
  <1>1. PICK u : AddsUp(u, p, g, top) /\ SpentOn(p, g) = u[top]
    BY SpentOnIs
  <1>2. PICK v : AddsUp(v, p, h, top) /\ SpentOn(p, h) = v[top]
    BY SpentOnIs
  <1>3. PICK t : AddsUp(t, p, e, top) /\ SpentOn(p, e) = t[top]
    BY SpentOnIs
  <1> DEFINE Good == {n \in 0..top : a * u[n] <= b * v[n] + c * t[n]}
  <1>4. 0 \in Good
    BY <1>1, <1>2, <1>3 DEF AddsUp
  <1>5. ASSUME NEW n \in 1..top, n - 1 \in Good PROVE n \in Good
    <2>1. /\ n \in 0..top /\ n - 1 \in 0..top
          /\ u[n - 1] \in Int /\ v[n - 1] \in Int /\ t[n - 1] \in Int
      BY <1>1, <1>2, <1>3 DEF AddsUp
    <2>2. a * u[n - 1] <= b * v[n - 1] + c * t[n - 1]
      BY <1>5
    <2>3. CASE n \in p
      <3>1. u[n] = u[n - 1] + g[n] /\ v[n] = v[n - 1] + h[n] /\ t[n] = t[n - 1] + e[n]
        BY <1>1, <1>2, <1>3, <2>3 DEF AddsUp
      <3>2. g[n] \in Int /\ h[n] \in Int /\ e[n] \in Int
        OBVIOUS
      <3>3. /\ a * u[n] = a * u[n - 1] + a * g[n] /\ b * v[n] = b * v[n - 1] + b * h[n]
            /\ c * t[n] = c * t[n - 1] + c * e[n]
        <4>1. a * (u[n - 1] + g[n]) = a * u[n - 1] + a * g[n]
          BY <2>1, <3>2, Distributes, Zenon
        <4>2. b * (v[n - 1] + h[n]) = b * v[n - 1] + b * h[n]
          BY <2>1, <3>2, Distributes, Zenon
        <4>3. c * (t[n - 1] + e[n]) = c * t[n - 1] + c * e[n]
          BY <2>1, <3>2, Distributes, Zenon
        <4> QED BY <3>1, <4>1, <4>2, <4>3
      <3>4. a * g[n] <= b * h[n] + c * e[n]
        BY <2>3
      <3>5. a * u[n] <= b * v[n] + c * t[n]
        <4>1. /\ a * u[n - 1] \in Int /\ b * v[n - 1] \in Int /\ c * t[n - 1] \in Int
              /\ a * g[n] \in Int /\ b * h[n] \in Int /\ c * e[n] \in Int
          BY <2>1, <3>2, Product
        <4> DEFINE a1 == a * u[n - 1]
                   a2 == a * g[n]
                   b1 == b * v[n - 1]
                   b2 == b * h[n]
                   c1 == c * t[n - 1]
                   c2 == c * e[n]
        <4>2. a1 <= b1 + c1 /\ a2 <= b2 + c2
          BY <2>2, <3>4
        <4>3. a * u[n] = a1 + a2 /\ b * v[n] = b1 + b2 /\ c * t[n] = c1 + c2
          BY <3>3
        <4>4. a1 \in Int /\ a2 \in Int /\ b1 \in Int /\ b2 \in Int /\ c1 \in Int /\ c2 \in Int
          BY <4>1
        <4> HIDE DEF a1, a2, b1, b2, c1, c2
        <4>5. a1 + a2 <= b1 + b2 + (c1 + c2)
          BY <4>2, <4>4
        <4> QED BY <4>3, <4>5
      <3> QED BY <2>1, <3>5
    <2>4. CASE n \notin p
      <3>1. u[n] = u[n - 1] /\ v[n] = v[n - 1] /\ t[n] = t[n - 1]
        BY <1>1, <1>2, <1>3, <2>1, <2>4 DEF AddsUp
      <3> QED BY <2>1, <2>2, <3>1
    <2> QED BY <2>3, <2>4
  <1>6. top \in Good
    <2>1. \A n \in 0..top : n \in Good
      <3> HIDE DEF Good
      <3> QED BY <1>4, <1>5, UpTo
    <2> QED BY <2>1
  <1>7. u[top] \in Int /\ v[top] \in Int /\ t[top] \in Int
    BY <1>1, <1>2, <1>3 DEF AddsUp
  <1> QED BY <1>1, <1>2, <1>3, <1>6, <1>7

\* One leg more, behind all the others.
LEMMA SumAdds ==
    ASSUME NEW top \in Nat, NEW n \in 1..top, NEW p \in SUBSET (1..n - 1),
           NEW g \in [1..top -> Int]
    PROVE  SpentOn(p \cup {n}, g) = SpentOn(p, g) + g[n]
  <1>1. PICK u : AddsUp(u, p, g, top) /\ SpentOn(p, g) = u[top]
    BY SpentOnIs
  <1>2. PICK v : AddsUp(v, p \cup {n}, g, top) /\ SpentOn(p \cup {n}, g) = v[top]
    BY SpentOnIs
  <1> DEFINE Good == {m \in 0..top : v[m] = u[m] + (IF n <= m THEN g[n] ELSE 0)}
  <1>3. 0 \in Good
    BY <1>1, <1>2 DEF AddsUp
  <1>4. ASSUME NEW m \in 1..top, m - 1 \in Good PROVE m \in Good
    <2>1. /\ m \in 0..top /\ m - 1 \in 0..top /\ u[m - 1] \in Int /\ v[m - 1] \in Int
          /\ g[m] \in Int /\ g[n] \in Int
      BY <1>1, <1>2 DEF AddsUp
    <2>2. v[m - 1] = u[m - 1] + (IF n <= m - 1 THEN g[n] ELSE 0)
      BY <1>4
    <2>3. /\ u[m] = u[m - 1] + (IF m \in p THEN g[m] ELSE 0)
          /\ v[m] = v[m - 1] + (IF m \in p \cup {n} THEN g[m] ELSE 0)
      BY <1>1, <1>2 DEF AddsUp
    <2>4. CASE m < n
      <3>1. (m \in p \cup {n} <=> m \in p) /\ ~(n <= m) /\ ~(n <= m - 1)
        BY <2>4
      <3> QED BY <2>1, <2>2, <2>3, <3>1
    <2>5. CASE m = n
      <3>1. m \notin p /\ m \in p \cup {n} /\ n <= m /\ ~(n <= m - 1)
        BY <2>5
      <3> QED BY <2>1, <2>2, <2>3, <2>5, <3>1
    <2>6. CASE m > n
      <3>1. m \notin p /\ m \notin p \cup {n} /\ n <= m /\ n <= m - 1
        BY <2>6
      <3> QED BY <2>1, <2>2, <2>3, <3>1
    <2> QED BY <2>4, <2>5, <2>6
  <1>5. top \in Good
    <2>1. \A m \in 0..top : m \in Good
      <3> HIDE DEF Good
      <3> QED BY <1>3, <1>4, UpTo
    <2> QED BY <2>1
  <1> QED BY <1>1, <1>2, <1>5

\* What a set keeps of its members, a member after another.
LEMMA CutsOff ==
    ASSUME NEW top \in Nat, NEW p, \A m \in p : m \in Int /\ 1 <= m /\ m <= top
    PROVE  /\ \A m : m \notin {e \in p : e <= 0}
           /\ \A m : m \in {e \in p : e <= top} <=> m \in p
           /\ \A n \in 1..top :
                /\ n \notin {e \in p : e <= n - 1}
                /\ \A m : m \in {e \in p : e <= n}
                            <=> m \in {e \in p : e <= n - 1} \/ (m = n /\ n \in p)
  <1>1. \A m : m \notin {e \in p : e <= 0}
    OBVIOUS
  <1>2. \A m : m \in {e \in p : e <= top} <=> m \in p
    OBVIOUS
  <1>3. ASSUME NEW n \in 1..top PROVE n \notin {e \in p : e <= n - 1}
    OBVIOUS
  <1>4. ASSUME NEW n \in 1..top, NEW m
        PROVE  m \in {e \in p : e <= n}
                 <=> m \in {e \in p : e <= n - 1} \/ (m = n /\ n \in p)
    <2>1. m \in p => (m <= n <=> m <= n - 1 \/ m = n)
      OBVIOUS
    <2> QED BY <2>1
  <1> QED BY <1>1, <1>2, <1>3, <1>4

\* A unit for each leg comes to the number of legs.
LEMMA SumCounts ==
    ASSUME NEW top \in Nat, NEW p \in SUBSET (1..top)
    PROVE  /\ SpentOn(p, [n \in 1..top |-> 1]) = Cardinality(p) /\ Cardinality(p) \in Nat
  <1> DEFINE one == [n \in 1..top |-> 1]
             UpToN(n) == {m \in p : m <= n}
  <1>0. \A m \in p : m \in Int /\ 1 <= m /\ m <= top
    OBVIOUS
  <1>10. /\ \A m : m \notin UpToN(0)
        /\ \A m : m \in UpToN(top) <=> m \in p
    BY <1>0, CutsOff
  <1>11. ASSUME NEW n \in 1..top
        PROVE  /\ n \notin UpToN(n - 1)
               /\ \A m : m \in UpToN(n) <=> m \in UpToN(n - 1) \/ (m = n /\ n \in p)
    BY <1>0, CutsOff
  <1>1. one \in [1..top -> Int] /\ \A n \in 1..top : one[n] = 1
    OBVIOUS
  <1> HIDE DEF one
  <1>2. PICK u : AddsUp(u, p, one, top) /\ SpentOn(p, one) = u[top]
    BY <1>1, SpentOnIs
  <1> DEFINE Counted == {n \in 0..top : IsFiniteSet(UpToN(n)) /\ u[n] = Cardinality(UpToN(n))}
  <1>3. 0 \in Counted
    <2> HIDE DEF UpToN
    <2>1. UpToN(0) = {}
      BY <1>10
    <2>2. IsFiniteSet(UpToN(0)) /\ Cardinality(UpToN(0)) = 0
      BY <2>1, FS_EmptySet
    <2> QED BY <1>2, <2>2 DEF AddsUp
  <1>4. ASSUME NEW n \in 1..top, n - 1 \in Counted PROVE n \in Counted
    <2>1. n \in 0..top /\ u[n] = u[n - 1] + (IF n \in p THEN 1 ELSE 0)
      BY <1>1, <1>2 DEF AddsUp
    <2>2. IsFiniteSet(UpToN(n - 1)) /\ u[n - 1] = Cardinality(UpToN(n - 1))
      BY <1>4
    <2>3. Cardinality(UpToN(n - 1)) \in Nat
      BY <2>2, FS_CardinalityType
    <2> HIDE DEF UpToN
    <2>4. CASE n \in p
      <3>1. UpToN(n) = UpToN(n - 1) \cup {n} /\ n \notin UpToN(n - 1)
        BY <1>11, <2>4
      <3>2. IsFiniteSet(UpToN(n)) /\ Cardinality(UpToN(n)) = Cardinality(UpToN(n - 1)) + 1
        BY <2>2, <3>1, FS_AddElement
      <3> QED BY <2>1, <2>2, <2>4, <3>2
    <2>5. CASE n \notin p
      <3>1. UpToN(n) = UpToN(n - 1)
        BY <1>11, <2>5
      <3> QED BY <2>1, <2>2, <2>3, <2>5, <3>1
    <2> QED BY <2>4, <2>5
  <1>5. top \in Counted
    <2>1. \A n \in 0..top : n \in Counted
      <3> HIDE DEF Counted
      <3> QED BY <1>3, <1>4, UpTo
    <2> QED BY <2>1
  <1> HIDE DEF UpToN
  <1>6. UpToN(top) = p
    BY <1>10
  <1>7. u[top] = Cardinality(p) /\ Cardinality(p) \in Nat
    BY <1>5, <1>6, FS_CardinalityType
  <1> QED BY <1>2, <1>7 DEF one

\* A sum of shares that are not negative holds each of them.
LEMMA SumHolds ==
    ASSUME NEW top \in Nat, NEW p \in SUBSET (1..top), NEW n \in p, NEW g \in [1..top -> Nat]
    PROVE  SpentOn(p, g) \in Nat /\ g[n] <= SpentOn(p, g)
  <1>1. g \in [1..top -> Int] /\ \A m \in 1..top : g[m] \in Nat
    OBVIOUS
  <1>2. PICK u : AddsUp(u, p, g, top) /\ SpentOn(p, g) = u[top]
    BY <1>1, SpentOnIs
  <1> DEFINE Good == {m \in 0..top : u[m] \in Nat /\ (n <= m => g[n] <= u[m])}
  <1>3. 0 \in Good
    BY <1>2 DEF AddsUp
  <1>4. ASSUME NEW m \in 1..top, m - 1 \in Good PROVE m \in Good
    <2>1. m \in 0..top /\ u[m] = u[m - 1] + (IF m \in p THEN g[m] ELSE 0)
      BY <1>2 DEF AddsUp
    <2>2. u[m - 1] \in Nat /\ (n <= m - 1 => g[n] <= u[m - 1]) /\ g[m] \in Nat /\ g[n] \in Nat
      BY <1>1, <1>4
    <2>3. u[m] \in Nat /\ u[m] >= u[m - 1] /\ (m \in p => u[m] >= g[m])
      BY <2>1, <2>2
    <2>4. n <= m => n <= m - 1 \/ n = m
      OBVIOUS
    <2>5. n <= m => g[n] <= u[m]
      BY <2>2, <2>3, <2>4
    <2> QED BY <2>1, <2>3, <2>5
  <1>5. top \in Good
    <2>1. \A m \in 0..top : m \in Good
      <3> HIDE DEF Good
      <3> QED BY <1>3, <1>4, UpTo
    <2> QED BY <2>1
  <1>6. n <= top
    OBVIOUS
  <1> QED BY <1>2, <1>5, <1>6
----------------------------------------------------------------------------
(* The longest path, and the paths it is the longest of.                   *)

Depth == {depth \in Int : depth >= Unreached}
Depths(route) == [Slots(route) -> Depth]
NothingSpent(route) == [slot \in Slots(route) |-> IF slot = 0 THEN 0 ELSE Unreached]

LongestLeg(route, spend, n, b) ==
    LET l == route.legs[n]
    IN  IF b[l.src] = Unreached THEN b
        ELSE [b EXCEPT ![l.dst] = AtLeast(@, b[l.src] + spend[n])]

\* What a leg makes of the slots: no slot falls back, its own end is level with it.
Relaxed(b, c, l, spent, slots) ==
    /\ \A slot \in slots : b[slot] <= c[slot]
    /\ \A slot \in slots :
          c[slot] = b[slot] \/ (slot = l.dst /\ b[l.src] >= 0 /\ c[slot] = b[l.src] + spent)
    /\ b[l.src] >= 0 => c[l.dst] >= b[l.src] + spent

LEMMA LongestLegIs ==
    ASSUME NEW route \in Realized, NEW spend \in [1..Len(route.legs) -> Nat],
           NEW n \in 1..Len(route.legs), NEW b \in Depths(route)
    PROVE  /\ LongestLeg(route, spend, n, b) \in Depths(route)
           /\ Relaxed(b, LongestLeg(route, spend, n, b), route.legs[n], spend[n], Slots(route))
  <1> DEFINE l == route.legs[n]
             more == b[l.src] + spend[n]
             c == LongestLeg(route, spend, n, b)
  <1>1. l.src \in Slots(route) /\ l.dst \in Slots(route)
    BY LegsAre
  <1>2. /\ \A slot \in Slots(route) : b[slot] \in Int /\ b[slot] >= -1
        /\ spend[n] \in Nat
    BY DEF Depths, Depth, Unreached
  <1>3. CASE b[l.src] = Unreached
    <2>1. c = b
      BY <1>3 DEF LongestLeg
    <2> QED BY <1>1, <1>2, <1>3, <2>1 DEF Relaxed, Unreached
  <1>4. CASE b[l.src] # Unreached
    <2>1. b[l.src] \in Int /\ b[l.src] >= 0
      BY <1>1, <1>2, <1>4 DEF Unreached
    <2>2. more \in Int /\ more >= 0
      BY <1>2, <2>1
    <2>3. c = [b EXCEPT ![l.dst] = AtLeast(@, more)]
      BY <1>4 DEF LongestLeg
    <2> HIDE DEF more, c
    <2>4. c = [slot \in Slots(route) |-> IF slot = l.dst THEN AtLeast(b[slot], more) ELSE b[slot]]
      <3> HIDE DEF l
      <3> QED BY <2>3 DEF Depths
    <2>5. \A slot \in Slots(route) : AtLeast(b[slot], more) \in Depth
      BY <1>2, <2>2 DEF AtLeast, Depth, Unreached
    <2>6. c \in Depths(route)
      BY <2>4, <2>5 DEF Depths
    <2>7. /\ \A slot \in Slots(route) : b[slot] <= c[slot]
          /\ \A slot \in Slots(route) : c[slot] = b[slot] \/ (slot = l.dst /\ c[slot] = more)
          /\ c[l.dst] >= more
      BY <1>1, <1>2, <2>2, <2>4 DEF AtLeast
    <2> QED BY <2>1, <2>6, <2>7 DEF Relaxed, c, more
  <1> QED BY <1>3, <1>4

\* b is how far each slot is from slot 0, leg by leg.
Deepens(b, route, spend) ==
    /\ b \in [0..Len(route.legs) -> Depths(route)]
    /\ b[0] = NothingSpent(route)
    /\ \A n \in 1..Len(route.legs) :
          Relaxed(b[n - 1], b[n], route.legs[n], spend[n], Slots(route))

LEMMA LongestIs ==
    ASSUME NEW route \in Realized, NEW spend \in [1..Len(route.legs) -> Nat]
    PROVE  \E b : /\ Deepens(b, route, spend)
                  /\ Longest(route, spend) = AtLeast(0, b[Len(route.legs)][route.dst_slot])
  <1> DEFINE top == Len(route.legs)
             Values == Depths(route)
             one(n, b) == LongestLeg(route, spend, n, b)
             step == [n \in 1..top |-> [b \in Values |-> one(n, b)]]
             Is(f) == f = [n \in 0..top |-> IF n = 0 THEN NothingSpent(route)
                                            ELSE one(n, f[n - 1])]
             best == CHOOSE g : Is(g)
  <1>1. top \in Nat
    BY LegsAre
  <1>2. step \in [1..top -> [Values -> Values]]
    BY LongestLegIs
  <1>3. NothingSpent(route) \in Values
    BY DEF NothingSpent, Depths, Depth, Unreached
  <1>4. Longest(route, spend) = AtLeast(0, best[top][route.dst_slot])
    BY DEF Longest, LongestLeg, NothingSpent
  <1> HIDE DEF one, best
  <1>5. PICK f \in [0..top -> Values] : Iterates(f, top, NothingSpent(route), step)
    <2> HIDE DEF step, top, Values
    <2> QED BY <1>1, <1>2, <1>3, Iteration, Zenon
  <1>6. ASSUME NEW n \in 1..top PROVE f[n] = one(n, f[n - 1])
    <2> HIDE DEF Values, top
    <2>1. n - 1 \in 0..top
      BY <1>1
    <2>2. f[n - 1] \in Values
      BY <2>1
    <2>3. f[n] = step[n][f[n - 1]]
      BY <1>5 DEF Iterates
    <2> QED BY <2>2, <2>3
  <1> HIDE DEF step, Values, top
  <1>7. Is(f)
    <2>1. f[0] = NothingSpent(route)
      BY <1>5 DEF Iterates
    <2> QED BY <1>6, <2>1
  <1>8. Is(best)
    <2> HIDE DEF Is
    <2> QED BY <1>7 DEF best
  <1>9. best[0] = NothingSpent(route) /\ \A n \in 1..top : best[n] = one(n, best[n - 1])
    BY <1>1, <1>8
  <1>10. \A n \in 0..top : best[n] \in Values
    <2> DEFINE Good == {n \in 0..top : best[n] \in Values}
    <2>1. 0 \in Good
      BY <1>1, <1>3, <1>9
    <2>2. ASSUME NEW n \in 1..top, n - 1 \in Good PROVE n \in Good
      <3>1. one(n, best[n - 1]) \in Values
        BY <2>2, LongestLegIs DEF one, Values, top
      <3> QED BY <1>1, <1>9, <3>1
    <2>3. \A n \in 0..top : n \in Good
      <3> HIDE DEF Good
      <3> QED BY <1>1, <2>1, <2>2, UpTo
    <2> QED BY <2>3
  <1>11. best = [n \in 0..top |-> best[n]]
    BY <1>8
  <1>12. best \in [0..top -> Values]
    BY <1>10, <1>11
  <1>13. ASSUME NEW n \in 1..top
         PROVE  Relaxed(best[n - 1], best[n], route.legs[n], spend[n], Slots(route))
    <2>1. best[n - 1] \in Values /\ best[n] = one(n, best[n - 1])
      BY <1>1, <1>9, <1>10
    <2> QED BY <2>1, LongestLegIs DEF one, Values, top
  <1>14. Deepens(best, route, spend)
    BY <1>9, <1>12, <1>13 DEF Deepens, top, Values
  <1> QED BY <1>4, <1>14 DEF top
----------------------------------------------------------------------------
(* The ways through a route.                                               *)

\* The first and the last leg of a path.
LEMMA EndsOf ==
    ASSUME NEW top \in Nat, NEW p, p # {}, \A e \in p : e \in Nat /\ e <= top
    PROVE  /\ Min(p) \in p /\ \A e \in p : Min(p) <= e
           /\ Max(p) \in p /\ \A e \in p : e <= Max(p)
  <1>1. \E e \in p : \A m \in p : e <= m
    BY OneIsLeast
  <1> DEFINE left == {top - e : e \in p}
  <1>2. left \in SUBSET Nat /\ left # {}
    OBVIOUS
  <1>3. PICK far \in left : \A m \in left : far <= m
    BY <1>2, OneIsLeast
  <1>4. PICK e \in p : far = top - e
    BY <1>3
  <1>5. \A m \in p : m <= e
    <2> TAKE m \in p
    <2>1. top - m \in left
      OBVIOUS
    <2>2. top - e <= top - m
      BY <1>3, <1>4, <2>1
    <2> QED BY <2>2
  <1>6. \E m \in p : \A n \in p : m >= n
    BY <1>5
  <1> QED BY <1>1, <1>6 DEF Min, Max

LEMMA EndsAre ==
    ASSUME NEW top \in Nat, NEW p \in SUBSET (1..top), p # {}
    PROVE  /\ Min(p) \in p /\ \A e \in p : Min(p) <= e
           /\ Max(p) \in p /\ \A e \in p : e <= Max(p)
           /\ \A e \in p : e \in Int
  <1>1. \A e \in p : e \in Nat /\ e <= top /\ e \in Int
    OBVIOUS
  <1> QED BY <1>1, EndsOf, Zenon

\* No leg of p lies between these two.
Consecutive(p, m, n) == m < n /\ \A e \in p : e <= m \/ n <= e

\* A path is chained: from slot 0, each leg from where the one before it ended.
Chained(route, p) ==
    /\ \A n \in p : (\A e \in p : n <= e) => route.legs[n].src = 0
    /\ \A m, n \in p : Consecutive(p, m, n) => route.legs[m].dst = route.legs[n].src

LEMMA PathsAre ==
    ASSUME NEW route \in Realized, NEW p \in Paths(route)
    PROVE  /\ p \in SUBSET (1..Len(route.legs)) /\ p # {} /\ Chained(route, p)
           /\ \E n \in p : (\A e \in p : e <= n) /\ route.legs[n].dst = route.dst_slot
  <1>1. /\ p \in SUBSET (1..Len(route.legs)) /\ p # {}
        /\ route.legs[Min(p)].src = 0 /\ route.legs[Max(p)].dst = route.dst_slot
        /\ \A m, n \in p : Consecutive(p, m, n) => route.legs[m].dst = route.legs[n].src
    BY LegsAre DEF Paths, Consecutive
  <1>2. /\ Min(p) \in p /\ \A e \in p : Min(p) <= e
        /\ Max(p) \in p /\ \A e \in p : e <= Max(p)
        /\ \A e \in p : e \in Int
    BY <1>1, LegsAre, EndsAre
  <1>3. ASSUME NEW n \in p, \A e \in p : n <= e PROVE n = Min(p)
    <2>1. n <= Min(p) /\ Min(p) <= n /\ n \in Int /\ Min(p) \in Int
      BY <1>2, <1>3
    <2> QED BY <2>1
  <1> QED BY <1>1, <1>2, <1>3 DEF Chained

\* Which of them are a way through.
LEMMA IsPath ==
    ASSUME NEW route \in Realized, NEW p \in SUBSET (1..Len(route.legs)), Chained(route, p),
           NEW n \in p, \A e \in p : e <= n, route.legs[n].dst = route.dst_slot
    PROVE  p \in Paths(route)
  <1>1. /\ Min(p) \in p /\ \A e \in p : Min(p) <= e
        /\ Max(p) \in p /\ \A e \in p : e <= Max(p)
        /\ \A e \in p : e \in Int
    BY LegsAre, EndsAre
  <1>2. Max(p) = n
    <2>1. n <= Max(p) /\ Max(p) <= n /\ n \in Int /\ Max(p) \in Int
      BY <1>1
    <2> QED BY <2>1
  <1>3. route.legs[Min(p)].src = 0
    BY <1>1 DEF Chained
  <1>4. p \in SUBSET DOMAIN route.legs /\ p # {}
    BY LegsAre
  <1> QED BY <1>2, <1>3, <1>4 DEF Paths, Chained, Consecutive

\* The last leg of p before n, where there is one.
LEMMA OneBefore ==
    ASSUME NEW top \in Nat, NEW p \in SUBSET (1..top), NEW n \in 1..top
    PROVE  \/ \A e \in p : n <= e
           \/ \E m \in p : Consecutive(p, m, n)
  <1> DEFINE under == {e \in p : e < n}
  <1>1. CASE under = {}
    BY <1>1
  <1>2. CASE under # {}
    <2>1. under \in SUBSET (1..top)
      OBVIOUS
    <2> HIDE DEF under
    <2>2. Max(under) \in under /\ \A e \in under : e <= Max(under)
      BY <1>2, <2>1, EndsAre
    <2>3. /\ \A e \in p : e < n => e \in under
          /\ \A e \in under : e \in p /\ e < n
      BY DEF under
    <2>4. \A e \in p : e \in Int
      OBVIOUS
    <2>5. \A e \in p : e <= Max(under) \/ n <= e
      BY <2>2, <2>3, <2>4
    <2> QED BY <2>2, <2>3, <2>5 DEF Consecutive
  <1> QED BY <1>1, <1>2

LEMMA LongestIsNat ==
    ASSUME NEW route \in Realized, NEW spend \in [1..Len(route.legs) -> Nat]
    PROVE  Longest(route, spend) \in Nat
  <1>1. PICK b : /\ Deepens(b, route, spend)
                 /\ Longest(route, spend) = AtLeast(0, b[Len(route.legs)][route.dst_slot])
    BY LongestIs
  <1>2. b[Len(route.legs)][route.dst_slot] \in Int
    <2>1. Len(route.legs) \in 0..Len(route.legs) /\ route.dst_slot \in Slots(route)
      BY LegsAre
    <2> QED BY <1>1, <2>1 DEF Deepens, Depths, Depth
  <1> QED BY <1>1, <1>2 DEF AtLeast

\* No path spends more than the longest.
LEMMA NoPathLonger ==
    ASSUME NEW route \in Realized, NEW spend \in [1..Len(route.legs) -> Nat],
           NEW p \in Paths(route)
    PROVE  SpentOn(p, spend) <= Longest(route, spend)
  <1> DEFINE top == Len(route.legs)
             legs == route.legs
  <1>1. top \in Nat /\ p \in SUBSET (1..top) /\ spend \in [1..top -> Int]
    BY LegsAre, PathsAre
  <1>2. Chained(route, p)
    BY PathsAre
  <1>3. PICK final \in p : (\A e \in p : e <= final) /\ legs[final].dst = route.dst_slot
    BY PathsAre
  <1>4. PICK b : /\ Deepens(b, route, spend)
                 /\ Longest(route, spend) = AtLeast(0, b[top][route.dst_slot])
    BY LongestIs
  <1>5. PICK u : AddsUp(u, p, spend, top) /\ SpentOn(p, spend) = u[top]
    <2> HIDE DEF top
    <2> QED BY <1>1, SpentOnIs
  <1>6. /\ \A n \in 1..top : legs[n].src \in Slots(route) /\ legs[n].dst \in Slots(route)
        /\ 0 \in Slots(route) /\ route.dst_slot \in Slots(route)
    BY LegsAre
  <1> HIDE DEF top, legs
  <1>7. /\ \A n \in 0..top : \A slot \in Slots(route) : b[n][slot] \in Int
        /\ b[0][0] = 0
        /\ \A n \in 1..top :
              Relaxed(b[n - 1], b[n], legs[n], spend[n], Slots(route))
    BY <1>4, <1>6 DEF Deepens, Depths, Depth, NothingSpent, top, legs
  <1>8. /\ u[0] = 0 /\ \A n \in 0..top : u[n] \in Int
        /\ \A n \in 1..top : u[n] = u[n - 1] + (IF n \in p THEN spend[n] ELSE 0)
        /\ \A n \in 1..top : spend[n] \in Nat
    BY <1>5 DEF AddsUp, top
  <1> DEFINE Level(n) == \A m \in p :
                            m <= n /\ (\A e \in p : e <= m \/ n < e) => b[n][legs[m].dst] >= u[n]
             Good == {n \in 0..top : /\ u[n] >= 0 /\ b[n][0] >= 0
                                     /\ (\A e \in p : n < e) => u[n] = 0
                                     /\ Level(n)}
  <1>9. 0 \in Good
    <2>1. \A m \in p : ~(m <= 0)
      BY <1>1
    <2>2. Level(0)
      BY <2>1
    <2>3. u[0] = 0 /\ b[0][0] = 0 /\ 0 \in 0..top
      BY <1>1, <1>7, <1>8
    <2> HIDE DEF Level
    <2> QED BY <2>2, <2>3
  <1>10. ASSUME NEW n \in 1..top, n - 1 \in Good PROVE n \in Good
    <2>1. /\ n \in 0..top /\ n - 1 \in 0..top /\ n \in Int
          /\ u[n - 1] \in Int /\ u[n] \in Int /\ spend[n] \in Nat
          /\ \A slot \in Slots(route) : b[n - 1][slot] \in Int /\ b[n][slot] \in Int
      BY <1>1, <1>7, <1>8
    <2>2. /\ u[n - 1] >= 0 /\ b[n - 1][0] >= 0
          /\ (\A e \in p : n - 1 < e) => u[n - 1] = 0
          /\ Level(n - 1)
      BY <1>10
    <2>3. \A slot \in Slots(route) : b[n - 1][slot] <= b[n][slot]
      BY <1>7 DEF Relaxed
    <2>4. \A e \in p : e \in Int /\ e >= 1 /\ e \in 1..top
      BY <1>1
    <2>5. b[n][0] >= 0
      BY <1>6, <2>1, <2>2, <2>3
    <2>6. CASE n \notin p
      <3>1. u[n] = u[n - 1]
        BY <1>8, <2>1, <2>6
      <3>2. \A e \in p : n < e <=> n - 1 < e
        BY <2>1, <2>4, <2>6
      <3>3. ASSUME NEW m \in p, m <= n, \A e \in p : e <= m \/ n < e
            PROVE  b[n][legs[m].dst] >= u[n]
        <4>1. m <= n - 1
          BY <2>1, <2>4, <2>6, <3>3
        <4>2. b[n - 1][legs[m].dst] >= u[n - 1]
          BY <2>2, <3>2, <3>3, <4>1
        <4> QED BY <1>6, <2>1, <2>3, <2>4, <3>1, <4>2
      <3>4. (\A e \in p : n < e) => u[n] = 0
        BY <2>2, <3>1, <3>2
      <3> QED BY <2>1, <2>2, <2>5, <3>1, <3>3, <3>4
    <2>7. CASE n \in p
      <3>1. u[n] = u[n - 1] + spend[n]
        BY <1>8, <2>7
      <3>2. b[n - 1][legs[n].src] >= u[n - 1]
        <4>1. CASE \A e \in p : n <= e
          <5>1. legs[n].src = 0
            BY <1>2, <2>7, <4>1 DEF Chained, legs
          <5>2. \A e \in p : n - 1 < e
            BY <2>1, <2>4, <4>1
          <5> QED BY <2>2, <5>1, <5>2
        <4>2. ASSUME NEW m \in p, Consecutive(p, m, n) PROVE b[n - 1][legs[n].src] >= u[n - 1]
          <5>1. legs[m].dst = legs[n].src
            BY <1>2, <2>7, <4>2 DEF Chained, legs
          <5>2. m <= n - 1 /\ \A e \in p : e <= m \/ n - 1 < e
            BY <2>1, <2>4, <4>2 DEF Consecutive
          <5> QED BY <2>2, <5>1, <5>2
        <4> QED BY <1>1, <4>1, <4>2, OneBefore
      <3>3. b[n][legs[n].dst] >= b[n - 1][legs[n].src] + spend[n]
        <4>1. b[n - 1][legs[n].src] >= 0
          BY <1>6, <2>1, <2>2, <3>2
        <4> QED BY <1>7, <4>1 DEF Relaxed
      <3>4. b[n][legs[n].dst] >= u[n]
        BY <1>6, <2>1, <3>1, <3>2, <3>3
      <3>5. ASSUME NEW m \in p, m <= n, \A e \in p : e <= m \/ n < e PROVE m = n
        BY <2>1, <2>4, <2>7, <3>5
      <3>6. ~(\A e \in p : n < e)
        BY <2>1, <2>7
      <3> QED BY <2>1, <2>2, <2>5, <3>1, <3>4, <3>5, <3>6
    <2> QED BY <2>6, <2>7
  <1>11. top \in Good
    <2>1. \A n \in 0..top : n \in Good
      <3> HIDE DEF Good
      <3> QED BY <1>1, <1>9, <1>10, UpTo
    <2>2. top \in 0..top
      BY <1>1
    <2> HIDE DEF Good
    <2> QED BY <2>1, <2>2
  <1>12. final <= top
    BY <1>1
  <1>13. b[top][legs[final].dst] >= u[top]
    BY <1>3, <1>11, <1>12
  <1>14. b[top][route.dst_slot] \in Int /\ u[top] \in Int /\ b[top][route.dst_slot] >= u[top]
    BY <1>1, <1>3, <1>6, <1>7, <1>8, <1>13
  <1> QED BY <1>4, <1>5, <1>14 DEF AtLeast

\* A path from slot 0 that ends with leg n.
EndsWith(route, q, n) ==
    /\ q \in SUBSET (1..n) /\ n \in q /\ Chained(route, q)

\* A leg out of slot 0 is a path on its own.
LEMMA AloneIs ==
    ASSUME NEW route \in Realized, NEW n \in 1..Len(route.legs), route.legs[n].src = 0,
           NEW g \in [1..Len(route.legs) -> Int]
    PROVE  EndsWith(route, {n}, n) /\ SpentOn({n}, g) = g[n]
  <1> DEFINE top == Len(route.legs)
  <1>1. top \in Nat /\ n \in Int /\ n \in 1..n
    BY LegsAre
  <1>2. EndsWith(route, {n}, n)
    BY <1>1 DEF EndsWith, Chained, Consecutive
  <1>3. {} \in SUBSET (1..n - 1) /\ {} \in SUBSET (1..top)
    OBVIOUS
  <1>4. SpentOn({} \cup {n}, g) = SpentOn({}, g) + g[n]
    BY <1>1, <1>3, SumAdds
  <1>5. SpentOn({}, g) = 0
    <2> HIDE DEF top
    <2> DEFINE zero == [e \in 1..top |-> 0]
    <2>1. zero \in [1..top -> Int] /\ g \in [1..top -> Int]
      BY DEF top
    <2>2. PICK u : AddsUp(u, {}, g, top) /\ SpentOn({}, g) = u[top]
      BY <1>1, <2>1, SpentOnIs
    <2> DEFINE Good == {e \in 0..top : u[e] = 0}
    <2>3. 0 \in Good
      BY <1>1, <2>2 DEF AddsUp
    <2>4. ASSUME NEW e \in 1..top, e - 1 \in Good PROVE e \in Good
      BY <1>1, <2>2, <2>4 DEF AddsUp
    <2>5. \A e \in 0..top : e \in Good
      <3> HIDE DEF Good
      <3> QED BY <1>1, <2>3, <2>4, UpTo
    <2>6. top \in 0..top
      BY <1>1
    <2> QED BY <2>2, <2>5, <2>6
  <1>6. {} \cup {n} = {n}
    OBVIOUS
  <1>7. g[n] \in Int
    BY <1>1
  <1> QED BY <1>2, <1>4, <1>5, <1>6, <1>7

\* With leg n a path spends what leg n spends on top.
AddsTo(route, q, n) ==
    \A g \in [1..Len(route.legs) -> Int] : SpentOn(q \cup {n}, g) = SpentOn(q, g) + g[n]

\* A leg out of the slot where a path ends carries it on.
LEMMA CarriesOn ==
    ASSUME NEW route \in Realized, NEW m \in 1..Len(route.legs), NEW n \in 1..Len(route.legs),
           m < n, NEW q, EndsWith(route, q, m), route.legs[m].dst = route.legs[n].src
    PROVE  /\ EndsWith(route, q \cup {n}, n)
           /\ AddsTo(route, q, n)
  <1> DEFINE more == q \cup {n}
  <1>1. Len(route.legs) \in Nat /\ m \in Int /\ n \in Int
    BY LegsAre
  <1>2. q \in SUBSET (1..m) /\ m \in q /\ Chained(route, q)
    BY DEF EndsWith
  <1>3. \A e \in q : e \in Int /\ 1 <= e /\ e <= m /\ e < n
    BY <1>1, <1>2
  <1>4. q \in SUBSET (1..n - 1)
    BY <1>1, <1>3
  <1>5. ASSUME NEW g \in [1..Len(route.legs) -> Int]
        PROVE  SpentOn(more, g) = SpentOn(q, g) + g[n]
    BY <1>1, <1>4, SumAdds
  <1>6. more \in SUBSET (1..n) /\ n \in more
    BY <1>1, <1>3
  <1>7. ASSUME NEW e \in more, \A j \in more : e <= j PROVE route.legs[e].src = 0
    <2>1. e \in q
      <3>1. e <= m
        BY <1>2, <1>7
      <3> QED BY <1>1, <3>1
    <2> QED BY <1>2, <1>7, <2>1 DEF Chained
  <1>8. ASSUME NEW j \in more, NEW e \in more, Consecutive(more, j, e)
        PROVE  route.legs[j].dst = route.legs[e].src
    <2>1. /\ j \in Int /\ e \in Int /\ j < e
          /\ \A i \in more : i <= j \/ e <= i
      BY <1>1, <1>3, <1>8 DEF Consecutive
    <2>2. j \in q
      BY <1>1, <1>3, <2>1
    <2>3. CASE e \in q
      BY <1>2, <2>1, <2>2, <2>3 DEF Chained, Consecutive
    <2>4. CASE e = n
      <3>1. m <= j \/ n <= m
        BY <1>2, <2>1, <2>4
      <3>2. m = j
        BY <1>1, <1>3, <2>1, <2>2, <3>1
      <3> QED BY <2>4, <3>2
    <2> QED BY <2>3, <2>4
  <1> QED BY <1>5, <1>6, <1>7, <1>8 DEF EndsWith, Chained, AddsTo

\* Where the longest is worth anything, it is the length of a path.
LEMMA SomePathIs ==
    ASSUME NEW route \in Realized, NEW spend \in [1..Len(route.legs) -> Nat],
           Longest(route, spend) > 0
    PROVE  \E p \in Paths(route) : SpentOn(p, spend) = Longest(route, spend)
  <1> DEFINE top == Len(route.legs)
             legs == route.legs
  <1>1. top \in Nat /\ spend \in [1..top -> Int]
    BY LegsAre
  <1>2. PICK b : /\ Deepens(b, route, spend)
                 /\ Longest(route, spend) = AtLeast(0, b[top][route.dst_slot])
    BY LongestIs
  <1>3. /\ \A n \in 1..top : legs[n].src \in Slots(route) /\ legs[n].dst \in Slots(route)
        /\ 0 \in Slots(route) /\ route.dst_slot \in Slots(route)
    BY LegsAre
  <1> HIDE DEF top, legs
  <1>4. /\ \A n \in 0..top : \A slot \in Slots(route) : b[n][slot] \in Int
        /\ b[0] = NothingSpent(route)
        /\ \A n \in 1..top :
              Relaxed(b[n - 1], b[n], legs[n], spend[n], Slots(route))
    BY <1>2 DEF Deepens, Depths, Depth, top, legs
  <1> DEFINE Ways(n, slot, depth) ==
               \/ slot = 0 /\ depth = 0
               \/ \E m \in 1..n : \E q : /\ EndsWith(route, q, m) /\ legs[m].dst = slot
                                         /\ SpentOn(q, spend) = depth
             Good == {n \in 0..top : \A slot \in Slots(route) :
                                        b[n][slot] >= 0 => Ways(n, slot, b[n][slot])}
  <1>5. 0 \in Good
    <2>1. \A slot \in Slots(route) : b[0][slot] = IF slot = 0 THEN 0 ELSE -1
      BY <1>4 DEF NothingSpent, Unreached
    <2>2. \A slot \in Slots(route) : b[0][slot] >= 0 => slot = 0 /\ b[0][slot] = 0
      BY <2>1
    <2>3. \A slot \in Slots(route) : b[0][slot] >= 0 => Ways(0, slot, b[0][slot])
      BY <2>2
    <2> HIDE DEF Ways
    <2> QED BY <1>1, <2>3
  <1>6. ASSUME NEW n \in 1..top, n - 1 \in Good PROVE n \in Good
    <2>1. n \in 0..top /\ n - 1 \in 0..top /\ n \in Int
      BY <1>1
    <2>2. \A slot \in Slots(route) : b[n - 1][slot] >= 0 => Ways(n - 1, slot, b[n - 1][slot])
      <3> HIDE DEF Ways
      <3> QED BY <1>6
    <2>3. ASSUME NEW slot, NEW depth, Ways(n - 1, slot, depth) PROVE Ways(n, slot, depth)
      <3>1. \A m \in 1..n - 1 : m \in 1..n
        BY <2>1
      <3> QED BY <2>3, <3>1
    <2>4. ASSUME NEW slot \in Slots(route), b[n][slot] >= 0 PROVE Ways(n, slot, b[n][slot])
      <3>1. CASE b[n][slot] = b[n - 1][slot]
        <4> HIDE DEF Ways
        <4> QED BY <2>2, <2>3, <2>4, <3>1
      <3>2. CASE slot = legs[n].dst /\ b[n - 1][legs[n].src] >= 0
                 /\ b[n][slot] = b[n - 1][legs[n].src] + spend[n]
        <4> DEFINE from == legs[n].src
        <4>1. from \in Slots(route)
          BY <1>3
        <4>2. Ways(n - 1, from, b[n - 1][from])
          <5> HIDE DEF Ways
          <5> QED BY <2>2, <3>2, <4>1
        <4>3. CASE from = 0 /\ b[n - 1][from] = 0
          <5>1. EndsWith(route, {n}, n) /\ SpentOn({n}, spend) = spend[n]
            BY <1>1, <4>3, AloneIs DEF top, legs
          <5>2. b[n][slot] = spend[n] /\ n \in 1..n
            BY <1>1, <2>1, <3>2, <4>3
          <5> QED BY <3>2, <5>1, <5>2
        <4>4. ASSUME NEW m \in 1..n - 1, NEW q, EndsWith(route, q, m), legs[m].dst = from,
                     SpentOn(q, spend) = b[n - 1][from]
              PROVE  Ways(n, slot, b[n][slot])
          <5>1. m \in 1..top /\ m < n /\ n \in 1..n
            BY <1>1, <2>1
          <5>2. /\ EndsWith(route, q \cup {n}, n)
                /\ SpentOn(q \cup {n}, spend) = SpentOn(q, spend) + spend[n]
            <6>1. /\ m \in 1..Len(route.legs) /\ n \in 1..Len(route.legs) /\ m < n
                  /\ spend \in [1..Len(route.legs) -> Int] /\ EndsWith(route, q, m)
                  /\ route.legs[m].dst = route.legs[n].src
              BY <1>1, <4>4, <5>1 DEF top, legs
            <6> HIDE DEF Ways
            <6>2. EndsWith(route, q \cup {n}, n) /\ AddsTo(route, q, n)
              BY <6>1, CarriesOn
            <6> QED BY <6>1, <6>2 DEF AddsTo
          <5> QED BY <3>2, <4>4, <5>1, <5>2
        <4> QED BY <4>2, <4>3, <4>4
      <3> HIDE DEF Ways
      <3> QED BY <1>4, <3>1, <3>2 DEF Relaxed
    <2> HIDE DEF Ways
    <2> QED BY <2>1, <2>4
  <1>7. top \in Good
    <2>1. \A n \in 0..top : n \in Good
      <3> HIDE DEF Good
      <3> QED BY <1>1, <1>5, <1>6, UpTo
    <2>2. top \in 0..top
      BY <1>1
    <2> HIDE DEF Good
    <2> QED BY <2>1, <2>2
  <1>8. b[top][route.dst_slot] > 0 /\ Longest(route, spend) = b[top][route.dst_slot]
    <2>1. b[top][route.dst_slot] \in Int
      BY <1>1, <1>3, <1>4
    <2> QED BY <1>2, <2>1 DEF AtLeast
  <1>9. Ways(top, route.dst_slot, b[top][route.dst_slot])
    <2>1. b[top][route.dst_slot] >= 0
      BY <1>1, <1>3, <1>4, <1>8
    <2> HIDE DEF Ways
    <2> QED BY <1>3, <1>7, <2>1
  <1>10. PICK m \in 1..top : \E q : /\ EndsWith(route, q, m) /\ legs[m].dst = route.dst_slot
                                    /\ SpentOn(q, spend) = Longest(route, spend)
    BY <1>8, <1>9
  <1>11. PICK q : /\ EndsWith(route, q, m) /\ legs[m].dst = route.dst_slot
                  /\ SpentOn(q, spend) = Longest(route, spend)
    BY <1>10
  <1>12. \A e \in q : e \in 1..top /\ e <= m
    BY <1>1, <1>11 DEF EndsWith
  <1>13. q \in Paths(route)
    BY <1>11, <1>12, IsPath DEF EndsWith, top, legs
  <1> QED BY <1>11, <1>13
----------------------------------------------------------------------------
(* The division.                                                           *)

\* A share of the total for each leg, no more than it is of what the longest spends.
LEMMA ShareOfTotal ==
    ASSUME NEW share \in Nat, NEW total \in Nat, NEW spent \in Positive
    PROVE  /\ (share * total) \div spent \in Nat
           /\ spent * ((share * total) \div spent) <= total * share
           /\ total * share <= spent * ((share * total) \div spent) + (spent - 1)
  <1> DEFINE all == share * total
  <1>1. all \in Nat /\ total * share = all
    BY Commutes, ProductIsNat
  <1> HIDE DEF all
  <1>2. /\ all \div spent \in Nat
        /\ spent * (all \div spent) <= all
        /\ all < spent * (all \div spent) + spent
    BY <1>1, Floor
  <1> DEFINE spread == spent * (all \div spent)
  <1>3. spread \in Int /\ spent \in Int
    BY <1>2, Product DEF Positive
  <1> HIDE DEF spread
  <1>4. all <= spread + (spent - 1)
    BY <1>1, <1>2, <1>3 DEF spread
  <1> QED BY <1>1, <1>2, <1>4 DEF spread, all

LEMMA TimesKeepsOrder ==
    ASSUME NEW c \in Nat, NEW a \in Int, NEW b \in Int, a <= b
    PROVE  c * a <= c * b
  <1>1. c * a = a * c /\ c * b = b * c
    BY Commutes
  <1> QED OBVIOUS

LEMMA DividesThrough ==
    ASSUME NEW c \in Positive, NEW a \in Int, NEW b \in Int, c * a <= c * b
    PROVE  a <= b
  <1>1. SUFFICES ASSUME b + 1 <= a PROVE FALSE
    OBVIOUS
  <1>2. c \in Nat /\ c > 0 /\ c * a \in Int /\ c * b \in Int
    BY Product DEF Positive
  <1>3. c * (b + 1) <= c * a
    BY <1>1, <1>2, TimesKeepsOrder
  <1>4. c * (b + 1) = c * b + c * 1 /\ c * 1 = c
    BY <1>2, Distributes
  <1> DEFINE ca == c * a
             cb == c * b
  <1>5. ca \in Int /\ cb \in Int /\ cb + c <= ca /\ ca <= cb
    BY <1>2, <1>3, <1>4
  <1> HIDE DEF ca, cb
  <1> QED BY <1>2, <1>5

Scaled(share, total, spent, top) == [n \in 1..top |-> (share[n] * total) \div spent]

\* Shares of the longest, scaled to the total: no path is given more than it, and
\* the dearest all of it but for the units its legs round away.
LEMMA FullIs ==
    ASSUME NEW route \in Realized, NEW share \in [1..Len(route.legs) -> Nat],
           NEW total \in Nat, NEW spent, spent = Longest(route, share), spent > 0, spent \in Int
    PROVE  LET full == Scaled(share, total, spent, Len(route.legs))
           IN  /\ full \in [1..Len(route.legs) -> Nat]
               /\ \A p \in Paths(route) : SpentOn(p, full) <= total
               /\ \E p \in Paths(route) : SpentOn(p, full) >= total - Cardinality(p)
  <1> DEFINE top == Len(route.legs)
             part(n) == (share[n] * total) \div spent
             full == [n \in 1..top |-> part(n)]
             one == [n \in 1..top |-> 1]
  <1>1. top \in Nat
    BY LegsAre
  <1>12. PICK zero \in Int : zero = 0
    OBVIOUS
  <1>2. spent \in Positive /\ spent \in Nat /\ total \in Int
    BY DEF Positive
  <1>3. ASSUME NEW n \in 1..top
        PROVE  /\ full[n] \in Nat /\ spent * full[n] <= total * share[n] + zero * share[n]
               /\ total * share[n] <= spent * full[n] + (spent - 1) * one[n]
    <2> DEFINE f == part(n)
    <2>1. share[n] \in Nat
      OBVIOUS
    <2>2. /\ f \in Nat /\ spent * f <= total * share[n]
          /\ total * share[n] <= spent * f + (spent - 1)
      BY <1>2, <2>1, ShareOfTotal
    <2>3. zero * share[n] = 0 /\ (spent - 1) * 1 = spent - 1
      BY <1>2, <1>12, <2>1
    <2>4. full[n] = f /\ one[n] = 1
      OBVIOUS
    <2>5. total * share[n] \in Int
      BY <1>2, <2>1, Product
    <2> HIDE DEF f, full, one, part
    <2> QED BY <2>2, <2>3, <2>4, <2>5
  <1>4. /\ full \in [1..top -> Nat] /\ full \in [1..top -> Int] /\ one \in [1..top -> Int]
        /\ share \in [1..top -> Int]
    <2>1. \A n \in 1..top : part(n) \in Nat
      BY <1>3
    <2> HIDE DEF part
    <2> QED BY <2>1
  <1> HIDE DEF part
  <1>5. ASSUME NEW p \in Paths(route)
        PROVE  /\ p \in SUBSET (1..top) /\ \A n \in p : n \in 1..top
               /\ SpentOn(p, full) \in Int /\ SpentOn(p, share) \in Int
    <2>1. p \in SUBSET (1..top)
      BY PathsAre
    <2>2. \A n \in p : n \in 1..top
      BY <2>1
    <2> HIDE DEF top, full, one
    <2>3. PICK u : AddsUp(u, p, full, top) /\ SpentOn(p, full) = u[top]
      BY <1>1, <1>4, <2>1, SpentOnIs
    <2>4. PICK v : AddsUp(v, p, share, top) /\ SpentOn(p, share) = v[top]
      BY <1>1, <1>4, <2>1, SpentOnIs
    <2>5. top \in 0..top
      BY <1>1
    <2> QED BY <2>1, <2>2, <2>3, <2>4, <2>5 DEF AddsUp
  <1>6. ASSUME NEW p \in Paths(route) PROVE SpentOn(p, full) <= total
    <2>1. SpentOn(p, share) <= spent
      BY NoPathLonger
    <2>2. spent * SpentOn(p, full) <= total * SpentOn(p, share) + zero * SpentOn(p, share)
      <3>1. \A n \in p : spent * full[n] <= total * share[n] + zero * share[n]
        BY <1>3, <1>5
      <3> HIDE DEF full, one, top
      <3> QED BY <1>1, <1>2, <1>4, <1>5, <3>1, SumsCompare
    <2>3. total * SpentOn(p, share) <= total * spent
      BY <1>2, <1>5, <2>1, TimesKeepsOrder, Zenon
    <2>4. /\ total * SpentOn(p, share) \in Int /\ spent * SpentOn(p, full) \in Int
          /\ zero * SpentOn(p, share) = 0 /\ total * spent = spent * total /\ spent * total \in Int
      BY <1>2, <1>5, <1>12, Product, Commutes
    <2> HIDE DEF full, one
    <2>5. spent * SpentOn(p, full) <= spent * total
      BY <2>2, <2>3, <2>4
    <2> QED BY <1>2, <1>5, <2>5, DividesThrough
  <1>7. PICK p \in Paths(route) : SpentOn(p, share) = spent
    BY SomePathIs
  <1>8. /\ SpentOn(p, one) = Cardinality(p) /\ Cardinality(p) \in Nat
    BY <1>1, <1>5, SumCounts
  <1>9. total * spent <= spent * SpentOn(p, full) + (spent - 1) * Cardinality(p)
    <2>1. \A n \in p : total * share[n] <= spent * full[n] + (spent - 1) * one[n]
      BY <1>3, <1>5
    <2>2. spent - 1 \in Int
      BY <1>2
    <2> HIDE DEF full, one, top
    <2>3. total * SpentOn(p, share) <= spent * SpentOn(p, full) + (spent - 1) * SpentOn(p, one)
      BY <1>1, <1>2, <1>4, <1>5, <2>1, <2>2, SumsCompare
    <2> QED BY <1>7, <1>8, <2>3
  <1>10. SpentOn(p, full) >= total - Cardinality(p)
    <2> DEFINE sum == SpentOn(p, full)
               card == Cardinality(p)
    <2>1. sum \in Int /\ card \in Nat
      BY <1>5, <1>8
    <2>2. total * spent <= spent * sum + (spent - 1) * card
      BY <1>9
    <2> HIDE DEF sum, card
    <2>3. /\ (spent - 1) * card = spent * card - card
          /\ spent * (sum + card) = spent * sum + spent * card
          /\ total * spent = spent * total
      <3>1. (spent - 1) * card = card * (spent + (-1))
        BY <1>2, <2>1, Commutes
      <3>2. card * (spent + (-1)) = card * spent + card * (-1)
        BY <1>2, <2>1, Distributes
      <3>3. card * (-1) = -card /\ card * spent = spent * card
        BY <1>2, <2>1, Commutes
      <3>4. spent * (sum + card) = spent * sum + spent * card
        BY <1>2, <2>1, Distributes
      <3>5. total * spent = spent * total /\ spent * card \in Int
        BY <1>2, <2>1, Commutes, Product
      <3> QED BY <2>1, <3>1, <3>2, <3>3, <3>4, <3>5
    <2>4. spent * sum \in Int /\ spent * card \in Int /\ spent * total \in Int
      BY <1>2, <2>1, Product
    <2>5. spent * total <= spent * (sum + card)
      <3> DEFINE a == spent * sum
                 b == spent * card
                 c == spent * total
      <3>1. a \in Int /\ b \in Int /\ c \in Int /\ c <= a + (b - card)
        BY <2>2, <2>3, <2>4
      <3>2. spent * (sum + card) = a + b
        BY <2>3
      <3> HIDE DEF a, b
      <3>3. c <= a + b
        <4> HIDE DEF c
        <4> QED BY <2>1, <3>1
      <3> QED BY <3>2, <3>3
    <2>6. total <= sum + card
      BY <1>2, <2>1, <2>5, DividesThrough
    <2>7. sum >= total - card
      BY <1>2, <2>1, <2>6
    <2> QED BY <2>7 DEF sum, card
  <1> QED BY <1>4, <1>6, <1>10 DEF part, Scaled

\* Scaled around the floors, no leg is given less than its floor.
LEMMA BlendIs ==
    ASSUME NEW top \in Nat, NEW held \in [1..top -> Nat], NEW share \in [1..top -> Nat],
           NEW weight \in Nat
    PROVE  /\ Blend(held, share, weight) \in [1..top -> Nat]
           /\ \A n \in 1..top : Blend(held, share, weight)[n] >= held[n]
           /\ weight = 0 => Blend(held, share, weight) = held
  <1> DEFINE scale == 2 ^ BISECTIONS
             part(n) == (share[n] * weight) \div scale
             blend == [n \in 1..top |-> AtLeast(held[n], part(n))]
  <1>1. scale \in Positive
    BY BisectionAssumption DEF Positive
  <1>2. DOMAIN share = 1..top /\ Blend(held, share, weight) = blend
    BY DEF Blend
  <1> HIDE DEF scale
  <1>3. ASSUME NEW n \in 1..top PROVE part(n) \in Nat /\ (weight = 0 => part(n) = 0)
    <2> DEFINE all == share[n] * weight
    <2>1. share[n] \in Nat
      OBVIOUS
    <2>2. all \in Nat /\ (weight = 0 => all = 0)
      BY <2>1, ProductIsNat
    <2> HIDE DEF all
    <2>3. all \div scale \in Nat
      BY <1>1, <2>2, Floor
    <2>4. 0 \div scale = 0
      <3>1. 0 <= 0 * scale
        BY <1>1 DEF Positive
      <3>2. 0 \div scale \in Nat /\ 0 \div scale <= 0
        BY <1>1, <3>1, Floor, FloorUnder
      <3> QED BY <3>2
    <2> QED BY <2>2, <2>3, <2>4 DEF all
  <1> HIDE DEF part
  <1>4. \A n \in 1..top : held[n] \in Nat
    OBVIOUS
  <1>5. ASSUME NEW n \in 1..top
        PROVE  /\ AtLeast(held[n], part(n)) \in Nat /\ AtLeast(held[n], part(n)) >= held[n]
               /\ weight = 0 => AtLeast(held[n], part(n)) = held[n]
    BY <1>3, <1>4 DEF AtLeast
  <1>6. blend \in [1..top -> Nat] /\ \A n \in 1..top : blend[n] >= held[n]
    BY <1>5
  <1>7. weight = 0 => blend = held
    BY <1>5
  <1> HIDE DEF blend
  <1> QED BY <1>2, <1>6, <1>7

\* What the bisection settles on: a scale no path overspends at.
LEMMA SettledIs ==
    ASSUME NEW route \in Realized, NEW held \in [1..Len(route.legs) -> Nat],
           NEW share \in [1..Len(route.legs) -> Nat], NEW total \in Nat,
           Longest(route, held) <= total
    PROVE  LET settled == Settled(route, held, share, total)
           IN  /\ settled \in [1..Len(route.legs) -> Nat]
               /\ \A n \in 1..Len(route.legs) : settled[n] >= held[n]
               /\ Longest(route, settled) <= total
  <1> DEFINE scale == 2 ^ BISECTIONS
             fits == {weight \in 0..scale - 1 :
                        Longest(route, Blend(held, share, weight)) <= total}
             most == CHOOSE v \in fits : \A t \in fits : t <= v
  <1>1. Len(route.legs) \in Nat /\ scale \in Nat /\ scale - 1 \in Nat
    BY LegsAre, BisectionAssumption
  <1>2. Settled(route, held, share, total) = Blend(held, share, most)
    BY DEF Settled
  <1> HIDE DEF scale
  <1>3. 0 \in fits
    <2>1. Blend(held, share, 0) = held
      BY <1>1, BlendIs
    <2> QED BY <1>1, <2>1
  <1>4. fits \in SUBSET (0..scale - 1) /\ fits # {}
    BY <1>3
  <1>5. \A v \in fits : v \in Nat /\ Longest(route, Blend(held, share, v)) <= total
    BY <1>1
  <1> HIDE DEF fits, most
  <1>6. most \in fits
    <2>1. \E v \in fits : \A t \in fits : t <= v
      <3>1. \A v \in fits : v \in Nat /\ v <= scale - 1
        BY <1>1, <1>4
      <3>2. Max(fits) \in fits /\ \A t \in fits : t <= Max(fits)
        BY <1>1, <1>4, <3>1, EndsOf
      <3> QED BY <3>2
    <2> QED BY <2>1 DEF most
  <1>7. most \in Nat /\ Longest(route, Blend(held, share, most)) <= total
    BY <1>5, <1>6
  <1>8. /\ Blend(held, share, most) \in [1..Len(route.legs) -> Nat]
        /\ \A n \in 1..Len(route.legs) : Blend(held, share, most)[n] >= held[n]
    BY <1>1, <1>7, BlendIs
  <1> QED BY <1>2, <1>7, <1>8

Solved(raw, top) == raw = NaN \/ raw \in [1..top -> Int]

\* What the legs run backwards are owed on their own.
Owed(raw, grant, top) ==
    [n \in 1..top |-> IF n \in Backwards(raw) THEN AtLeast(-raw[n], grant[n]) ELSE 0]

LEMMA DivideIs ==
    ASSUME NEW route \in Realized, NEW raw, Solved(raw, Len(route.legs)),
           NEW grant \in [1..Len(route.legs) -> Nat], NEW total \in Nat
    PROVE  LET divided == Divide(route, raw, grant, total)
               owed == Owed(raw, grant, Len(route.legs))
           IN  /\ divided \in [1..Len(route.legs) -> Nat]
               /\ owed \in [1..Len(route.legs) -> Nat]
               /\ \A n \in 1..Len(route.legs) : divided[n] >= owed[n]
               /\ (\A p \in Paths(route) : SpentOn(p, divided) <= total) \/ divided = owed
               /\ Backwards(raw) = {} /\ Paths(route) # {} =>
                     \E p \in Paths(route) : SpentOn(p, divided) >= total - Cardinality(p)
  <1> DEFINE top == Len(route.legs)
             drop == IF raw = NaN THEN grant ELSE raw
             held == Backstops(drop, grant)
             ahead == [n \in 1..top |-> AtLeast(0, drop[n])]
             even == [n \in 1..top |-> 1]
             share == IF Longest(route, ahead) > 0 THEN ahead ELSE even
             spent == Longest(route, share)
             full == [n \in 1..top |-> (share[n] * total) \div spent]
             divided == Divide(route, raw, grant, total)
             owed == Owed(raw, grant, top)
  <1>1. top \in Nat
    BY LegsAre
  <1>2. drop \in [1..top -> Int] /\ DOMAIN drop = 1..top
    BY DEF Solved
  <1>3. divided = IF spent = 0 THEN held
                  ELSE IF \A n \in DOMAIN held : held[n] = 0 THEN full
                  ELSE IF Longest(route, held) >= total THEN held
                  ELSE Settled(route, held, full, total)
    BY <1>2 DEF Divide
  <1> HIDE DEF divided, spent, full, held, ahead, even, drop, owed, top
  <1>4. held = owed /\ held \in [1..top -> Nat]
    <2>1. held = [n \in 1..top |-> IF drop[n] < 0 THEN AtLeast(-drop[n], grant[n]) ELSE 0]
      BY <1>2 DEF held, Backstops
    <2>2. \A n \in 1..top : drop[n] \in Int /\ grant[n] \in Nat
      BY <1>2 DEF top
    <2>3. \A n \in 1..top : drop[n] < 0 => AtLeast(-drop[n], grant[n]) \in Nat
      BY <2>2 DEF AtLeast
    <2>4. held \in [1..top -> Nat]
      BY <2>1, <2>3
    <2>5. ASSUME NEW n \in 1..top
          PROVE  (IF drop[n] < 0 THEN AtLeast(-drop[n], grant[n]) ELSE 0)
                   = IF n \in Backwards(raw) THEN AtLeast(-raw[n], grant[n]) ELSE 0
      <3>1. CASE raw = NaN
        <4>1. drop = grant /\ ~(drop[n] < 0) /\ n \notin Backwards(raw)
          BY <2>2, <3>1 DEF drop, Backwards
        <4> QED BY <4>1
      <3>2. CASE raw # NaN
        <4>1. drop = raw /\ raw \in [1..top -> Int]
          BY <3>2 DEF drop, Solved, top
        <4>2. n \in Backwards(raw) <=> raw[n] < 0
          BY <3>2, <4>1 DEF Backwards
        <4> QED BY <4>1, <4>2
      <3> QED BY <3>1, <3>2
    <2>6. held = owed
      BY <2>1, <2>5 DEF owed, Owed
    <2> QED BY <2>4, <2>6
  <1>5. ahead \in [1..top -> Nat] /\ even \in [1..top -> Nat] /\ \A n \in 1..top : even[n] = 1
    <2>1. \A n \in 1..top : AtLeast(0, drop[n]) \in Nat
      BY <1>2 DEF AtLeast
    <2> QED BY <2>1 DEF ahead, even
  <1>6. share \in [1..top -> Nat]
    BY <1>5
  <1>7. spent \in Nat
    BY <1>6, LongestIsNat DEF spent, top
  <1>8. ASSUME spent > 0
        PROVE  /\ full \in [1..top -> Nat]
               /\ \A p \in Paths(route) : SpentOn(p, full) <= total
               /\ \E p \in Paths(route) : SpentOn(p, full) >= total - Cardinality(p)
    <2> HIDE DEF share
    <2>1. spent = Longest(route, share) /\ spent \in Int
      BY <1>7 DEF spent
    <2>2. share \in [1..Len(route.legs) -> Nat]
      BY <1>6 DEF top
    <2>3. full = Scaled(share, total, spent, Len(route.legs))
      BY DEF full, top, Scaled
    <2> DEFINE fuller == Scaled(share, total, spent, Len(route.legs))
    <2>4. /\ fuller \in [1..Len(route.legs) -> Nat]
          /\ \A p \in Paths(route) : SpentOn(p, fuller) <= total
          /\ \E p \in Paths(route) : SpentOn(p, fuller) >= total - Cardinality(p)
      BY <1>8, <2>1, <2>2, FullIs, Zenon
    <2> QED BY <2>3, <2>4 DEF top
  <1>9. ASSUME NEW p \in Paths(route) PROVE spent > 0
    <2>1. CASE Longest(route, ahead) > 0
      BY <2>1 DEF spent
    <2>2. CASE ~(Longest(route, ahead) > 0)
      <3>1. spent = Longest(route, even)
        BY <2>2 DEF spent
      <3>2. SpentOn(p, even) <= Longest(route, even)
        BY <1>5, NoPathLonger DEF top
      <3>3. p \in SUBSET (1..top) /\ p # {}
        BY PathsAre DEF top
      <3>4. PICK n \in p : n \in 1..top
        BY <3>3
      <3>5. SpentOn(p, even) \in Nat /\ even[n] <= SpentOn(p, even)
        BY <1>1, <1>5, <3>3, SumHolds
      <3> QED BY <1>5, <1>7, <3>1, <3>2, <3>4, <3>5
    <2> QED BY <2>1, <2>2
  <1>10. /\ divided \in [1..top -> Nat]
         /\ \A n \in 1..top : divided[n] >= owed[n]
         /\ (\A p \in Paths(route) : SpentOn(p, divided) <= total) \/ divided = owed
    <2> HIDE DEF share
    <2>1. \A n \in 1..top : owed[n] \in Nat
      BY <1>4
    <2>2. CASE divided = held
      BY <1>4, <2>1, <2>2
    <2>3. CASE spent # 0 /\ \A n \in 1..top : held[n] = 0
      <3>1. divided = full /\ spent > 0
        BY <1>3, <1>4, <1>7, <2>3
      <3>2. full \in [1..top -> Nat] /\ \A n \in 1..top : full[n] >= owed[n]
        BY <1>4, <1>8, <2>3, <3>1
      <3> QED BY <1>8, <3>1, <3>2
    <2>4. CASE /\ spent # 0 /\ Longest(route, held) < total
               /\ divided = Settled(route, held, full, total)
      <3>1. full \in [1..top -> Nat]
        BY <1>7, <1>8, <2>4
      <3>2. Longest(route, held) <= total /\ Longest(route, held) \in Nat
        BY <1>4, <2>4, LongestIsNat DEF top
      <3>3. /\ divided \in [1..top -> Nat] /\ \A n \in 1..top : divided[n] >= held[n]
            /\ Longest(route, divided) <= total
        BY <1>4, <2>4, <3>1, <3>2, SettledIs DEF top
      <3>4. Longest(route, divided) \in Nat
        BY <3>3, LongestIsNat DEF top
      <3>5. ASSUME NEW p \in Paths(route) PROVE SpentOn(p, divided) <= total
        <4>1. SpentOn(p, divided) <= Longest(route, divided)
          BY <3>3, NoPathLonger DEF top
        <4>2. SpentOn(p, divided) \in Nat
          <5>1. p \in SUBSET (1..top) /\ p # {}
            BY PathsAre DEF top
          <5>2. PICK n \in p : n \in 1..top
            BY <5>1
          <5> QED BY <1>1, <3>3, <5>1, <5>2, SumHolds
        <4> QED BY <3>3, <3>4, <4>1, <4>2
      <3> QED BY <1>4, <3>3, <3>5
    <2>5. DOMAIN held = 1..top /\ Longest(route, held) \in Nat
      BY <1>4, LongestIsNat DEF top
    <2> QED BY <1>3, <2>2, <2>3, <2>4, <2>5
  <1>11. ASSUME Backwards(raw) = {}, NEW q \in Paths(route)
         PROVE  \E p \in Paths(route) : SpentOn(p, divided) >= total - Cardinality(p)
    <2>1. \A n \in DOMAIN held : held[n] = 0
      BY <1>4, <1>11 DEF owed, Owed
    <2>2. spent > 0
      BY <1>9
    <2>3. divided = full
      BY <1>3, <1>7, <2>1, <2>2
    <2> QED BY <1>8, <2>2, <2>3
  <1> QED BY <1>4, <1>10, <1>11 DEF divided, owed, top

\* `divide` and `min_rates` (core/slippage.py:123, core/routecall.py:345).  A budget is
\* spent once, whatever the route is, whatever the network solve made of it.
THEOREM BudgetIsOnce ==
    ASSUME NEW route \in Realized, NEW raw, Solved(raw, Len(route.legs)), NEW total \in Nat
    PROVE  SpentOnce(route, raw, total)
  <1> DEFINE top == Len(route.legs)
             back == Backwards(raw)
             grant == [n \in 1..top |-> Tolerance(route.legs[n], {})]
             owed == Owed(raw, grant, top)
             divided == Divide(route, raw, grant, total)
             spend == Widen(raw, divided, total)
             granted == NamedGrants(route, {}, raw, total)
             past == [n \in 1..top |-> IF granted[n] > FLOOR THEN granted[n] ELSE 0]
  <1>1. /\ top \in Nat /\ DOMAIN route.legs = 1..top
        /\ \A n \in 1..top : route.legs[n] \in RouteLeg
    BY LegsAre
  <1>2. FLOOR \in Nat /\ SHARE_ONE \in Nat /\ SHARE_ONE > 0
    BY ScaleAssumption
  <1>3. grant \in [1..top -> Nat]
    <2>1. ASSUME NEW n \in 1..top PROVE Tolerance(route.legs[n], {}) \in Nat
      <3>1. Tolerance(route.legs[n], {}) \in 0..SHARE_ONE
        BY <1>1, ToleranceIs
      <3> QED BY <1>2, <3>1
    <2> QED BY <2>1
  <1>4. granted = [n \in 1..top |-> AtMost(SHARE_ONE, AtLeast(spend[n], FLOOR))]
    BY <1>1 DEF NamedGrants, MovementFloor
  <1>5. SpentOnce(route, raw, total) =
          /\ (\A p \in Paths(route) : SpentOn(p, divided) <= total) \/ divided = owed
          /\ \A p \in Paths(route) : p \cap back = {} => SpentOn(p, past) <= total
          /\ \A n \in back : granted[n] >= AtMost(SHARE_ONE, AtLeast(total, owed[n]))
          /\ back = {} /\ Paths(route) # {} =>
                \E p \in Paths(route) :
                   SpentOn(p, granted) >= AtMost(SHARE_ONE, total) - Cardinality(p)
    <2> HIDE DEF top
    <2> QED BY <1>1 DEF SpentOnce, Owed
  <1> HIDE DEF grant, granted
  <1>6. /\ divided \in [1..top -> Nat] /\ owed \in [1..top -> Nat]
        /\ \A n \in 1..top : divided[n] >= owed[n]
        /\ (\A p \in Paths(route) : SpentOn(p, divided) <= total) \/ divided = owed
        /\ back = {} /\ Paths(route) # {} =>
              \E p \in Paths(route) : SpentOn(p, divided) >= total - Cardinality(p)
    BY <1>3, DivideIs
  <1>7. back \subseteq 1..top
    BY DEF Backwards, Solved
  <1> HIDE DEF back, owed, divided, top
  <1>8. spend = [n \in 1..top |-> IF n \in back THEN AtLeast(divided[n], total) ELSE divided[n]]
    BY <1>6 DEF Widen, back
  <1>9. /\ \A n \in 1..top : divided[n] \in Nat /\ owed[n] \in Nat
        /\ \A n \in 1..top : owed[n] = IF n \in back THEN AtLeast(-raw[n], grant[n]) ELSE 0
    BY <1>6 DEF owed, Owed, back
  <1> HIDE DEF spend
  <1>10. ASSUME NEW n \in 1..top
         PROVE  /\ granted[n] = AtMost(SHARE_ONE, AtLeast(spend[n], FLOOR))
                /\ spend[n] \in Nat /\ spend[n] >= divided[n] /\ granted[n] \in Nat
                /\ n \in back => spend[n] >= total
                /\ n \notin back => spend[n] = divided[n]
    <2>1. /\ granted[n] = AtMost(SHARE_ONE, AtLeast(spend[n], FLOOR))
          /\ spend[n] = IF n \in back THEN AtLeast(divided[n], total) ELSE divided[n]
      BY <1>4, <1>8
    <2>2. spend[n] \in Nat /\ spend[n] >= divided[n] /\ (n \in back => spend[n] >= total)
      BY <1>9, <2>1 DEF AtLeast
    <2>3. granted[n] \in Nat
      BY <1>2, <2>1, <2>2 DEF AtLeast, AtMost
    <2> QED BY <2>1, <2>2, <2>3
  <1>11. granted \in [1..top -> Nat] /\ granted \in [1..top -> Int]
    BY <1>4, <1>10
  <1>12. past \in [1..top -> Int]
    BY <1>11
  <1>13. ASSUME NEW p \in Paths(route) PROVE p \in SUBSET (1..top) /\ p # {}
    BY PathsAre DEF top
  <1>14. ASSUME NEW n \in back
         PROVE  granted[n] >= AtMost(SHARE_ONE, AtLeast(total, owed[n]))
    <2>1. n \in 1..top
      BY <1>7
    <2>2. /\ spend[n] \in Nat /\ spend[n] >= divided[n] /\ spend[n] >= total
          /\ divided[n] >= owed[n] /\ divided[n] \in Nat /\ owed[n] \in Nat
          /\ granted[n] = AtMost(SHARE_ONE, AtLeast(spend[n], FLOOR))
      BY <1>6, <1>9, <1>10, <1>14, <2>1
    <2> QED BY <1>2, <2>2 DEF AtLeast, AtMost
  <1>15. ASSUME NEW p \in Paths(route), p \cap back = {} PROVE SpentOn(p, past) <= total
    <2>1. ASSUME NEW n \in p PROVE n \in 1..top /\ n \notin back /\ past[n] <= divided[n]
      <3>1. n \in 1..top /\ n \notin back
        BY <1>13, <1>15
      <3>2. /\ granted[n] = AtMost(SHARE_ONE, AtLeast(divided[n], FLOOR))
            /\ past[n] = IF granted[n] > FLOOR THEN granted[n] ELSE 0
            /\ divided[n] \in Nat
        BY <1>9, <1>10, <3>1
      <3>3. past[n] <= divided[n]
        BY <1>2, <3>2 DEF AtLeast, AtMost
      <3> QED BY <3>1, <3>3
    <2> HIDE DEF past
    <2>2. PICK zero \in Int : zero = 0
      OBVIOUS
    <2>3. PICK unit \in Int : unit = 1
      OBVIOUS
    <2>4. divided \in [1..top -> Int] /\ p \in SUBSET (1..top) /\ \A n \in p : past[n] \in Int
      BY <1>6, <1>12, <1>13, <2>1
    <2>5. CASE \A q \in Paths(route) : SpentOn(q, divided) <= total
      <3>1. \A n \in p : unit * past[n] <= unit * divided[n] + zero * divided[n]
        BY <1>9, <2>1, <2>2, <2>3, <2>4
      <3>2. /\ SpentOn(p, past) \in Int /\ SpentOn(p, divided) \in Int
            /\ unit * SpentOn(p, past) <= unit * SpentOn(p, divided) + zero * SpentOn(p, divided)
        BY <1>1, <1>12, <2>4, <3>1, SumsCompare
      <3>3. SpentOn(p, divided) <= total
        BY <2>5
      <3> QED BY <2>2, <2>3, <3>2, <3>3
    <2>6. CASE divided = owed
      <3>1. ASSUME NEW n \in p
            PROVE  unit * past[n] <= zero * divided[n] + zero * divided[n]
        <4>1. divided[n] = 0 /\ past[n] <= divided[n] /\ past[n] \in Int
          BY <1>9, <2>1, <2>4, <2>6
        <4> QED BY <2>2, <2>3, <4>1
      <3>2. /\ SpentOn(p, past) \in Int /\ SpentOn(p, divided) \in Int
            /\ unit * SpentOn(p, past) <= zero * SpentOn(p, divided) + zero * SpentOn(p, divided)
        BY <1>1, <1>12, <2>4, <3>1, SumsCompare
      <3> QED BY <2>2, <2>3, <3>2
    <2> QED BY <1>6, <2>5, <2>6
  <1>16. ASSUME back = {}, Paths(route) # {}
         PROVE  \E p \in Paths(route) :
                   SpentOn(p, granted) >= AtMost(SHARE_ONE, total) - Cardinality(p)
    <2>1. PICK p \in Paths(route) : SpentOn(p, divided) >= total - Cardinality(p)
      BY <1>6, <1>16
    <2>2. p \in SUBSET (1..top) /\ \A n \in p : n \in 1..top
      BY <1>13
    <2>3. Cardinality(p) \in Nat
      BY <1>1, <2>2, SumCounts
    <2>4. SpentOn(p, granted) \in Nat
      <3>1. PICK n \in p : TRUE
        BY <1>13
      <3> QED BY <1>1, <1>11, <2>2, <3>1, SumHolds
    <2>5. CASE \E n \in p : divided[n] >= SHARE_ONE
      <3>1. PICK n \in p : divided[n] >= SHARE_ONE
        BY <2>5
      <3>2. granted[n] = SHARE_ONE
        BY <1>2, <1>9, <1>10, <2>2, <3>1 DEF AtMost, AtLeast
      <3>3. granted[n] <= SpentOn(p, granted)
        BY <1>1, <1>11, <2>2, <3>1, SumHolds
      <3> QED BY <1>2, <2>3, <2>4, <3>2, <3>3 DEF AtMost
    <2>6. CASE \A n \in p : ~(divided[n] >= SHARE_ONE)
      <3>1. ASSUME NEW n \in p PROVE divided[n] <= granted[n]
        <4>1. /\ divided[n] \in Nat /\ ~(divided[n] >= SHARE_ONE) /\ spend[n] = divided[n]
              /\ granted[n] = AtMost(SHARE_ONE, AtLeast(spend[n], FLOOR))
          BY <1>9, <1>10, <1>16, <2>2, <2>6
        <4> QED BY <1>2, <4>1 DEF AtMost, AtLeast
      <3>2. PICK zero \in Int : zero = 0
        OBVIOUS
      <3>3. PICK unit \in Int : unit = 1
        OBVIOUS
      <3>4. divided \in [1..top -> Int]
        BY <1>6
      <3>5. ASSUME NEW n \in p
            PROVE  unit * divided[n] <= unit * granted[n] + zero * granted[n]
        <4>1. divided[n] <= granted[n] /\ divided[n] \in Int /\ granted[n] \in Int
          BY <1>11, <2>2, <3>1, <3>4
        <4> QED BY <3>2, <3>3, <4>1
      <3>6. /\ SpentOn(p, granted) \in Int /\ SpentOn(p, divided) \in Int
            /\ unit * SpentOn(p, divided)
                 <= unit * SpentOn(p, granted) + zero * SpentOn(p, granted)
        BY <1>1, <1>11, <2>2, <3>4, <3>5, SumsCompare
      <3>7. SpentOn(p, divided) <= SpentOn(p, granted)
        BY <3>2, <3>3, <3>6
      <3>8. SpentOn(p, divided) \in Int
        BY <3>6
      <3>9. AtMost(SHARE_ONE, total) \in Int /\ AtMost(SHARE_ONE, total) <= total
        BY <1>2 DEF AtMost
      <3> QED BY <2>1, <2>3, <2>4, <3>7, <3>8, <3>9
    <2> QED BY <2>5, <2>6
  <1> HIDE DEF past
  <1> QED BY <1>5, <1>6, <1>14, <1>15, <1>16

\* A budget of any size, on what the network solve makes of any legs.
BudgetMarket == {A, B} \subseteq Token /\ x \in Pool /\ Drops \subseteq Int /\ Totals \subseteq Nat

LEMMA NetworksAre ==
    ASSUME BudgetMarket, NEW legs \in Networks
    PROVE  legs \in Seq(RouteLeg) /\ DOMAIN legs = 1..Len(legs)
  <1>1. ASSUME NEW from \in 0..3, NEW to \in 0..3
        PROVE  Cheap(from, to) \in RouteLeg /\ Dear(from, to) \in RouteLeg
    <2>1. SHARE_ONE \in Figures /\ NaN \in Figures /\ 60 \in Figures
      BY ScaleAssumption DEF Figures
    <2>2. "SWAP_STABLE" \in Kind /\ A \in Token /\ B \in Token /\ x \in Pool
      BY DEF Kind, SwapKinds, BudgetMarket
    <2>3. from \in Nat /\ to \in Nat
      OBVIOUS
    <2>4. Cheap(from, to) \in RouteLeg
      BY <2>1, <2>2, <2>3 DEF Cheap, Leg, RouteLeg, Figures
    <2>5. Dear(from, to) = [Cheap(from, to) EXCEPT !.fee_floor = 60]
      BY DEF Dear, Cheap
    <2>6. Dear(from, to) \in RouteLeg
      BY <2>1, <2>4, <2>5 DEF RouteLeg, Figures
    <2> QED BY <2>4, <2>6
  <1>2. /\ 0 \in 0..3 /\ 1 \in 0..3 /\ 2 \in 0..3 /\ 3 \in 0..3
    OBVIOUS
  <1>3. <<Cheap(0, 1), Dear(1, 3), Dear(0, 3)>> \in Seq(RouteLeg)
    BY <1>1, <1>2
  <1>4. <<Cheap(0, 1), Dear(0, 1), Dear(1, 3)>> \in Seq(RouteLeg)
    BY <1>1, <1>2
  <1>5. <<Cheap(0, 1), Dear(0, 2), Cheap(1, 2), Dear(1, 3), Cheap(2, 3)>> \in Seq(RouteLeg)
    BY <1>1, <1>2
  <1>6. <<Dear(2, 1), Cheap(0, 1), Dear(1, 3)>> \in Seq(RouteLeg)
    BY <1>1, <1>2
  <1>7. legs \in Seq(RouteLeg)
    BY <1>3, <1>4, <1>5, <1>6 DEF Networks
  <1> QED BY <1>7

LEMMA BudgetsStay == EncodingSpec => [](about = "budget" => given \in Budgets)
  <1>1. EncodingInit => (about = "budget" => given \in Budgets)
    BY DEF EncodingInit, QuoteInit, SplitInit, CallInit, BudgetInit
  <1>2. (about = "budget" => given \in Budgets) /\ [Keep]_<<about, given>>
          => (about = "budget" => given \in Budgets)'
    BY DEF Keep
  <1> QED
    BY <1>1, <1>2, PTL DEF EncodingSpec

\* `divide` and `min_rates` (core/slippage.py, core/routecall.py).  A budget of any size is
\* spent once on a route that branches and merges, whatever the network solve returned: the
\* run checks it on a handful of budgets, and BudgetIsOnce is the same of every route.
THEOREM BudgetSpentOnce ==
    ASSUME BudgetMarket
    PROVE  EncodingSpec => []BudgetIsSpentOnce
  <1>1. (about = "budget" => given \in Budgets) => BudgetIsSpentOnce
    <2> SUFFICES ASSUME given \in Budgets
                 PROVE  SpentOnce(given.route, given.raw, given.total)
      BY DEF BudgetIsSpentOnce
    <2>1. PICK legs \in Networks :
            \E raw \in [DOMAIN legs -> Drops] \cup {NaN}, total \in Totals :
               given = [route |-> [amount_in |-> 1, dst_slot |-> 3, legs |-> legs],
                        raw |-> raw, total |-> total]
      BY DEF Budgets
    <2>2. PICK raw \in [DOMAIN legs -> Drops] \cup {NaN}, total \in Totals :
            given = [route |-> [amount_in |-> 1, dst_slot |-> 3, legs |-> legs],
                     raw |-> raw, total |-> total]
      BY <2>1
    <2>3. legs \in Seq(RouteLeg) /\ DOMAIN legs = 1..Len(legs)
      BY NetworksAre
    <2> DEFINE route == [amount_in |-> 1, dst_slot |-> 3, legs |-> legs]
    <2>4. route \in Realized /\ route.legs = legs
      BY <2>3 DEF Realized
    <2>5. total \in Nat /\ Solved(raw, Len(legs))
      BY <2>3 DEF BudgetMarket, Solved
    <2>6. given.route = route /\ given.raw = raw /\ given.total = total
      BY <2>2
    <2> HIDE DEF route
    <2> QED BY <2>4, <2>5, <2>6, BudgetIsOnce
  <1> QED BY <1>1, BudgetsStay, PTL

=============================================================================

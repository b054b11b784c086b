------------------------ MODULE RouteExecutor_proofs ------------------------
(* RouteExecutor implements RouteWalk, for every call and every pool.       *)
EXTENDS RouteExecutor, TLAPS

\* Tokens that move what they are told to, and routes as they are encoded: one
\* slot a token, an output that is not the input, legs that go somewhere, and
\* ether sent or staked only where it is the token of the slot.
Tidy ==
    /\ FeeOnTransfer = {} /\ RoundsDown = {}
    /\ \A c \in Calls :
          /\ RouteOf(c) # NoCall
          /\ c.tokens # <<>> /\ c.dst_slot # 0
          /\ \A i, j \in DOMAIN c.tokens : c.tokens[i] = c.tokens[j] => i = j
          /\ c.tokens[1] # NATIVE => c.value = 0
          /\ \A m \in DOMAIN c.legs :
                LET l == c.legs[m] IN
                /\ l.src # l.dst
                /\ l.kind = "STAKE_NATIVE" /\ l.src < Len(c.tokens) =>
                      c.tokens[l.src + 1] = NATIVE

Wallets == [Account -> [Token -> Int]]

Typed ==
    /\ ledger \in Wallets /\ snapshot[1] \in Wallets
    /\ pc \in {"idle", "leg", "sweep"}
    /\ pc = "idle" => call = NoCall /\ k = 1 /\ bal = Nothing /\ cur = NoSlot /\ base = 0
    /\ pc # "idle" => call \in Calls
    /\ k \in Nat \ {0}
    /\ bal \in [Slot -> Int]
    /\ base \in Int /\ produced \in Int /\ opening \in Int /\ s \in Nat

\* While legs run the books are the growth of the holdings, slot by slot, and the
\* destination opened on what was there before; afterwards the answer is in them.
Measured ==
    /\ pc # "idle" => call.dst_slot < Len(call.tokens)
    /\ pc = "leg" =>
          /\ opening = snapshot[1][Router][DstToken]
          /\ \A slot \in Slot : bal[slot] = Net(slot)
    /\ pc = "sweep" => k > Len(call.legs) /\ produced = bal[call.dst_slot]

IInv == Typed /\ Measured

----------------------------------------------------------------------------
(* Movements, and the amounts of a leg.                                    *)

LEMMA MoveTyped ==
    ASSUME NEW w \in Wallets, NEW from, NEW to, NEW t, NEW out \in Int, NEW in \in Int
    PROVE  Move(w, from, to, t, out, in) \in Wallets
BY DEF Move, Wallets

LEMMA RouterKnown == Router \in Account /\ \A u \in User : u \in Account /\ u # Router
BY ConstantAssumption DEF Account

\* What a call in flight says of itself.
LEMMA CallKnown ==
    ASSUME NEW c \in Calls
    PROVE  /\ c.sender \in User /\ c.value \in Nat /\ c.amount_in \in Nat /\ c.min_out \in Nat
           /\ c.tokens \in Seq(Token) /\ c.dst_slot \in Slot /\ Len(c.tokens) <= MAX_SLOTS
           /\ Len(c.legs) \in Nat /\ DOMAIN c.legs = 1..Len(c.legs)
           /\ \A m \in DOMAIN c.legs :
                c.legs[m].src \in Slot /\ c.legs[m].dst \in Slot /\ c.legs[m].bps \in Int
<1>1. Len(c.legs) \in Nat /\ DOMAIN c.legs = 1..Len(c.legs)
  BY CallAssumption
<1>2. \A m \in DOMAIN c.legs :
         c.legs[m].src \in Slot /\ c.legs[m].dst \in Slot /\ c.legs[m].bps \in Int
  <2> DEFINE Legs == [target : Pool, kind : STRING, src : Slot, dst : Slot, bps : 0..BPS]
  <2>1. c.legs \in Seq(Legs)
    BY CallAssumption
  <2>2. \A m \in DOMAIN c.legs : c.legs[m] \in Legs
    <3> HIDE DEF Legs
    <3> QED BY <2>1
  <2> QED BY <2>2, ConstantAssumption
<1> QED BY <1>1, <1>2, CallAssumption

----------------------------------------------------------------------------
(* The books are the growth of the holdings.                               *)

LEMMA InitHolds == Init => IInv
BY ConstantAssumption DEF Init, IInv, Typed, Measured, Idle, Wallets, Nothing, Slot, Account

\* The pull moves the amount, from the sender to the contract.
LEMMA PullMoves ==
    ASSUME Tidy, IInv, NEW c \in Calls, Execute(c)
    PROVE  /\ ledger' \in Wallets
           /\ \A t \in Token :
                LET x == IF t = c.tokens[1] THEN c.amount_in ELSE 0 IN
                /\ ledger'[Router][t] = ledger[Router][t] + x
                /\ ledger'[c.sender][t] = ledger[c.sender][t] - x
<1> DEFINE Moved(t) ==
       LET x == IF t = c.tokens[1] THEN c.amount_in ELSE 0 IN
       /\ ledger'[Router][t] = ledger[Router][t] + x
       /\ ledger'[c.sender][t] = ledger[c.sender][t] - x
<1>1. PICK debit \in Debited(c.tokens[1], c.amount_in) :
        \E credit \in Credited(c.tokens[1], debit) : ledger' = Pull(c, debit, credit)
  BY DEF Execute
<1>2. ledger' = Pull(c, c.amount_in, c.amount_in)
  BY <1>1 DEF Tidy, Debited, Credited
<1>3. c.amount_in \in Int /\ c.value \in Int /\ c.sender \in Account /\ c.sender # Router
  BY CallKnown, RouterKnown
<1>4. ledger' \in Wallets
  BY <1>2, <1>3, MoveTyped DEF Pull, IInv, Typed
<1>5. \A t \in Token : ledger[Router][t] \in Int /\ ledger[c.sender][t] \in Int
  BY <1>3, RouterKnown DEF IInv, Typed, Wallets
<1>6. \A t \in Token : Moved(t)
  <2>1. CASE c.tokens[1] = NATIVE
    <3>1. c.value = c.amount_in
      BY <2>1 DEF Execute, Accepts
    <3>2. ledger' = Move(ledger, c.sender, Router, NATIVE, c.amount_in, c.amount_in)
      BY <1>2, <2>1, <3>1 DEF Pull
    <3> QED BY <2>1, <3>2, <1>3, <1>5, RouterKnown DEF Move
  <2>2. CASE c.tokens[1] # NATIVE
    <3>1. c.value = 0
      BY <2>2 DEF Tidy
    <3> DEFINE w == Move(ledger, c.sender, Router, NATIVE, 0, 0)
    <3>2. ledger' = Move(w, c.sender, Router, c.tokens[1], c.amount_in, c.amount_in)
      BY <1>2, <2>2, <3>1 DEF Pull
    <3>3. \A t \in Token : w[Router][t] = ledger[Router][t] /\ w[c.sender][t] = ledger[c.sender][t]
      <4>1. \A x \in Int : x - 0 + 0 = x
        OBVIOUS
      <4>2. \A a \in Account, t \in Token : w[a][t] = ledger[a][t] - 0 + 0
        BY DEF Move
      <4> QED BY <4>1, <4>2, <1>3, <1>5, RouterKnown
    <3> HIDE DEF w
    <3> QED BY <3>2, <3>3, <1>3, <1>5, RouterKnown DEF Move
  <2> QED BY <2>1, <2>2
<1> QED BY <1>4, <1>6

\* The call opens on what it brought in.
LEMMA ExecuteHolds ==
    ASSUME Tidy, IInv, NEW c \in Calls, Execute(c)
    PROVE  IInv'
<1> USE DEF IInv
<1>1. c.tokens[1] \in Token /\ 1 \in DOMAIN c.tokens
  BY CallKnown DEF Tidy
<1>2. c.amount_in \in Int /\ c.dst_slot \in Nat \ {0} /\ c.dst_slot < Len(c.tokens)
  BY CallKnown DEF Execute, Accepts, Tidy, Slot
<1>3. \A t \in Token : ledger[Router][t] \in Int
  BY RouterKnown DEF Typed, Wallets
<1>4. \A slot \in 0..Len(c.tokens) - 1 : /\ slot + 1 \in DOMAIN c.tokens
                                         /\ c.tokens[slot + 1] \in Token
                                         /\ (c.tokens[slot + 1] = c.tokens[1] <=> slot = 0)
  BY CallKnown, <1>1 DEF Tidy
<1>5. \A t \in Token : ledger'[Router][t] =
          ledger[Router][t] + (IF t = c.tokens[1] THEN c.amount_in ELSE 0)
  BY PullMoves
<1>6. Typed'
  <2>1. opening' \in Int
    <3>1. opening' = ledger'[Router][c.tokens[c.dst_slot + 1]] /\ c.tokens[c.dst_slot + 1] \in Token
      BY <1>2, <1>4 DEF Execute
    <3> QED BY <3>1, <1>5, <1>2, <1>3
  <2>2. bal' \in [Slot -> Int]
    <3>1. bal' = [Nothing EXCEPT ![0] = c.amount_in]
      BY DEF Execute
    <3>2. Nothing \in [Slot -> Int]
      BY DEF Nothing
    <3> QED BY <3>1, <3>2, <1>2
  <2>3. snapshot'[1] = ledger /\ pc' = "leg" /\ call' = c /\ produced' = 0
    BY DEF Execute
  <2>4. k' = k /\ base' = base /\ s' = s
    BY DEF Execute
  <2> QED BY PullMoves, <2>1, <2>2, <2>3, <2>4 DEF Typed
<1>7. Measured'
  <2>1. pc' = "leg" /\ call' = c /\ snapshot'[1] = ledger
    BY DEF Execute
  <2>4. opening' = ledger[Router][c.tokens[c.dst_slot + 1]]
    <3>1. opening' = ledger'[Router][c.tokens[c.dst_slot + 1]]
      BY DEF Execute
    <3>2. c.tokens[c.dst_slot + 1] \in Token /\ c.tokens[c.dst_slot + 1] # c.tokens[1]
      BY <1>2, <1>4
    <3> QED BY <3>1, <3>2, <1>5, <1>3
  <2>5. \A slot \in Slot : bal'[slot] = IF slot = 0 THEN c.amount_in ELSE 0
    BY DEF Execute, Nothing
  <2>6. \A slot \in Slot : Net(slot)' = IF slot = 0 THEN c.amount_in ELSE 0
    <3> SUFFICES ASSUME NEW slot \in Slot
                 PROVE  Net(slot)' = IF slot = 0 THEN c.amount_in ELSE 0
      OBVIOUS
    <3>1. CASE slot < Len(c.tokens)
      <4>1. Net(slot)' = ledger'[Router][c.tokens[slot + 1]] - ledger[Router][c.tokens[slot + 1]]
        BY <2>1, <3>1 DEF Net, Held, Coin
      <4>0. Len(c.tokens) \in Nat
        BY CallKnown
      <4>2. slot \in 0..Len(c.tokens) - 1
        BY <3>1, <4>0 DEF Slot
      <4>3. c.tokens[slot + 1] \in Token /\ (c.tokens[slot + 1] = c.tokens[1] <=> slot = 0)
        BY <4>2, <1>4
      <4>4. ledger'[Router][c.tokens[slot + 1]] = ledger[Router][c.tokens[slot + 1]]
                + (IF c.tokens[slot + 1] = c.tokens[1] THEN c.amount_in ELSE 0)
        BY <4>3, <1>5
      <4> QED BY <4>1, <4>3, <4>4, <1>2, <1>3
    <3>2. CASE ~(slot < Len(c.tokens))
      BY <2>1, <3>2, <1>2 DEF Net, Slot
    <3> QED BY <3>1, <3>2
  <2> QED BY <2>1, <1>2, <2>4, <2>5, <2>6 DEF Measured, DstToken, Coin
<1> QED BY <1>6, <1>7

\* What is known of the leg at hand.
LEMMA LegKnown ==
    ASSUME IInv, pc = "leg", k <= Len(call.legs), InRange
    PROVE  /\ call \in Calls
           /\ leg.src \in Slot /\ leg.dst \in Slot /\ leg.bps \in Int
           /\ \A slot \in {leg.src, leg.dst} :
                slot + 1 \in DOMAIN call.tokens /\ Coin(slot) \in Token
           /\ bal[leg.src] \in Int /\ bal[leg.dst] \in Int
           /\ Base \in Int /\ Dx \in Int
<1>1. call \in Calls
  BY DEF IInv, Typed
<1>2. leg.src \in Slot /\ leg.dst \in Slot /\ leg.bps \in Int
  <2>1. k \in DOMAIN call.legs
    BY <1>1, CallKnown DEF IInv, Typed
  <2> QED BY <1>1, <2>1, CallKnown DEF leg
<1>3. \A slot \in {leg.src, leg.dst} : slot + 1 \in DOMAIN call.tokens /\ Coin(slot) \in Token
  BY <1>1, <1>2, CallKnown DEF Slot, Coin, InRange
<1>4. bal[leg.src] \in Int /\ bal[leg.dst] \in Int
  BY <1>2 DEF IInv, Typed
<1>5. Base \in Int
  BY <1>4 DEF Base, IInv, Typed
<1>6. Dx \in Int
  <2>1. (Base * leg.bps) \div BPS \in Int
    BY <1>2, <1>5, ConstantAssumption
  <2> QED BY <2>1, <1>4 DEF Dx
<1> QED BY <1>1, <1>2, <1>3, <1>4, <1>5, <1>6

LEMMA SkipHolds ==
    ASSUME IInv, SkipLeg
    PROVE  IInv'
<1>1. Base \in Int
  BY LegKnown DEF SkipLeg
<1>2. Typed'
  BY <1>1 DEF SkipLeg, OpenGroup, chain, Typed, IInv
<1>3. Measured'
  BY DEF SkipLeg, chain, Measured, IInv, Net, Held, Coin, DstToken
<1> QED BY <1>2, <1>3 DEF IInv

\* A leg moves the holdings of its two slots and books the same.
LEMMA RunHolds ==
    ASSUME Tidy, IInv, RunLeg
    PROVE  /\ IInv'
           /\ \E paid \in 1..MaxPay :
                bal' = [[bal EXCEPT ![leg.src] = @ - Dx] EXCEPT ![leg.dst] = @ + paid]
           /\ \A t \in Token \ {Coin(leg.src), Coin(leg.dst)} : Held(t)' = Held(t)
           /\ \A u \in User : \A t \in Token : ledger'[u][t] = ledger[u][t]
<1> DEFINE src == Coin(leg.src)
           dst == Coin(leg.dst)
<1>0. pc = "leg" /\ InRange /\ k <= Len(call.legs) /\ Dx > 0
  BY DEF RunLeg
<1>1. /\ call \in Calls /\ leg.src \in Slot /\ leg.dst \in Slot
      /\ leg.src + 1 \in DOMAIN call.tokens /\ leg.dst + 1 \in DOMAIN call.tokens
      /\ src \in Token /\ dst \in Token
      /\ bal[leg.src] \in Int /\ bal[leg.dst] \in Int /\ Base \in Int /\ Dx \in Int
  BY <1>0, LegKnown
<1>2. leg.src # leg.dst /\ leg.src \in Int /\ leg.dst \in Int /\ k \in DOMAIN call.legs
  <2>1. k \in DOMAIN call.legs
    BY <1>0, <1>1, CallKnown DEF IInv, Typed
  <2> QED BY <1>1, <2>1 DEF Tidy, leg, Slot
<1>3. src # dst
  BY <1>1, <1>2 DEF Tidy, Coin
<1>4. Charged(leg) = src
  <2>1. leg.kind = "STAKE_NATIVE" => src = NATIVE
    BY <1>0, <1>1, <1>2 DEF Tidy, leg, InRange, Coin
  <2> QED BY <2>1 DEF Charged, AsValue
<1>5. PICK taken \in Debited(Charged(leg), Dx), paid \in 0..MaxPay :
        ledger' = Move(Move(ledger, Router, World, Charged(leg), taken, taken),
                       World, Router, Coin(leg.dst), paid, paid)
  BY DEF RunLeg
<1>6. taken = Dx /\ paid \in Int
  BY <1>5, ConstantAssumption DEF Tidy, Debited
<1> DEFINE w == Move(ledger, Router, World, src, Dx, Dx)
<1>7. ledger' = Move(w, World, Router, dst, paid, paid)
  BY <1>4, <1>5, <1>6
<1>8. w \in Wallets
  BY <1>1, MoveTyped DEF IInv, Typed
<1>9. \A t \in Token : w[Router][t] = ledger[Router][t] - (IF t = src THEN Dx ELSE 0)
  <2>1. \A t \in Token : ledger[Router][t] \in Int
    BY RouterKnown DEF IInv, Typed, Wallets
  <2>2. \A t \in Token : w[Router][t] =
          ledger[Router][t] - (IF Router = Router /\ t = src THEN Dx ELSE 0)
                            + (IF Router = World /\ t = src THEN Dx ELSE 0)
    BY RouterKnown DEF Move
  <2>3. Router # World
    BY RouterKnown, ConstantAssumption
  <2>4. \A x, y \in Int : x - y + 0 = x - y /\ x - 0 + 0 = x - 0
    OBVIOUS
  <2>5. \A t \in Token : w[Router][t] = ledger[Router][t] - (IF t = src THEN Dx ELSE 0) + 0
    BY <2>2, <2>3
  <2> HIDE DEF src, dst, w
  <2> QED BY <2>1, <2>4, <2>5, <1>1
<1> HIDE DEF w
<1>10. ledger' \in Wallets
  BY <1>7, <1>8, <1>6, MoveTyped
<1>11. \A t \in Token : ledger'[Router][t] = ledger[Router][t]
          - (IF t = src THEN Dx ELSE 0) + (IF t = dst THEN paid ELSE 0)
  <2>1. \A t \in Token : w[Router][t] \in Int
    BY RouterKnown, <1>8 DEF Wallets
  <2>2. \A t \in Token : ledger'[Router][t] =
          w[Router][t] - (IF Router = World /\ t = dst THEN paid ELSE 0)
                       + (IF Router = Router /\ t = dst THEN paid ELSE 0)
    BY <1>7, RouterKnown DEF Move
  <2>3. \A t \in Token : ledger'[Router][t] = w[Router][t] + (IF t = dst THEN paid ELSE 0)
    BY <2>1, <2>2, <1>6, RouterKnown, ConstantAssumption
  <2> QED BY <2>3, <1>9
<1>12. Gained(Held(dst)) = paid
  <2>1. ledger[Router][dst] \in Int
    BY <1>1, RouterKnown DEF IInv, Typed, Wallets
  <2>2. ledger'[Router][dst] = ledger[Router][dst] + paid
    BY <2>1, <1>1, <1>3, <1>6, <1>11
  <2> QED BY <2>1, <2>2, <1>6 DEF Gained, Held
<1>13. paid \in 1..MaxPay
  BY <1>12, <1>6, <1>5, ConstantAssumption DEF RunLeg
<1>14. bal' = [[bal EXCEPT ![leg.src] = @ - Dx] EXCEPT ![leg.dst] = @ + paid]
  BY <1>12 DEF RunLeg
<1>15. Typed'
  <2>1. bal' \in [Slot -> Int]
    BY <1>14, <1>1, <1>6 DEF IInv, Typed
  <2>2. base' = Base /\ pc' = pc /\ call' = call /\ k' = k + 1 /\ produced' = produced
          /\ opening' = opening /\ s' = s /\ snapshot' = snapshot
    BY DEF RunLeg, OpenGroup
  <2> QED BY <2>1, <2>2, <1>0, <1>1, <1>10 DEF IInv, Typed
<1>16. Measured'
  <2>1. \A slot \in Slot : bal'[slot] = bal[slot]
          - (IF slot = leg.src THEN Dx ELSE 0) + (IF slot = leg.dst THEN paid ELSE 0)
    BY <1>14, <1>1, <1>2, <1>6 DEF IInv, Typed
  <2>2. pc' = pc /\ call' = call /\ opening' = opening /\ snapshot' = snapshot
    BY DEF RunLeg
  <2>3. \A slot \in Slot : Net(slot)' = Net(slot)
          - (IF slot = leg.src THEN Dx ELSE 0) + (IF slot = leg.dst THEN paid ELSE 0)
    <3> SUFFICES ASSUME NEW slot \in Slot
                 PROVE  Net(slot)' = Net(slot)
          - (IF slot = leg.src THEN Dx ELSE 0) + (IF slot = leg.dst THEN paid ELSE 0)
      OBVIOUS
    <3>0. leg.src < Len(call.tokens) /\ leg.dst < Len(call.tokens)
      BY <1>0 DEF InRange
    <3>1. CASE slot < Len(call.tokens)
      <4>1. slot + 1 \in DOMAIN call.tokens /\ Coin(slot) \in Token /\ slot \in Int
        BY <3>1, <1>1, CallKnown DEF Slot, Coin
      <4>2. (Coin(slot) = src <=> slot = leg.src) /\ (Coin(slot) = dst <=> slot = leg.dst)
        BY <4>1, <1>1, <1>2 DEF Tidy, Coin
      <4>3. /\ ledger'[Router][Coin(slot)] = ledger[Router][Coin(slot)]
                 - (IF Coin(slot) = src THEN Dx ELSE 0) + (IF Coin(slot) = dst THEN paid ELSE 0)
            /\ ledger[Router][Coin(slot)] \in Int
            /\ snapshot[1][Router][Coin(slot)] \in Int
        BY <4>1, <1>11, RouterKnown DEF IInv, Typed, Wallets
      <4>4. /\ Net(slot) = ledger[Router][Coin(slot)] - snapshot[1][Router][Coin(slot)]
            /\ Net(slot)' = ledger'[Router][Coin(slot)] - snapshot[1][Router][Coin(slot)]
        BY <3>1, <2>2 DEF Net, Held, Coin
      <4> QED BY <4>2, <4>3, <4>4, <1>1, <1>6
    <3>2. CASE ~(slot < Len(call.tokens))
      <4>1. slot # leg.src /\ slot # leg.dst
        BY <3>0, <3>2
      <4>2. Net(slot) = 0 /\ Net(slot)' = 0
        BY <3>2, <2>2 DEF Net
      <4> QED BY <4>1, <4>2
    <3> QED BY <3>1, <3>2
  <2>4. \A slot \in Slot : bal[slot] = Net(slot)
    BY <1>0 DEF IInv, Measured
  <2> QED BY <2>1, <2>2, <2>3, <2>4, <1>0 DEF IInv, Measured, DstToken, Coin
<1>17. \A t \in Token \ {src, dst} : Held(t)' = Held(t)
  <2>1. \A t \in Token : ledger[Router][t] \in Int
    BY RouterKnown DEF IInv, Typed, Wallets
  <2> HIDE DEF src, dst
  <2> QED BY <2>1, <1>11 DEF Held
<1>18. \A u \in User : \A t \in Token : ledger'[u][t] = ledger[u][t]
  <2> SUFFICES ASSUME NEW u \in User, NEW t \in Token
               PROVE  ledger'[u][t] = ledger[u][t]
    OBVIOUS
  <2>1. u \in Account /\ u # Router /\ u # World /\ ledger[u][t] \in Int
    BY RouterKnown, ConstantAssumption DEF IInv, Typed, Wallets
  <2>2. w[u][t] = ledger[u][t]
    BY <2>1 DEF w, Move
  <2> QED BY <1>7, <2>1, <2>2 DEF Move
<1> QED BY <1>13, <1>14, <1>15, <1>16, <1>17, <1>18 DEF IInv

\* The answer is what the books have for the destination.
LEMMA FinishHolds ==
    ASSUME IInv, Finish
    PROVE  IInv'
<1>1. call \in Calls /\ call.dst_slot \in Slot /\ call.dst_slot < Len(call.tokens)
  BY CallKnown DEF Finish, IInv, Typed, Measured
<1>2. Produced = Net(call.dst_slot)
  BY <1>1 DEF Produced, Net, DstToken, Finish, IInv, Measured
<1>3. Produced = bal[call.dst_slot] /\ bal[call.dst_slot] \in Int
  BY <1>1, <1>2 DEF Finish, IInv, Measured, Typed
<1>4. k > Len(call.legs) /\ pc' = "sweep" /\ produced' = Produced /\ ledger' = ledger
      /\ call' = call /\ k' = k /\ bal' = bal /\ base' = base
      /\ opening' = opening /\ s' = s /\ snapshot' = snapshot
  BY DEF Finish, chain, walk
<1>5. Typed'
  BY <1>1, <1>3, <1>4 DEF IInv, Typed
<1>6. Measured'
  BY <1>1, <1>3, <1>4 DEF Measured
<1> QED BY <1>5, <1>6 DEF IInv

LEMMA SweepHolds ==
    ASSUME Tidy, IInv, SweepOne
    PROVE  IInv'
<1>1. /\ call \in Calls /\ call.dst_slot \in Nat /\ call.dst_slot < Len(call.tokens)
      /\ s \in Nat /\ s < Len(call.tokens) /\ call.tokens \in Seq(Token)
  BY CallKnown DEF SweepOne, IInv, Typed, Measured, Slot
<1>2. SweptSlot + 1 \in DOMAIN call.tokens /\ Coin(SweptSlot) \in Token
  BY <1>1 DEF SweptSlot, Swept, LastOne, Coin
<1>3. Due(SweptSlot) \in Int
  BY <1>2, RouterKnown DEF Due, Held, IInv, Typed, Wallets
<1>4. ledger' = Move(ledger, Router, call.sender, Coin(SweptSlot), Due(SweptSlot), Due(SweptSlot))
  BY DEF SweepOne, Tidy, Debited, Credited
<1>5. ledger' \in Wallets
  BY <1>3, <1>4, MoveTyped DEF IInv, Typed
<1>6. pc = "sweep" /\ pc' = pc /\ call' = call /\ k' = k /\ bal' = bal /\ base' = base
      /\ produced' = produced /\ opening' = opening /\ s' = s + 1 /\ snapshot' = snapshot
  BY DEF SweepOne, walk
<1>7. Typed'
  BY <1>5, <1>6 DEF IInv, Typed
<1>8. Measured'
  BY <1>6 DEF IInv, Measured
<1> QED BY <1>7, <1>8 DEF IInv

LEMMA ReturnHolds ==
    ASSUME IInv, Return \/ Revert
    PROVE  IInv'
<1>1. ledger' \in Wallets /\ produced' \in Int /\ Reset
  BY DEF Return, Revert, chain, IInv, Typed
<1>2. Nothing \in [Slot -> Int]
  BY DEF Nothing
<1>3. Typed'
  BY <1>1, <1>2 DEF Reset, Typed, Nothing, Slot
<1> QED BY <1>1, <1>3 DEF Reset, IInv, Measured

LEMMA DonateHolds ==
    ASSUME IInv, NEW u \in User, NEW t \in Token, NEW x \in 1..MaxGift, Donate(u, t, x)
    PROVE  IInv'
<1>1. ledger' \in Wallets
  BY MoveTyped DEF Donate, IInv, Typed
<1>2. pc = "idle" /\ pc' = pc /\ call' = call /\ k' = k /\ bal' = bal /\ cur' = cur
      /\ base' = base /\ produced' = produced /\ opening' = opening /\ s' = s
      /\ snapshot'[1] = ledger'
  BY DEF Donate, walk
<1>3. Typed'
  BY <1>1, <1>2 DEF IInv, Typed, Nothing, Slot
<1> QED BY <1>2, <1>3 DEF IInv, Measured

LEMMA StepHolds == Tidy /\ IInv /\ [Next]_vars => IInv'
<1> SUFFICES ASSUME Tidy, IInv, [Next]_vars
             PROVE  IInv'
  OBVIOUS
<1>1. ASSUME NEW c \in Calls, Execute(c) PROVE IInv'
  BY <1>1, ExecuteHolds
<1>2. CASE SkipLeg
  BY <1>2, SkipHolds
<1>3. CASE RunLeg
  BY <1>3, RunHolds
<1>4. CASE Finish
  BY <1>4, FinishHolds
<1>5. CASE SweepOne
  BY <1>5, SweepHolds
<1>6. CASE Return \/ Revert
  BY <1>6, ReturnHolds
<1>7. ASSUME NEW u \in User, NEW t \in Token, NEW x \in 1..MaxGift, Donate(u, t, x)
      PROVE  IInv'
  BY <1>7, DonateHolds
<1>8. CASE UNCHANGED vars
  <2>1. UNCHANGED <<ledger, pc, call, k, bal, cur, base, opening, produced, s, snapshot>>
    BY <1>8 DEF vars, chain, walk
  <2> QED BY <2>1 DEF IInv, Typed, Measured, Net, Held, Coin, DstToken, Slot, Nothing
<1> QED BY <1>1, <1>2, <1>3, <1>4, <1>5, <1>6, <1>7, <1>8 DEF Next

----------------------------------------------------------------------------
(* Every step of the contract is a step of the walk, or none.              *)

\* The accumulator of the walk, read off the chain, is the contract's own.
LEMMA BooksAgree ==
    ASSUME IInv
    PROVE  (IF pc = "leg" THEN [slot \in Slot |-> Net(slot)] ELSE bal) = bal
BY DEF IInv, Typed, Measured

LEMMA AmountsAgree ==
    LET b == [bal |-> bal, cur |-> cur, base |-> base]
    IN  Walk!Base(b, leg) = Base /\ Walk!Spend(b, leg) = Dx
BY DEF Walk!Base, Walk!Spend, Base, Dx

LEMMA WalkOpens == Init => Walk!Init
BY DEF Init, Idle, Walk!Init, Walk!Opened, Walk!Slot, Slot, Nothing

LEMMA SkipIsSkip ==
    ASSUME Tidy, IInv, IInv', SkipLeg
    PROVE  Walk!Skip
<1>1. pc = "leg" /\ pc' = "leg" /\ call' = call /\ k <= Len(call.legs) /\ InRange /\ Dx = 0
      /\ bal' = bal /\ cur' = leg.src /\ base' = Base /\ k' = k + 1
  BY DEF SkipLeg, OpenGroup
<1>2. call \in Calls /\ RouteOf(call) # NoCall
  BY <1>1 DEF Tidy, IInv, Typed
<1>3. [slot \in Slot |-> Net(slot)] = bal /\ [slot \in Slot |-> Net(slot)'] = bal'
  BY <1>1 DEF IInv, Typed, Measured
<1> QED
  BY <1>1, <1>2, <1>3 DEF RouteOf, Walk!Skip, Walk!Walking, Walk!leg, Walk!InRange,
     Walk!After, Walk!Spend, Walk!Base, InRange, leg, Dx, Base, Coin

LEMMA RunIsTrade ==
    ASSUME Tidy, IInv, IInv', RunLeg
    PROVE  \E value \in 1..MaxPay : Walk!Trade(value)
<1>1. pc = "leg" /\ pc' = "leg" /\ call' = call /\ k <= Len(call.legs) /\ InRange /\ Dx > 0
      /\ cur' = leg.src /\ base' = Base /\ k' = k + 1
  BY DEF RunLeg, OpenGroup
<1>2. call \in Calls /\ RouteOf(call) # NoCall
  BY <1>1 DEF Tidy, IInv, Typed
<1>3. [slot \in Slot |-> Net(slot)] = bal /\ [slot \in Slot |-> Net(slot)'] = bal'
  BY <1>1 DEF IInv, Typed, Measured
<1>4. PICK paid \in 1..MaxPay :
        bal' = [[bal EXCEPT ![leg.src] = @ - Dx] EXCEPT ![leg.dst] = @ + paid]
  BY RunHolds
<1>5. Dx # 0
  BY <1>1, LegKnown
<1> DEFINE b == [bal |-> bal, cur |-> cur, base |-> base]
<1>6. Walk!After(b, leg, paid) = [bal |-> bal', cur |-> cur', base |-> base']
  BY <1>1, <1>4, <1>5, AmountsAgree DEF Walk!After
<1>7. Walk!Spend(b, leg) > 0
  BY <1>1, AmountsAgree
<1>8. RouteOf(call).legs[k] = leg /\ Walk!InRange(RouteOf(call), leg)
      /\ k <= Len(RouteOf(call).legs)
  BY <1>1 DEF RouteOf, leg, InRange, Walk!InRange
<1> HIDE DEF b
<1>9. Walk!Trade(paid)
  BY <1>1, <1>2, <1>3, <1>6, <1>7, <1>8 DEF b, Walk!Trade, Walk!CanTrade, Walk!Walking, Walk!leg
<1> QED BY <1>9

\* The last transfer of the sweep behind it, a call answers what the walk does.
LEMMA ReturnIsAnswer ==
    ASSUME Tidy, IInv, Return
    PROVE  Walk!Answer
<1>1. pc = "sweep" /\ pc' = "idle" /\ call \in Calls /\ RouteOf(call) # NoCall
  BY DEF Return, Reset, Tidy, IInv, Typed
<1>2. k > Len(call.legs) /\ produced = bal[call.dst_slot] /\ k \in Int /\ Len(call.legs) \in Int
  BY <1>1, CallKnown DEF IInv, Typed, Measured
<1>3. produced' = produced /\ k' = 1 /\ bal' = Nothing /\ cur' = NoSlot /\ base' = 0
  BY DEF Return, Reset
<1> QED
  BY <1>1, <1>2, <1>3 DEF RouteOf, Walk!Answer, Walk!Walking, Walk!Stop, Walk!Opened,
     Walk!Slot, Slot, Nothing

LEMMA RevertIsDie ==
    ASSUME Tidy, IInv, Revert
    PROVE  Walk!Die
<1>1. pc \in {"leg", "sweep"} /\ pc' = "idle" /\ call \in Calls /\ RouteOf(call) # NoCall
  BY DEF Revert, Fails, Reset, Tidy, IInv, Typed
<1>2. produced' = 0 /\ k' = 1 /\ bal' = Nothing /\ cur' = NoSlot /\ base' = 0
  BY DEF Revert, Reset
<1>3. CASE pc = "leg" /\ k <= Len(call.legs)
  <2>1. InRange => Dx > 0
    BY <1>3, CallKnown, <1>1 DEF Revert, Fails, IInv, Typed
  <2>2. [slot \in Slot |-> Net(slot)] = bal
    BY <1>3 DEF IInv, Typed, Measured
  <2> DEFINE b == [bal |-> bal, cur |-> cur, base |-> base]
  <2>3. RouteOf(call).legs[k] = leg /\ k <= Len(RouteOf(call).legs)
        /\ (Walk!InRange(RouteOf(call), leg) <=> InRange)
    BY <1>3 DEF RouteOf, leg, InRange, Walk!InRange
  <2>4. InRange => Walk!Spend(b, leg) > 0
    BY <2>1, AmountsAgree
  <2>5. /\ (IF pc = "leg" THEN [slot \in Slot |-> Net(slot)] ELSE bal) = bal
        /\ pc # "idle" /\ pc' # "leg"
    BY <1>1, <1>3, <2>2
  <2> HIDE DEF b
  <2> QED
    BY <1>1, <1>2, <2>3, <2>4, <2>5 DEF b, Walk!Die, Walk!Walking, Walk!CanTrade, Walk!leg,
       Walk!Stop, Walk!Opened, Walk!Slot, Slot, Nothing
<1>4. CASE k > Len(call.legs)
  <2>1. ~(k <= Len(call.legs))
    BY <1>1, <1>4, CallKnown DEF IInv, Typed
  <2> QED
    BY <1>1, <1>2, <2>1 DEF RouteOf, Walk!Die, Walk!Walking, Walk!Stop, Walk!Opened,
       Walk!Slot, Slot, Nothing
<1>5. pc = "sweep" => k > Len(call.legs)
  BY DEF IInv, Measured
<1> QED BY <1>1, <1>3, <1>4, <1>5, CallKnown DEF IInv, Typed

LEMMA ExecuteIsStart ==
    ASSUME Tidy, IInv, IInv', NEW c \in Calls, Execute(c)
    PROVE  Walk!Start(RouteOf(c))
<1>1. pc = "idle" /\ pc' = "leg" /\ call' = c /\ produced' = 0
      /\ bal' = [Nothing EXCEPT ![0] = c.amount_in]
      /\ k' = 1 /\ cur' = NoSlot /\ base' = 0
  BY DEF Execute, IInv, Typed
<1>2. [slot \in Slot |-> Net(slot)'] = bal'
  BY <1>1 DEF IInv, Typed, Measured
<1>3. bal' = [slot \in Slot |-> IF slot = 0 THEN c.amount_in ELSE 0]
  BY <1>1 DEF Nothing
<1> QED BY <1>1, <1>2, <1>3 DEF RouteOf, Walk!Start, Walk!Opened, Walk!Slot, Slot

\* What moves no leg moves no walk.
LEMMA OthersStutter ==
    ASSUME IInv, IInv',
           \/ Finish \/ SweepOne \/ UNCHANGED vars
           \/ \E u \in User, t \in Token, x \in 1..MaxGift : Donate(u, t, x)
    PROVE  UNCHANGED Walk!vars
<1>1. /\ (pc = "idle") = (pc' = "idle") /\ call' = call /\ k' = k /\ bal' = bal
      /\ cur' = cur /\ base' = base /\ (pc = "idle" => produced' = produced)
  BY DEF Finish, SweepOne, Donate, vars, walk, chain
<1>2. /\ (IF pc = "leg" THEN [slot \in Slot |-> Net(slot)] ELSE bal) = bal
      /\ (IF pc' = "leg" THEN [slot \in Slot |-> Net(slot)'] ELSE bal') = bal'
  BY DEF IInv, Typed, Measured
<1> QED BY <1>1, <1>2 DEF Walk!vars, RouteOf

LEMMA StepRefines ==
    ASSUME Tidy, IInv, IInv', [Next]_vars
    PROVE  [Walk!Next]_(Walk!vars)
<1>1. ASSUME NEW c \in Calls, Execute(c)
      PROVE  \E r \in {RouteOf(d) : d \in Calls} : Walk!Start(r)
  BY <1>1, ExecuteIsStart
<1>2. CASE SkipLeg
  BY <1>2, SkipIsSkip DEF Walk!Next
<1>3. CASE RunLeg
  BY <1>3, RunIsTrade DEF Walk!Next
<1>4. CASE Return
  BY <1>4, ReturnIsAnswer DEF Walk!Next
<1>5. CASE Revert
  BY <1>5, RevertIsDie DEF Walk!Next
<1>6. CASE \/ Finish \/ SweepOne \/ UNCHANGED vars
           \/ \E u \in User, t \in Token, x \in 1..MaxGift : Donate(u, t, x)
  BY <1>6, OthersStutter
<1>7. (\E c \in Calls : Execute(c)) => Walk!Next
  BY <1>1 DEF Walk!Next
<1> QED BY <1>2, <1>3, <1>4, <1>5, <1>6, <1>7 DEF Next

(* For every call that is tidily encoded and whatever its pools pay, an    *)
(* execution is a walk of RouteWalk over what really arrived, and what it  *)
(* returns is that walk's answer (RouteExecutor.vy:374-453, core/walk.py). *)
THEOREM Executes == ASSUME Tidy PROVE Spec => ExecutesTheWalk
<1>1. Init => IInv /\ Walk!Init
  BY InitHolds, WalkOpens
<1>2. IInv /\ [Next]_vars => IInv'
  BY StepHolds
<1>3. IInv /\ IInv' /\ [Next]_vars => [Walk!Next]_(Walk!vars)
  BY StepRefines
<1> QED BY <1>1, <1>2, <1>3, PTL DEF Spec, Walk!Spec, ExecutesTheWalk

----------------------------------------------------------------------------
(* The caller is paid, slot by slot.                                       *)

Pulled(slot) == IF slot = 0 THEN call.amount_in ELSE 0

\* The slots the sweep is through with: the destination's turn comes last.
Done(slot) ==
    IF slot = call.dst_slot THEN s = Len(call.tokens)
    ELSE IF slot < call.dst_slot THEN slot < s ELSE slot <= s

Kept(slot) ==
    /\ Held(Coin(slot)) = bal[slot] + donated[Coin(slot)]
    /\ ledger[call.sender][Coin(slot)] =
          snapshot[1][call.sender][Coin(slot)] - Pulled(slot)

PaidOut(slot) ==
    LET own == IF slot = call.dst_slot THEN donated[Coin(slot)] ELSE 0 IN
    /\ Held(Coin(slot)) = own
    /\ ledger[call.sender][Coin(slot)] =
          snapshot[1][call.sender][Coin(slot)] + bal[slot] + donated[Coin(slot)]
             - own - Pulled(slot)

\* What a call does not touch is what was pushed there; of what it does, a slot
\* is the caller's before its turn in the sweep or after it.
Settled ==
    /\ donated \in [Token -> Int]
    /\ \A t \in Token : snapshot[1][Router][t] = donated[t]
    /\ pc = "idle" => \A t \in Token : Held(t) = donated[t]
    /\ pc # "idle" =>
          \A t \in Token : (\A j \in DOMAIN call.tokens : call.tokens[j] # t)
                              => Held(t) = donated[t]
    /\ pc # "sweep" => s = 0
    /\ pc = "leg" => \A slot \in 0..Len(call.tokens) - 1 : Kept(slot)
    /\ pc = "sweep" =>
          /\ s <= Len(call.tokens)
          /\ \A slot \in 0..Len(call.tokens) - 1 :
                IF Done(slot) THEN PaidOut(slot) ELSE Kept(slot)

LEMMA InitSettled == Init => Settled
BY RouterKnown DEF Init, Settled, Idle, Held

\* The tokens of a call, slot by slot.
LEMMA CoinsDiffer ==
    ASSUME Tidy, call \in Calls
    PROVE  /\ Len(call.tokens) \in Nat
           /\ \A i \in 0..Len(call.tokens) - 1 : i + 1 \in DOMAIN call.tokens /\ Coin(i) \in Token
           /\ \A i, j \in 0..Len(call.tokens) - 1 : Coin(i) = Coin(j) => i = j
<1>1. call.tokens \in Seq(Token) /\ Len(call.tokens) \in Nat
  BY CallKnown
<1>2. \A i \in 0..Len(call.tokens) - 1 : i + 1 \in DOMAIN call.tokens /\ Coin(i) \in Token
  BY <1>1 DEF Coin
<1>3. ASSUME NEW i \in 0..Len(call.tokens) - 1, NEW j \in 0..Len(call.tokens) - 1,
             Coin(i) = Coin(j)
      PROVE  i = j
  BY <1>1, <1>2, <1>3 DEF Tidy, Coin
<1> QED BY <1>1, <1>2, <1>3

LEMMA ExecuteSettles ==
    ASSUME Tidy, IInv, IInv', Settled, NEW c \in Calls, Execute(c)
    PROVE  Settled'
<1>1. /\ pc = "idle" /\ pc' = "leg" /\ call' = c /\ s' = s /\ donated' = donated
      /\ snapshot'[1] = ledger /\ bal' = [Nothing EXCEPT ![0] = c.amount_in]
  BY DEF Execute
<1>2. c.tokens \in Seq(Token) /\ c.tokens # <<>> /\ c.amount_in \in Int /\ c.sender \in Account
  BY CallKnown, RouterKnown DEF Tidy
<1>3. \A t \in Token : ledger[Router][t] = donated[t] /\ donated[t] \in Int
                       /\ ledger[c.sender][t] \in Int
  BY <1>1, <1>2 DEF Settled, Held, IInv, Typed, Wallets
<1>4. \A t \in Token : (\A j \in DOMAIN c.tokens : c.tokens[j] # t) => ledger'[Router][t] = donated[t]
  <2>1. 1 \in DOMAIN c.tokens
    BY <1>2
  <2> QED BY <2>1, <1>3, PullMoves
<1>5. ASSUME NEW slot \in 0..Len(c.tokens) - 1
      PROVE  Kept(slot)'
  <2>1. slot \in Int /\ slot + 1 \in DOMAIN c.tokens /\ 1 \in DOMAIN c.tokens
        /\ c.tokens[slot + 1] \in Token
    BY <1>2
  <2>2. c.tokens[slot + 1] = c.tokens[1] <=> slot = 0
    BY <2>1 DEF Tidy
  <2>3. slot \in Slot
    BY CallKnown, ConstantAssumption DEF Slot
  <2>4. bal'[slot] = IF slot = 0 THEN c.amount_in ELSE 0
    BY <1>1, <2>3 DEF Nothing
  <2>5. Coin(slot)' = c.tokens[slot + 1] /\ Pulled(slot)' = IF slot = 0 THEN c.amount_in ELSE 0
    BY <1>1 DEF Coin, Pulled
  <2>6. LET x == IF slot = 0 THEN c.amount_in ELSE 0 IN
        /\ ledger'[Router][c.tokens[slot + 1]] = ledger[Router][c.tokens[slot + 1]] + x
        /\ ledger'[c.sender][c.tokens[slot + 1]] = ledger[c.sender][c.tokens[slot + 1]] - x
    BY <2>1, <2>2, PullMoves
  <2> QED BY <1>1, <1>2, <1>3, <2>1, <2>4, <2>5, <2>6 DEF Kept, Held
<1>6. s = 0 => s' = 0
  BY <1>1
<1>7. s = 0
  BY <1>1 DEF Settled
<1> QED BY <1>1, <1>3, <1>4, <1>5, <1>7 DEF Settled, Held

LEMMA SkipSettles ==
    ASSUME SkipLeg, Settled
    PROVE  Settled'
BY DEF SkipLeg, chain, Settled, Kept, Held, Coin, Pulled

LEMMA RunSettles ==
    ASSUME Tidy, IInv, IInv', RunLeg, Settled
    PROVE  Settled'
<1>1. /\ pc = "leg" /\ pc' = pc /\ call' = call /\ s' = s /\ snapshot' = snapshot
      /\ donated' = donated /\ call \in Calls /\ call.sender \in User
  BY CallKnown DEF RunLeg, IInv, Typed
<1>2. /\ leg.src + 1 \in DOMAIN call.tokens /\ leg.dst + 1 \in DOMAIN call.tokens
      /\ pc = "leg" /\ k <= Len(call.legs) /\ InRange
  BY LegKnown DEF RunLeg
<1>3. \A t \in Token : (\A j \in DOMAIN call.tokens : call.tokens[j] # t) => Held(t)' = Held(t)
  BY <1>2, RunHolds DEF Coin
<1>4. ASSUME NEW slot \in 0..Len(call.tokens) - 1
      PROVE  Kept(slot)'
  <2>1. slot \in Slot /\ slot < Len(call.tokens) /\ Coin(slot) \in Token
    BY <1>1, CoinsDiffer, CallKnown, ConstantAssumption DEF Slot
  <2>2. Coin(slot)' = Coin(slot) /\ Pulled(slot)' = Pulled(slot)
    BY <1>1 DEF Coin, Pulled
  <2>3. bal'[slot] = Held(Coin(slot))' - snapshot[1][Router][Coin(slot)]
    BY <1>1, <2>1, <2>2 DEF IInv, Measured, Net
  <2>4. Held(Coin(slot))' \in Int /\ snapshot[1][Router][Coin(slot)] \in Int
    BY <2>1, <2>2, RouterKnown DEF Held, IInv, Typed, Wallets
  <2>5. snapshot[1][Router][Coin(slot)] = donated[Coin(slot)]
    BY <2>1 DEF Settled
  <2>6. ledger'[call.sender][Coin(slot)] = ledger[call.sender][Coin(slot)]
    BY <1>1, <2>1, RunHolds
  <2> QED BY <1>1, <2>2, <2>3, <2>4, <2>5, <2>6 DEF Kept, Settled, Held
<1> QED BY <1>1, <1>3, <1>4 DEF Settled

LEMMA FinishSettles ==
    ASSUME Tidy, IInv, Finish, Settled
    PROVE  Settled'
<1>1. /\ pc = "leg" /\ pc' = "sweep" /\ call' = call /\ s' = s /\ s = 0
      /\ snapshot' = snapshot /\ donated' = donated /\ bal' = bal /\ ledger' = ledger
      /\ call \in Calls
  BY DEF Finish, chain, walk, IInv, Typed, Settled
<1>2. /\ Len(call.tokens) \in Nat \ {0}
      /\ call.dst_slot \in Nat /\ call.dst_slot # 0
  BY <1>1, CallKnown DEF Tidy, Slot
<1>3. \A slot \in 0..Len(call.tokens) - 1 : Kept(slot)'
  BY <1>1 DEF Settled, Kept, Held, Coin, Pulled
<1>4. \A slot \in 0..Len(call.tokens) - 1 : ~Done(slot)'
  BY <1>1, <1>2 DEF Done
<1> QED BY <1>1, <1>2, <1>3, <1>4 DEF Settled, Held

\* One more slot is behind the sweep, and no other.
LEMMA SweepsOne ==
    ASSUME call.dst_slot \in Nat, Len(call.tokens) \in Nat, s \in Nat,
           call.dst_slot < Len(call.tokens), s < Len(call.tokens), call' = call, s' = s + 1,
           NEW slot, slot = SweptSlot
    PROVE  /\ slot \in 0..Len(call.tokens) - 1
           /\ ~Done(slot) /\ Done(slot)'
           /\ \A other \in 0..Len(call.tokens) - 1 :
                 other # slot => (Done(other)' <=> Done(other))
<1> DEFINE n == Len(call.tokens)
           dst == call.dst_slot
<1>1. slot = IF s = n - 1 THEN dst ELSE IF s < dst THEN s ELSE s + 1
  BY DEF SweptSlot, Swept, LastOne
<1>2. \A i : /\ Done(i) <=> IF i = dst THEN s = n ELSE IF i < dst THEN i < s ELSE i <= s
             /\ Done(i)' <=> IF i = dst THEN s + 1 = n ELSE IF i < dst THEN i < s + 1 ELSE i <= s + 1
  BY DEF Done
<1>3. n \in Nat /\ dst \in Nat /\ dst < n /\ s < n
  OBVIOUS
<1> HIDE DEF n, dst
<1>4. slot \in 0..n - 1
  BY <1>1, <1>3
<1>5. ~Done(slot) /\ Done(slot)'
  <2>1. CASE s = n - 1
    BY <1>1, <1>2, <1>3, <2>1
  <2>2. CASE s # n - 1 /\ s < dst
    BY <1>1, <1>2, <1>3, <2>2
  <2>3. CASE s # n - 1 /\ ~(s < dst)
    <3>1. slot = s + 1 /\ slot # dst /\ ~(slot < dst)
      BY <1>1, <1>3, <2>3
    <3> QED BY <1>2, <1>3, <3>1
  <2> QED BY <2>1, <2>2, <2>3
<1>7. ASSUME NEW other \in 0..n - 1, other # slot
      PROVE  (Done(other)' <=> Done(other))
  <2>1. CASE other = dst
    BY <1>1, <1>2, <1>3, <1>7, <2>1
  <2>2. CASE other < dst
    BY <1>1, <1>2, <1>3, <1>7, <2>2
  <2>3. CASE other > dst
    BY <1>1, <1>2, <1>3, <1>7, <2>3
  <2> QED BY <2>1, <2>2, <2>3, <1>3
<1> QED BY <1>4, <1>5, <1>7 DEF n

LEMMA SweepSettles ==
    ASSUME Tidy, IInv, SweepOne, Settled
    PROVE  Settled'
<1>0. PICK slot, coin : slot = SweptSlot /\ coin = Coin(SweptSlot)
  OBVIOUS
<1>1. /\ pc = "sweep" /\ pc' = pc /\ call' = call /\ s' = s + 1 /\ s < Len(call.tokens)
      /\ snapshot' = snapshot /\ donated' = donated /\ bal' = bal /\ produced' = produced
      /\ call \in Calls /\ s \in Nat
  BY DEF SweepOne, walk, IInv, Typed
<1>2. /\ Len(call.tokens) \in Nat /\ call.dst_slot \in Nat /\ call.dst_slot \in Slot
      /\ call.dst_slot < Len(call.tokens)
      /\ call.sender \in User /\ call.sender \in Account /\ call.sender # Router
      /\ call.amount_in \in Int
  BY <1>1, CallKnown, RouterKnown DEF Slot, IInv, Measured
<1>3. /\ slot \in 0..Len(call.tokens) - 1 /\ ~Done(slot) /\ Done(slot)'
      /\ \A other \in 0..Len(call.tokens) - 1 : other # slot => (Done(other)' <=> Done(other))
  BY <1>0, <1>1, <1>2, SweepsOne
<1>4. coin \in Token /\ coin = Coin(slot)
      /\ \A other \in 0..Len(call.tokens) - 1 :
            Coin(other) \in Token /\ (Coin(other) = coin => other = slot)
  BY <1>0, <1>1, <1>3, CoinsDiffer
<1>5. Kept(slot)
  BY <1>1, <1>3 DEF Settled
<1>6. bal[slot] \in Int /\ donated[coin] \in Int /\ snapshot[1][call.sender][coin] \in Int
      /\ Pulled(slot) \in Int
  <2>1. slot \in Slot
    BY <1>1, <1>2, <1>3, CallKnown, ConstantAssumption DEF Slot
  <2> QED BY <1>0, <2>1, <1>1, <1>2, <1>4 DEF IInv, Typed, Settled, Wallets, Pulled
<1>7. Due(slot) = IF slot = call.dst_slot THEN bal[slot] ELSE bal[slot] + donated[coin]
  BY <1>0, <1>1, <1>5 DEF Due, Kept, IInv, Measured
<1>8. Due(slot) \in Int
  BY <1>6, <1>7
<1>9. ledger' = Move(ledger, Router, call.sender, coin, Due(slot), Due(slot))
  BY <1>0 DEF SweepOne, Tidy, Debited, Credited
<1>10. \A t \in Token :
         LET x == IF t = coin THEN Due(slot) ELSE 0 IN
         /\ ledger'[Router][t] = ledger[Router][t] - x
         /\ ledger'[call.sender][t] = ledger[call.sender][t] + x
  <2>1. \A t \in Token : ledger[Router][t] \in Int /\ ledger[call.sender][t] \in Int
    BY <1>2, RouterKnown DEF IInv, Typed, Wallets
  <2> QED BY <1>2, <1>8, <1>9, <2>1, RouterKnown DEF Move
<1>11. \A t \in Token : t # coin =>
          ledger'[Router][t] = ledger[Router][t]
          /\ ledger'[call.sender][t] = ledger[call.sender][t]
  <2>1. \A t \in Token : ledger[Router][t] \in Int /\ ledger[call.sender][t] \in Int
    BY <1>2, RouterKnown DEF IInv, Typed, Wallets
  <2> QED BY <1>10, <2>1
<1>12. PaidOut(slot)'
  <2>1. /\ ledger'[Router][coin] = ledger[Router][coin] - Due(slot)
        /\ ledger'[call.sender][coin] = ledger[call.sender][coin] + Due(slot)
    BY <1>4, <1>10
  <2>2. /\ ledger[Router][coin] = bal[slot] + donated[coin]
        /\ ledger[call.sender][coin] = snapshot[1][call.sender][coin] - Pulled(slot)
    BY <1>4, <1>5 DEF Kept, Held
  <2>3. Coin(slot)' = coin /\ Pulled(slot)' = Pulled(slot)
    BY <1>1, <1>4 DEF Coin, Pulled
  <2>4. CASE slot = call.dst_slot
    <3>1. /\ ledger'[Router][coin] = donated[coin]
          /\ ledger'[call.sender][coin] =
                snapshot[1][call.sender][coin] + bal[slot] + donated[coin]
                   - donated[coin] - Pulled(slot)
      BY <1>6, <1>7, <2>1, <2>2, <2>4
    <3> QED BY <1>1, <2>3, <2>4, <3>1 DEF PaidOut, Held
  <2>5. CASE slot # call.dst_slot
    <3>1. /\ ledger'[Router][coin] = 0
          /\ ledger'[call.sender][coin] =
                snapshot[1][call.sender][coin] + bal[slot] + donated[coin] - 0 - Pulled(slot)
      BY <1>6, <1>7, <2>1, <2>2, <2>5
    <3> QED BY <1>1, <2>3, <2>5, <3>1 DEF PaidOut, Held
  <2> QED BY <2>4, <2>5
<1>13. ASSUME NEW other \in 0..Len(call.tokens) - 1, other # slot
       PROVE  IF Done(other)' THEN PaidOut(other)' ELSE Kept(other)'
  <2>1. (Done(other)' <=> Done(other)) /\ Coin(other) \in Token /\ Coin(other) # coin
    BY <1>3, <1>4, <1>13
  <2>2. Coin(other)' = Coin(other) /\ Pulled(other)' = Pulled(other)
    BY <1>1 DEF Coin, Pulled
  <2>3. IF Done(other) THEN PaidOut(other) ELSE Kept(other)
    BY <1>1 DEF Settled
  <2>4. /\ ledger'[Router][Coin(other)] = ledger[Router][Coin(other)]
        /\ ledger'[call.sender][Coin(other)] = ledger[call.sender][Coin(other)]
    BY <1>11, <2>1
  <2> QED BY <1>1, <2>1, <2>2, <2>3, <2>4 DEF PaidOut, Kept, Held
<1>14. \A t \in Token : (\A j \in DOMAIN call.tokens : call.tokens[j] # t)
                           => ledger'[Router][t] = donated[t]
  <2>1. \A t \in Token : (\A j \in DOMAIN call.tokens : call.tokens[j] # t) => t # coin
    BY <1>1, <1>2, <1>3, <1>4, CoinsDiffer DEF Coin
  <2> QED BY <2>1, <1>1, <1>11 DEF Settled, Held
<1>15. \A i \in 0..Len(call.tokens) - 1 : IF Done(i)' THEN PaidOut(i)' ELSE Kept(i)'
  BY <1>3, <1>12, <1>13
<1>16. s' <= Len(call.tokens)
  BY <1>1, <1>2
<1>17. pc' = "sweep" /\ \A t \in Token : Held(t)' = ledger'[Router][t]
  BY <1>1 DEF Held
<1> QED BY <1>1, <1>14, <1>15, <1>16, <1>17 DEF Settled

LEMMA ReturnSettles ==
    ASSUME Tidy, IInv, Return, Settled
    PROVE  Settled'
<1>1. /\ pc = "sweep" /\ s = Len(call.tokens) /\ call \in Calls /\ ledger' = ledger
      /\ pc' = "idle" /\ s' = 0 /\ snapshot'[1] = ledger'
      /\ donated' = [t \in Token |->
            IF \E slot \in 0..Len(call.tokens) - 1 : Coin(slot) = t /\ t # DstToken
            THEN 0 ELSE donated[t]]
  BY DEF Return, Reset, chain, IInv, Typed
<1>2. /\ Len(call.tokens) \in Nat /\ call.dst_slot \in Nat /\ call.dst_slot < Len(call.tokens)
      /\ call.tokens \in Seq(Token)
  BY <1>1, CallKnown DEF Slot, IInv, Measured
<1>3. \A slot \in 0..Len(call.tokens) - 1 : Done(slot)
  BY <1>1, <1>2 DEF Done
<1>4. ASSUME NEW t \in Token
      PROVE  Held(t) = donated'[t]
  <2>1. CASE \A j \in DOMAIN call.tokens : call.tokens[j] # t
    <3>1. ~ \E slot \in 0..Len(call.tokens) - 1 : Coin(slot) = t
      BY <1>1, <2>1, CoinsDiffer DEF Coin
    <3> QED BY <1>1, <2>1, <3>1 DEF Settled
  <2>2. CASE \E j \in DOMAIN call.tokens : call.tokens[j] = t
    <3>1. PICK j \in DOMAIN call.tokens : call.tokens[j] = t
      BY <2>2
    <3>2. j - 1 \in 0..Len(call.tokens) - 1 /\ Coin(j - 1) = t
      BY <1>2, <3>1 DEF Coin
    <3>3. PICK slot \in 0..Len(call.tokens) - 1 : Coin(slot) = t
      BY <3>2
    <3>4. PaidOut(slot)
      BY <1>1, <1>3 DEF Settled
    <3>5. CASE slot = call.dst_slot
      BY <1>1, <3>3, <3>4, <3>5 DEF PaidOut, DstToken
    <3>6. CASE slot # call.dst_slot
      <4>1. t # DstToken
        BY <1>1, <1>2, <3>3, <3>6, CoinsDiffer DEF DstToken
      <4> QED BY <1>1, <3>3, <3>4, <3>6, <4>1 DEF PaidOut
    <3> QED BY <3>5, <3>6
  <2> QED BY <2>1, <2>2
<1>5. donated' \in [Token -> Int]
  BY <1>1 DEF Settled
<1> QED BY <1>1, <1>4, <1>5 DEF Settled, Held

LEMMA RevertSettles ==
    ASSUME Revert, Settled
    PROVE  Settled'
BY DEF Revert, Reset, Settled, Held

LEMMA DonateSettles ==
    ASSUME IInv, Settled,
           NEW u \in User, NEW t \in Token, NEW x \in 1..MaxGift, Donate(u, t, x)
    PROVE  Settled'
<1>1. /\ pc = "idle" /\ pc' = pc /\ s' = s /\ donated[t] = 0
      /\ ledger' = Move(ledger, u, Router, t, x, x)
      /\ donated' = [donated EXCEPT ![t] = x] /\ snapshot'[1] = ledger'
  BY DEF Donate
<1>2. \A v \in Token : ledger[Router][v] = donated[v] /\ donated[v] \in Int
  BY <1>1 DEF Settled, Held
<1>3. \A v \in Token : ledger'[Router][v] = ledger[Router][v] + (IF v = t THEN x ELSE 0)
  BY <1>1, <1>2, RouterKnown DEF Move
<1>4. donated' \in [Token -> Int] /\ \A v \in Token : ledger'[Router][v] = donated'[v]
  BY <1>1, <1>2, <1>3 DEF Settled
<1> QED BY <1>1, <1>4 DEF Settled, Held

LEMMA SettledHolds == Tidy /\ IInv /\ IInv' /\ Settled /\ [Next]_vars => Settled'
<1> SUFFICES ASSUME Tidy, IInv, IInv', Settled, [Next]_vars
             PROVE  Settled'
  OBVIOUS
<1>1. ASSUME NEW c \in Calls, Execute(c) PROVE Settled'
  BY <1>1, ExecuteSettles
<1>2. CASE SkipLeg
  BY <1>2, SkipSettles
<1>3. CASE RunLeg
  BY <1>3, RunSettles
<1>4. CASE Finish
  BY <1>4, FinishSettles
<1>5. CASE SweepOne
  BY <1>5, SweepSettles
<1>6. CASE Return
  BY <1>6, ReturnSettles
<1>7. CASE Revert
  BY <1>7, RevertSettles
<1>8. ASSUME NEW u \in User, NEW t \in Token, NEW x \in 1..MaxGift, Donate(u, t, x)
      PROVE  Settled'
  BY <1>8, DonateSettles
<1>9. CASE UNCHANGED vars
  <2>1. UNCHANGED <<ledger, pc, call, bal, s, snapshot, donated>>
    BY <1>9 DEF vars, chain, walk
  <2> QED
    BY <2>1 DEF Settled, PaidOut, Kept, Done, Pulled, Held, Coin
<1> QED BY <1>1, <1>2, <1>3, <1>4, <1>5, <1>6, <1>7, <1>8, <1>9 DEF Next

\* When the sweep is over every slot is behind it.
LEMMA SettledPays ==
    ASSUME Tidy, IInv, Settled
    PROVE  CallerIsPaidInFull
<1>1. ASSUME pc = "sweep", s = Len(call.tokens), NEW slot \in 0..Len(call.tokens) - 1
      PROVE  ledger[call.sender][Coin(slot)] - snapshot[1][call.sender][Coin(slot)] =
                bal[slot]
                + (IF slot = call.dst_slot THEN 0 ELSE snapshot[1][Router][Coin(slot)])
                - (IF slot = 0 THEN call.amount_in ELSE 0)
  <2>1. call \in Calls
    BY <1>1 DEF IInv, Typed
  <2>2. Coin(slot) \in Token /\ slot \in Slot /\ call.sender \in Account
        /\ call.amount_in \in Int
    BY <2>1, CoinsDiffer, CallKnown, RouterKnown, ConstantAssumption DEF Slot
  <2>3. Len(call.tokens) \in Nat /\ call.dst_slot \in Nat
    BY <2>1, CallKnown DEF Slot
  <2>4. PaidOut(slot)
    <3>1. Done(slot)
      BY <1>1, <2>3 DEF Done
    <3> QED BY <1>1, <3>1 DEF Settled
  <2>5. /\ bal[slot] \in Int /\ snapshot[1][call.sender][Coin(slot)] \in Int
        /\ donated[Coin(slot)] \in Int
        /\ snapshot[1][Router][Coin(slot)] = donated[Coin(slot)]
    BY <2>2 DEF IInv, Typed, Wallets, Settled
  <2>6. CASE slot = call.dst_slot
    BY <2>2, <2>4, <2>5, <2>6 DEF PaidOut, Pulled
  <2>7. CASE slot # call.dst_slot
    BY <2>2, <2>4, <2>5, <2>7 DEF PaidOut, Pulled
  <2> QED BY <2>6, <2>7
<1>2. pc = "idle" => \A t \in Token : Held(t) = donated[t]
  BY DEF Settled
<1> QED BY <1>1, <1>2 DEF CallerIsPaidInFull

(* For every tidily encoded call, whatever its pools pay: after the sweep   *)
(* the caller has been paid slot for slot what the books say, and nothing   *)
(* of the call is left on the contract (RouteExecutor.vy:384-385).          *)
THEOREM CallerPaid == ASSUME Tidy PROVE Spec => []CallerIsPaidInFull
<1>1. Init => IInv /\ Settled
  BY InitHolds, InitSettled
<1>2. IInv /\ Settled /\ [Next]_vars => IInv' /\ Settled'
  BY StepHolds, SettledHolds
<1>3. IInv /\ Settled => CallerIsPaidInFull
  BY SettledPays
<1> QED BY <1>1, <1>2, <1>3, PTL DEF Spec

=============================================================================

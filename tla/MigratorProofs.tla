---------------------------- MODULE MigratorProofs ----------------------------
(***************************************************************************)
(* Safety of the graduation for every size of the curve, every price and   *)
(* depth of the pool and every donation.                                   *)
(***************************************************************************)
EXTENDS Graduation, ArithmeticProofs

HoldType == [Leg -> [Account -> Int]]
PoolType == [price : Nat \ {0}, depth : Nat]

-----------------------------------------------------------------------------
(* Ledger lemmas *)

(* A transfer changes two entries and keeps the type of the ledger. *)
LEMMA MovedFacts ==
    ASSUME NEW h \in HoldType, NEW asset \in Leg, NEW from \in Account, NEW to \in Account,
           NEW amount \in Int, from # to
    PROVE  /\ Moved(h, asset, from, to, amount) \in HoldType
           /\ \A b \in Leg, x \in Account :
                 Moved(h, asset, from, to, amount)[b][x] =
                    IF b = asset /\ x = from THEN h[b][x] - amount
                    ELSE IF b = asset /\ x = to THEN h[b][x] + amount ELSE h[b][x]
  BY DEF Moved, HoldType

(* The same, entry by entry, for a ledger g that a transfer results in. *)
LEMMA MovedAt ==
    ASSUME NEW h, NEW asset, NEW from, NEW to, NEW amount, NEW g,
           g = Moved(h, asset, from, to, amount),
           h \in HoldType, asset \in Leg, from \in Account, to \in Account, from # to
    PROVE  /\ g[asset][from] = h[asset][from] - amount
           /\ g[asset][to] = h[asset][to] + amount
           /\ \A x \in Account : x # from /\ x # to => g[asset][x] = h[asset][x]
           /\ \A b \in Leg : b # asset => g[b] = h[b]
  BY DEF Moved, HoldType

TotalIn(h, asset) ==
    h[asset]["curve"] + h[asset]["migrator"] + h[asset]["pool"]
      + h[asset]["position"] + h[asset]["treasury"] + h[asset]["dead"]
      + h[asset]["caller"]

(* A transfer creates nothing and destroys nothing. *)
LEMMA MovedTotal ==
    ASSUME NEW h \in HoldType, NEW asset \in Leg, NEW from \in Account, NEW to \in Account,
           NEW amount \in Int, from # to, NEW b \in Leg
    PROVE  TotalIn(Moved(h, asset, from, to, amount), b) = TotalIn(h, b)
  <1> DEFINE g == Moved(h, asset, from, to, amount)
  <1>1. /\ g \in HoldType
        /\ \A x \in Account : g[b][x] = IF b = asset /\ x = from THEN h[b][x] - amount
                 ELSE IF b = asset /\ x = to THEN h[b][x] + amount ELSE h[b][x]
    BY MovedFacts
  <1> HIDE DEF g
  <1>2. \A x \in Account : h[b][x] \in Int /\ g[b][x] \in Int
    BY <1>1 DEF HoldType
  <1>3. b # asset => TotalIn(g, b) = TotalIn(h, b)
    BY <1>1, <1>2 DEF TotalIn, Account
  <1>4. b = asset => TotalIn(g, b) = TotalIn(h, b)
    <2> DEFINE D(x) == IF x = from THEN -amount ELSE IF x = to THEN amount ELSE 0
               S == D("curve") + D("migrator") + D("pool") + D("position")
                      + D("treasury") + D("dead") + D("caller")
    <2>1. amount \in Int /\ from # to
      OBVIOUS
    <2>2. from = "curve" => S = 0
      BY <2>1 DEF Account
    <2>3. from = "migrator" => S = 0
      BY <2>1 DEF Account
    <2>4. from = "pool" => S = 0
      BY <2>1 DEF Account
    <2>5. from = "position" => S = 0
      BY <2>1 DEF Account
    <2>6. from = "treasury" => S = 0
      BY <2>1 DEF Account
    <2>7. from = "dead" => S = 0
      BY <2>1 DEF Account
    <2>8. from = "caller" => S = 0
      BY <2>1 DEF Account
    <2>9. S = 0
      BY <2>2, <2>3, <2>4, <2>5, <2>6, <2>7, <2>8 DEF Account
    <2>10. b = asset => \A x \in Account : g[b][x] = h[b][x] + D(x) /\ D(x) \in Int
      BY <1>1, <1>2
    <2> HIDE DEF D
    <2>11. b = asset =>
             /\ g[b]["curve"] = h[b]["curve"] + D("curve") /\ D("curve") \in Int /\ h[b]["curve"] \in Int
             /\ g[b]["migrator"] = h[b]["migrator"] + D("migrator") /\ D("migrator") \in Int /\ h[b]["migrator"] \in Int
             /\ g[b]["pool"] = h[b]["pool"] + D("pool") /\ D("pool") \in Int /\ h[b]["pool"] \in Int
             /\ g[b]["position"] = h[b]["position"] + D("position") /\ D("position") \in Int /\ h[b]["position"] \in Int
             /\ g[b]["treasury"] = h[b]["treasury"] + D("treasury") /\ D("treasury") \in Int /\ h[b]["treasury"] \in Int
             /\ g[b]["dead"] = h[b]["dead"] + D("dead") /\ D("dead") \in Int /\ h[b]["dead"] \in Int
             /\ g[b]["caller"] = h[b]["caller"] + D("caller") /\ D("caller") \in Int /\ h[b]["caller"] \in Int
      BY <1>2, <2>10 DEF Account
    <2> QED BY <2>9, <2>11 DEF TotalIn
  <1> QED BY <1>3, <1>4 DEF g

-----------------------------------------------------------------------------
(* Constants *)

(* The mint floors are naturals, the target is one of the prices. *)
LEMMA FloorFacts ==
    /\ TargetWeth \in Nat \ {0}
    /\ BPS - MIGRATION_SLIPPAGE_BPS \in 0 .. BPS
    /\ tokenMin \in Nat /\ tokenMin <= LP_TOKEN_TRANCHE
    /\ BPS * tokenMin <= LP_TOKEN_TRANCHE * (BPS - MIGRATION_SLIPPAGE_BPS)
    /\ LP_TOKEN_TRANCHE * (BPS - MIGRATION_SLIPPAGE_BPS) < BPS * tokenMin + BPS
  <1> DEFINE d == BPS - MIGRATION_SLIPPAGE_BPS
  <1>1. TargetWeth \in Nat \ {0} /\ d \in 0 .. BPS
    BY MigratorAssumption, VaultAssumption DEF TargetWeth
  <1>2. LP_TOKEN_TRANCHE \in Nat /\ BPS \in Nat \ {0}
    BY MigratorAssumption, VaultAssumption
  <1>3. LP_TOKEN_TRANCHE * d \in Nat /\ LP_TOKEN_TRANCHE * d <= BPS * LP_TOKEN_TRANCHE
    <2>1. d * LP_TOKEN_TRANCHE <= BPS * LP_TOKEN_TRANCHE
      BY <1>1, <1>2, ProductMonotone
    <2> QED BY <1>1, <1>2, <2>1
  <1>4. tokenMin = (LP_TOKEN_TRANCHE * d) \div BPS
    BY DEF tokenMin
  <1>5. /\ tokenMin \in Nat /\ BPS * tokenMin <= LP_TOKEN_TRANCHE * d
        /\ LP_TOKEN_TRANCHE * d < BPS * tokenMin + BPS
    BY <1>2, <1>3, <1>4, DivBounds
  <1>6. BPS * tokenMin <= BPS * LP_TOKEN_TRANCHE
    BY <1>2, <1>3, <1>5
  <1>7. tokenMin <= LP_TOKEN_TRANCHE
    BY <1>2, <1>5, <1>6, ProductCancel
  <1> QED BY <1>1, <1>5, <1>7

(* A part of an amount: MIGRATION_SLIPPAGE_BPS of it, rounded down, leaves *)
(* at least the rest.                                                      *)
LEMMA SlippagePart ==
    ASSUME NEW x \in Nat
    PROVE  /\ (x * MIGRATION_SLIPPAGE_BPS) \div BPS \in 0 .. x
           /\ BPS * ((x * MIGRATION_SLIPPAGE_BPS) \div BPS) <= x * MIGRATION_SLIPPAGE_BPS
  <1> DEFINE q == (x * MIGRATION_SLIPPAGE_BPS) \div BPS
  <1>1. BPS \in Nat \ {0} /\ MIGRATION_SLIPPAGE_BPS \in 0 .. BPS
    BY MigratorAssumption, VaultAssumption
  <1>2. x * MIGRATION_SLIPPAGE_BPS \in Nat
    BY <1>1
  <1>3. q \in Nat /\ BPS * q <= x * MIGRATION_SLIPPAGE_BPS
    BY <1>1, <1>2, DivBounds
  <1> HIDE DEF q
  <1>4. MIGRATION_SLIPPAGE_BPS * x <= BPS * x
    BY <1>1, ProductMonotone
  <1>5. BPS * q <= BPS * x
    BY <1>1, <1>3, <1>4
  <1>6. q <= x
    BY <1>1, <1>3, <1>5, ProductCancel
  <1> QED BY <1>3, <1>6 DEF q

-----------------------------------------------------------------------------
(* The mint at a price near the target.  L tokens pair with p WETH there,  *)
(* with W at the target; d of B is what the slippage leaves.               *)

(* What the arb-back left of the raise pairs, with a wei to spare, with    *)
(* the token floor and a unit of liquidity.                                *)
LEMMA RaisePairsFloor ==
    ASSUME NEW L \in Nat, NEW W \in Nat, NEW B \in Nat, NEW d \in Nat,
           NEW w \in Nat, NEW m \in Nat, NEW r \in Nat,
           B > 0, w > 0, B * (w - 1) >= W * d, B * m <= L * d, r * W <= L
    PROVE  (m + r) * W <= w * L
  <1>0. w - 1 \in Nat
    OBVIOUS
  <1>1. (W * d) * L <= (B * (w - 1)) * L
    BY <1>0, ProductMonotone
  <1>2. (B * m) * W <= (L * d) * W
    BY ProductMonotone
  <1>3. B * (m * W) <= B * ((w - 1) * L)
    BY <1>0, <1>1, <1>2
  <1>4. m * W \in Nat /\ (w - 1) * L \in Nat
    BY <1>0
  <1>5. m * W <= (w - 1) * L
    BY <1>3, <1>4, ProductCancel
  <1> QED BY <1>5

(* Rounding up makes good what rounding the tokens down by less than a     *)
(* unit of liquidity takes away: of a position from the full tranche,      *)
LEMMA TrancheRoundedDown ==
    ASSUME NEW L \in Nat, NEW p \in Nat, NEW r \in Nat, NEW t \in Nat, NEW n \in Nat,
           NEW u \in Nat, L > 0, p > 0, t >= L, r * p <= L, n + r > t, L * u >= n * p
    PROVE  u >= p
  <1>1. (L + 1) * p <= (n + r) * p
    BY ProductMonotone
  <1>2. L * p < L * (u + 1)
    BY <1>1
  <1>3. u + 1 <= p => (u + 1) * L <= p * L
    BY ProductMonotone
  <1> QED BY <1>2, <1>3

(* and of one from all of the WETH.                                        *)
LEMMA RaiseRoundedDown ==
    ASSUME NEW L \in Nat, NEW p \in Nat, NEW r \in Nat, NEW w \in Nat, NEW x \in Nat,
           NEW n \in Nat, NEW u \in Nat, L > 0, p > 0, w * L < p * x + p,
           r * p <= L, n + r > x, L * u >= n * p
    PROVE  u >= w
  <1>1. (x + 1) * p <= (n + r) * p
    BY ProductMonotone
  <1>2. L * w < L * (u + 1)
    BY <1>1
  <1>3. u + 1 <= w => (u + 1) * L <= w * L
    BY ProductMonotone
  <1> QED BY <1>2, <1>3

(* Above the target, the tokens the arb-back left still pair with enough   *)
(* WETH, less than one wei short, because a token is worth at most a wei.  *)
LEMMA WethPairsRest ==
    ASSUME NEW L \in Nat, NEW W \in Nat, NEW B \in Nat, NEW d \in Nat,
           NEW p \in Nat, NEW t \in Nat, NEW u \in Nat, NEW m \in Nat,
           L > 0, B > 0, W > 0, W <= L, p >= W, L * u >= t * p,
           L * d < B * t + B, B * m <= W * d
    PROVE  u >= m
  <1>1. W * t <= p * t
    BY ProductMonotone
  <1>2. W * t <= L * u
    BY <1>1
  <1>3. (W * t) * B <= (L * u) * B
    BY <1>2, ProductMonotone
  <1>4. (L * d + 1) * W <= (B * t + B) * W
    BY ProductMonotone
  <1>5. W * B <= L * B
    BY ProductMonotone
  <1>6. (B * m) * L <= (W * d) * L
    BY ProductMonotone
  <1>7. (L * B) * m < (L * B) * (u + 1)
    BY <1>3, <1>4, <1>5, <1>6
  <1>8. u + 1 <= m => (u + 1) * (L * B) <= m * (L * B)
    BY ProductMonotone
  <1> QED BY <1>7, <1>8

-----------------------------------------------------------------------------
(* The inductive invariant *)

TxType ==
    [at : {"none", "arb", "mint"}, i : 0 .. MAX_ARB_ITERATIONS, wethArbSpent : Int,
     wethForMint : Int, pool : {NoPool} \cup PoolType, hold : {<< >>} \cup HoldType]

MTypeOK ==
    /\ tokenIsToken0 \in BOOLEAN /\ migrated \in BOOLEAN
    /\ pool \in {NoPool} \cup PoolType
    /\ hold \in HoldType /\ donated \in [Leg -> Nat] /\ tx \in TxType

Balanced(h) ==
    /\ TotalIn(h, "token") = LP_TOKEN_TRANCHE + donated["token"]
    /\ TotalIn(h, "weth") = GRADUATION_ETH + donated["weth"]

(* A ledger between transactions. *)
AtRest(h) ==
    /\ h \in HoldType /\ Balanced(h)
    /\ h["token"]["migrator"] = 0 /\ h["weth"]["migrator"] = 0
    /\ ~migrated => /\ h["token"]["curve"] = LP_TOKEN_TRANCHE + donated["token"]
                    /\ h["weth"]["curve"] = GRADUATION_ETH + donated["weth"]

(* What the arb-back has left: it sells tokens only above the target and   *)
(* buys them only below it, and never crosses it.                          *)
ArbInv ==
    LET tokens == hold["token"]["migrator"]
        weth   == hold["weth"]["migrator"]
    IN /\ tx.wethForMint >= TargetWeth
       /\ tx.wethArbSpent \in 0 .. (tx.wethForMint * MIGRATION_SLIPPAGE_BPS) \div BPS
       /\ weth >= tx.wethForMint - tx.wethArbSpent
       /\ \/ tokens >= LP_TOKEN_TRANCHE /\ tx.wethArbSpent = 0
          \/ tokens >= tokenMin /\ tx.wethArbSpent = 0 /\ pool.price >= TargetWeth
          \/ tokens >= LP_TOKEN_TRANCHE /\ pool.price <= TargetWeth

(* A migrate transaction that runs. *)
TxInv ==
    /\ ~migrated /\ pool \in PoolType /\ tx.pool \in PoolType
    /\ Balanced(hold) /\ AtRest(tx.hold)
    /\ hold["token"]["curve"] = 0 /\ hold["weth"]["curve"] = 0
    /\ hold["weth"]["treasury"] = tx.hold["weth"]["treasury"] + GRADUATION_FEE
    /\ ArbInv

MigratorInv ==
    /\ MTypeOK
    /\ Idle => tx = NoTx /\ AtRest(hold)
    /\ ~Idle => TxInv

(* The heart of it: with what the arb-back has left, a mint at a price     *)
(* within the slippage meets both floors, wherever the liquidity's         *)
(* rounding puts it.                                                       *)
THEOREM FloorsMet ==
    ASSUME MTypeOK, pool \in PoolType, ArbInv, PriceCarriesFloors, BudgetLeft,
           NEW size \in PositionSize
    PROVE  MintAccepted(size)
  <1> DEFINE L == LP_TOKEN_TRANCHE
             W == TargetWeth
             R == LiquidityUnit
             m == tokenMin
             d == BPS - MIGRATION_SLIPPAGE_BPS
             p == pool.price
             t == hold["token"]["migrator"]
             w == hold["weth"]["migrator"]
             part == (tx.wethForMint * MIGRATION_SLIPPAGE_BPS) \div BPS
             x == (w * L) \div p
  <1>1. /\ L \in Nat \ {0} /\ W \in Nat \ {0} /\ R \in Nat \ {0} /\ BPS \in Nat \ {0}
        /\ R * W <= L /\ W <= L
        /\ d \in 0 .. BPS /\ MIGRATION_SLIPPAGE_BPS \in 0 .. BPS
    <2>1. R \in Nat \ {0} /\ R * W <= L
      BY MigratorAssumption
    <2>2. W \in Nat \ {0}
      BY FloorFacts
    <2>3. 1 * W <= R * W
      BY <2>1, <2>2, ProductMonotone
    <2> QED BY <2>1, <2>2, <2>3, FloorFacts, MigratorAssumption, VaultAssumption
  <1>2. /\ m \in Nat /\ m <= L /\ BPS * m <= L * d /\ L * d < BPS * m + BPS
    BY FloorFacts
  <1>3. p \in Nat \ {0} /\ t \in Int /\ w \in Int /\ tx.wethForMint \in Int /\ tx.wethArbSpent \in Int
    BY DEF MTypeOK, PoolType, HoldType, TxType, Leg, Account
  <1>4. /\ tx.wethForMint \in Nat /\ tx.wethForMint >= W
        /\ tx.wethArbSpent \in 0 .. part /\ w >= tx.wethForMint - tx.wethArbSpent
        /\ \/ t >= L /\ tx.wethArbSpent = 0
           \/ t >= m /\ tx.wethArbSpent = 0 /\ p >= W
           \/ t >= L /\ p <= W
    BY <1>1, <1>3 DEF ArbInv
  <1>5. part \in 0 .. tx.wethForMint /\ BPS * part <= tx.wethForMint * MIGRATION_SLIPPAGE_BPS
    BY <1>4, SlippagePart
  <1>6. t >= m + R /\ (tx.wethArbSpent > 0 => tx.wethArbSpent < part)
    BY <1>1, <1>2, <1>3, <1>5 DEF BudgetLeft, Budget
  <1>7. t \in Nat /\ w \in Nat /\ (tx.wethArbSpent > 0 => w > 0)
    BY <1>1, <1>2, <1>3, <1>4, <1>5, <1>6
  <1>8. p * BPS >= W * d /\ (m + R) * p <= L * W
    BY DEF PriceCarriesFloors
  <1>9. wethMin \in Nat /\ BPS * wethMin <= W * d
    <2>1. wethMin = (W * d) \div BPS
      BY <1>1, <1>4 DEF wethMin, Min2
    <2>2. W * d \in Nat
      BY <1>1
    <2> QED BY <1>1, <2>1, <2>2, DivBounds
  <1>10. /\ size \in Nat /\ size <= t /\ size <= x
         /\ size + R > t \/ size + R > x
         /\ x \in Nat /\ p * x <= w * L /\ w * L < p * x + p
    <2>1. w * L \in Nat
      BY <1>1, <1>7
    <2>2. x \in Nat /\ p * x <= w * L /\ w * L < p * x + p
      BY <1>3, <2>1, DivBounds
    <2>3. FullPosition = IF t <= x THEN t ELSE x
      BY DEF FullPosition, Min2
    <2>4. size \in 0 .. FullPosition /\ size > FullPosition - R
      BY DEF PositionSize
    <2> HIDE DEF x, t, R
    <2> QED BY <1>1, <1>7, <2>2, <2>3, <2>4
  <1>11. /\ Used("token", size) = size
         /\ Used("weth", size) = CeilDiv(size * p, L)
    BY DEF Used
  <1> HIDE DEF L, W, R, m, d, p, t, w, part, x
  <1>12. tx.wethArbSpent = 0 => w >= W
    BY <1>1, <1>3, <1>4, <1>7
  <1>13. tx.wethArbSpent > 0 => BPS * (w - 1) >= W * d
    <2> SUFFICES ASSUME tx.wethArbSpent > 0 PROVE BPS * (w - 1) >= W * d
      OBVIOUS
    <2>1. tx.wethForMint <= (w - 1) + part /\ w - 1 \in Nat
      BY <1>3, <1>4, <1>5, <1>6, <1>7
    <2>2. tx.wethForMint * BPS <= ((w - 1) + part) * BPS
      BY <1>1, <1>4, <1>5, <2>1, ProductMonotone
    <2>3. W * d <= tx.wethForMint * d
      BY <1>1, <1>4, ProductMonotone
    <2>4. tx.wethForMint * d = tx.wethForMint * BPS - tx.wethForMint * MIGRATION_SLIPPAGE_BPS
      BY <1>1, <1>4 DEF d
    <2> QED BY <1>1, <1>4, <1>5, <2>1, <2>2, <2>3, <2>4
  <1>14. w >= wethMin
    <2>1. BPS * wethMin <= BPS * w
      <3>1. CASE w >= W
        <4>1. W * BPS <= w * BPS /\ d * W <= BPS * W
          BY <1>1, <1>7, <3>1, ProductMonotone
        <4> QED BY <1>1, <1>7, <1>9, <4>1
      <3>2. CASE tx.wethArbSpent > 0
        BY <1>1, <1>7, <1>9, <1>13, <3>2
      <3> QED BY <1>3, <1>4, <1>12, <3>1, <3>2
    <2> QED BY <1>1, <1>7, <1>9, <2>1, ProductCancel
  <1>15. x >= m + R
    <2>1. (m + R) * p <= w * L
      <3>1. CASE w >= W
        <4>1. W * L <= w * L
          BY <1>1, <1>7, <3>1, ProductMonotone
        <4> QED BY <1>1, <1>2, <1>3, <1>7, <1>8, <4>1
      <3>2. CASE w < W
        <4>1. tx.wethArbSpent > 0 /\ p <= W
          BY <1>1, <1>3, <1>4, <1>7, <1>12, <3>2
        <4>2. (m + R) * W <= w * L
          BY <1>1, <1>2, <1>7, <1>13, <4>1, RaisePairsFloor
        <4>3. p * (m + R) <= W * (m + R)
          BY <1>1, <1>2, <1>3, <4>1, ProductMonotone
        <4> QED BY <1>1, <1>2, <1>3, <1>7, <4>2, <4>3
      <3> QED BY <1>1, <1>7, <3>1, <3>2
    <2>2. (m + R) * p < (x + 1) * p
      BY <1>1, <1>2, <1>3, <1>7, <1>10, <2>1
    <2>3. x + 1 <= m + R => (x + 1) * p <= (m + R) * p
      BY <1>1, <1>2, <1>3, <1>10, ProductMonotone
    <2> QED BY <1>1, <1>2, <1>3, <1>10, <2>2, <2>3
  <1>16. size > m
    BY <1>1, <1>2, <1>6, <1>7, <1>10, <1>15
  <1>17. CeilDiv(size * p, L) >= wethMin
    <2> DEFINE u == CeilDiv(size * p, L)
    <2>1. u \in Nat /\ size * p <= L * u
      <3>1. size * p \in Nat
        BY <1>3, <1>10
      <3> QED BY <1>1, <3>1, CeilDivBounds
    <2> HIDE DEF u
    <2>2. CASE p >= W
      <3>1. m * BPS <= size * BPS
        BY <1>1, <1>2, <1>10, <1>16, ProductMonotone
      <3>2. L * d < BPS * size + BPS
        BY <1>1, <1>2, <1>10, <3>1
      <3> QED BY <1>1, <1>3, <1>9, <1>10, <2>1, <2>2, <3>2, WethPairsRest DEF u
    <2>3. CASE p < W
      <3>1. t >= L
        BY <1>1, <1>3, <1>4, <1>7, <2>3
      <3>2. R * p <= L
        <4>1. p * R <= W * R
          BY <1>1, <1>3, <2>3, ProductMonotone
        <4> QED BY <1>1, <1>3, <4>1
      <3>3. CASE size + R > t
        <4>1. u >= p
          BY <1>1, <1>3, <1>7, <1>10, <2>1, <3>1, <3>2, <3>3, TrancheRoundedDown
        <4>2. p * BPS <= u * BPS
          BY <1>1, <1>3, <2>1, <4>1, ProductMonotone
        <4>3. BPS * wethMin <= BPS * u
          BY <1>1, <1>3, <1>8, <1>9, <2>1, <4>2
        <4> QED BY <1>1, <1>9, <2>1, <4>3, ProductCancel DEF u
      <3>4. CASE size + R > x
        <4>1. u >= w
          BY <1>1, <1>3, <1>7, <1>10, <2>1, <3>2, <3>4, RaiseRoundedDown
        <4> QED BY <1>7, <1>9, <1>14, <2>1, <4>1 DEF u
      <3> QED BY <1>10, <3>3, <3>4
    <2> QED BY <1>1, <1>3, <2>2, <2>3
  <1> QED BY <1>2, <1>10, <1>11, <1>16, <1>17 DEF MintAccepted, m

-----------------------------------------------------------------------------
(* Every step keeps the invariant *)

LEMMA MigratorInitially == MigratorInit => MigratorInv
  <1> SUFFICES ASSUME MigratorInit PROVE MigratorInv
    OBVIOUS
  <1>1. LP_TOKEN_TRANCHE \in Nat /\ GRADUATION_ETH \in Nat /\ MAX_ARB_ITERATIONS \in Nat
    BY MigratorAssumption
  <1>2. hold \in HoldType
    BY <1>1 DEF MigratorInit, HoldType, Leg
  <1>3. /\ \A x \in Account : hold["token"][x] = IF x = "curve" THEN LP_TOKEN_TRANCHE ELSE 0
        /\ \A x \in Account : hold["weth"][x] = IF x = "curve" THEN GRADUATION_ETH ELSE 0
    BY DEF MigratorInit, Leg
  <1>4. donated \in [Leg -> Nat] /\ donated["token"] = 0 /\ donated["weth"] = 0
    BY DEF MigratorInit, Leg
  <1>5. AtRest(hold)
    BY <1>1, <1>2, <1>3, <1>4 DEF AtRest, Balanced, TotalIn, Account
  <1>6. tx = NoTx /\ tx \in TxType /\ Idle
    BY <1>1 DEF MigratorInit, NoTx, TxType, Idle
  <1>7. MTypeOK
    BY <1>2, <1>4, <1>6 DEF MTypeOK, MigratorInit
  <1> QED BY <1>5, <1>6, <1>7 DEF MigratorInv

(* A transaction that reverts leaves the ledger it found. *)
LEMMA RevertsKeep ==
    ASSUME MigratorInv, ~Idle, Reverts
    PROVE  MigratorInv'
  <1>1. TxInv /\ MTypeOK
    BY DEF MigratorInv
  <1>2. /\ pool' = tx.pool /\ hold' = tx.hold /\ tx' = NoTx
        /\ UNCHANGED <<tokenIsToken0, donated, migrated>>
    BY DEF Reverts
  <1>3. AtRest(hold)'
    BY <1>1, <1>2 DEF TxInv, AtRest, Balanced, TotalIn
  <1>4. NoTx \in TxType /\ NoTx.at = "none"
    BY MigratorAssumption DEF NoTx, TxType
  <1>5. MTypeOK'
    BY <1>1, <1>2, <1>3, <1>4 DEF MTypeOK, TxInv, AtRest
  <1> QED BY <1>2, <1>3, <1>4, <1>5 DEF MigratorInv, Idle

LEMMA PoolUsersKeep ==
    ASSUME MigratorInv, PoolUsers
    PROVE  MigratorInv'
  <1>1. Idle /\ MTypeOK /\ tx = NoTx /\ AtRest(hold)
    BY DEF MigratorInv, PoolUsers, InitializePool, PoolMoves, Donate
  <1>2. CASE InitializePool \/ PoolMoves
    <2>1. UNCHANGED <<tokenIsToken0, hold, donated, tx, migrated>>
      BY <1>2 DEF InitializePool, PoolMoves
    <2>2. pool' \in {NoPool} \cup PoolType
      <3>1. [price : Price, depth : Depth] \subseteq PoolType
        BY MigratorAssumption DEF PoolType
      <3>2. [price |-> TargetWeth, depth |-> 0] \in PoolType
        BY FloorFacts DEF PoolType
      <3>3. PoolMoves => pool' \in [price : Price, depth : Depth]
        BY DEF PoolMoves
      <3>4. InitializePool => pool' \in {pool, [price |-> TargetWeth, depth |-> 0]}
        BY DEF InitializePool
      <3> QED BY <1>1, <1>2, <3>1, <3>2, <3>3, <3>4 DEF MTypeOK
    <2>3. AtRest(hold)' /\ Idle'
      BY <1>1, <2>1 DEF AtRest, Balanced, Idle
    <2> QED BY <1>1, <2>1, <2>2, <2>3 DEF MigratorInv, MTypeOK
  <1>3. ASSUME NEW asset \in Leg, NEW amount \in Donation, Donate(asset, amount)
        PROVE  MigratorInv'
    <2>1. /\ ~migrated /\ donated[asset] = 0
          /\ donated' = [donated EXCEPT ![asset] = amount]
          /\ hold' = [hold EXCEPT ![asset]["curve"] = @ + amount]
          /\ UNCHANGED <<tokenIsToken0, pool, tx, migrated>>
      BY <1>3 DEF Donate
    <2>2. amount \in Nat /\ hold \in HoldType /\ donated \in [Leg -> Nat]
      BY <1>1, MigratorAssumption DEF MTypeOK
    <2>3. hold' \in HoldType /\ donated' \in [Leg -> Nat]
      BY <2>1, <2>2 DEF HoldType, Leg, Account
    <2>4. \A b \in Leg, x \in Account :
             hold'[b][x] = IF b = asset /\ x = "curve" THEN hold[b][x] + amount ELSE hold[b][x]
      BY <2>1, <2>2 DEF HoldType, Leg, Account
    <2>5. \A b \in Leg : donated'[b] = IF b = asset THEN donated[b] + amount ELSE donated[b]
      BY <2>1, <2>2
    <2>6. \A b \in Leg : TotalIn(hold', b) = TotalIn(hold, b) + donated'[b] - donated[b]
      <3> SUFFICES ASSUME NEW b \in Leg
                   PROVE  TotalIn(hold', b) = TotalIn(hold, b) + donated'[b] - donated[b]
        OBVIOUS
      <3>1. \A x \in Account : hold[b][x] \in Int
        BY <2>2 DEF HoldType
      <3>2. donated[b] \in Nat /\ donated'[b] \in Nat
        BY <2>2, <2>3
      <3> QED BY <2>2, <2>4, <2>5, <3>1, <3>2 DEF TotalIn, Account
    <2>7. AtRest(hold)'
      <3>1. /\ "token" \in Leg /\ "weth" \in Leg
            /\ \A b \in Leg : TotalIn(hold, b) \in Int
        BY <2>2 DEF Leg, HoldType, TotalIn, Account
      <3>2. Balanced(hold)'
        BY <1>1, <2>2, <2>3, <2>6, <3>1, MigratorAssumption DEF AtRest, Balanced
      <3>3. /\ hold'["token"]["migrator"] = 0 /\ hold'["weth"]["migrator"] = 0
            /\ hold'["token"]["curve"] = LP_TOKEN_TRANCHE + donated'["token"]
            /\ hold'["weth"]["curve"] = GRADUATION_ETH + donated'["weth"]
        BY <1>1, <2>1, <2>2, <2>3, <2>4, <2>5, <3>1, MigratorAssumption DEF AtRest, Account
      <3> QED BY <2>3, <3>2, <3>3 DEF AtRest
    <2>8. MTypeOK'
      BY <1>1, <2>1, <2>3 DEF MTypeOK
    <2> QED BY <1>1, <2>1, <2>7, <2>8 DEF MigratorInv, Idle
  <1> QED BY <1>2, <1>3 DEF PoolUsers

(* graduate hands over everything but the reward; the fee goes first. *)
LEMMA BeginsKeeps ==
    ASSUME MigratorInv, MigrateBegins
    PROVE  MigratorInv' /\ ~Idle'
  <1> DEFINE tokens == hold["token"]["curve"]
             value == EthForwarded
             h1 == Moved(hold, "weth", "curve", "caller", CALLER_REWARD)
             h2 == Moved(h1, "token", "curve", "migrator", tokens)
             h3 == Moved(h2, "weth", "curve", "migrator", value)
             h4 == Moved(h3, "weth", "migrator", "treasury", GRADUATION_FEE)
  <1>1. /\ ~migrated /\ pool # NoPool /\ hold' = h4
        /\ tx' = [at |-> "arb", i |-> 0, wethArbSpent |-> 0,
                  wethForMint |-> value - GRADUATION_FEE, pool |-> pool, hold |-> hold]
        /\ UNCHANGED <<tokenIsToken0, pool, donated, migrated>>
    BY DEF MigrateBegins
  <1>2. MTypeOK /\ AtRest(hold)
    BY DEF MigratorInv, MigrateBegins
  <1>3. /\ hold \in HoldType /\ pool \in PoolType /\ donated \in [Leg -> Nat]
        /\ "token" \in Leg /\ "weth" \in Leg
        /\ "curve" \in Account /\ "caller" \in Account /\ "migrator" \in Account /\ "treasury" \in Account
    BY <1>1, <1>2 DEF MTypeOK, Leg, Account
  <1>4. /\ GRADUATION_ETH \in Nat /\ CALLER_REWARD \in Nat /\ GRADUATION_FEE \in Nat
        /\ LP_TOKEN_TRANCHE \in Nat \ {0} /\ MAX_ARB_ITERATIONS \in Nat
    BY MigratorAssumption
  <1>5. /\ tokens = LP_TOKEN_TRANCHE + donated["token"]
        /\ value = GRADUATION_ETH + donated["weth"] - CALLER_REWARD
        /\ donated["token"] \in Nat /\ donated["weth"] \in Nat
        /\ tokens \in Int /\ value \in Int
    BY <1>1, <1>2, <1>3, <1>4 DEF AtRest, EthForwarded
  <1> HIDE DEF tokens, value
  <1>6. h1 \in HoldType /\ h2 \in HoldType /\ h3 \in HoldType /\ h4 \in HoldType
    <2>1. h1 \in HoldType
      BY <1>3, <1>4, MovedFacts
    <2>2. h2 \in HoldType
      BY <1>3, <1>5, <2>1, MovedFacts
    <2>3. h3 \in HoldType
      BY <1>3, <1>5, <2>2, MovedFacts
    <2> QED BY <1>3, <1>4, <2>1, <2>2, <2>3, MovedFacts
  <1>7. /\ h2 = Moved(h1, "token", "curve", "migrator", tokens)
        /\ h3 = Moved(h2, "weth", "curve", "migrator", value)
        /\ h4 = Moved(h3, "weth", "migrator", "treasury", GRADUATION_FEE)
    OBVIOUS
  <1>11. \A b \in Leg : TotalIn(h4, b) = TotalIn(hold, b)
    <2> SUFFICES ASSUME NEW b \in Leg PROVE TotalIn(h4, b) = TotalIn(hold, b)
      OBVIOUS
    <2>1. TotalIn(h1, b) = TotalIn(hold, b)
      BY <1>3, <1>4, MovedTotal
    <2>2. TotalIn(h2, b) = TotalIn(h1, b)
      BY <1>3, <1>5, <1>6, MovedTotal
    <2>3. TotalIn(h3, b) = TotalIn(h2, b)
      BY <1>3, <1>5, <1>6, MovedTotal
    <2>4. TotalIn(h4, b) = TotalIn(h3, b)
      BY <1>3, <1>4, <1>6, MovedTotal
    <2> QED BY <2>1, <2>2, <2>3, <2>4
  <1>12. /\ h4["token"]["curve"] = 0 /\ h4["weth"]["curve"] = 0
         /\ h4["token"]["migrator"] = tokens
         /\ h4["weth"]["migrator"] = value - GRADUATION_FEE
         /\ h4["weth"]["treasury"] = hold["weth"]["treasury"] + GRADUATION_FEE
    <2>1. \A b \in Leg, x \in Account : hold[b][x] \in Int
      BY <1>3 DEF HoldType
    <2>2. /\ hold["token"]["curve"] = tokens /\ hold["weth"]["curve"] = value + CALLER_REWARD
          /\ hold["token"]["migrator"] = 0 /\ hold["weth"]["migrator"] = 0
      BY <1>1, <1>2, <1>4, <1>5 DEF AtRest, tokens
    <2>0. h1 = Moved(hold, "weth", "curve", "caller", CALLER_REWARD)
      OBVIOUS
    <2> HIDE DEF h1, h2, h3, h4
    <2>3. /\ h1["token"] = hold["token"]
          /\ h1["weth"]["curve"] = hold["weth"]["curve"] - CALLER_REWARD
          /\ h1["weth"]["migrator"] = hold["weth"]["migrator"]
          /\ h1["weth"]["treasury"] = hold["weth"]["treasury"]
      BY <1>3, <2>0, MovedAt
    <2>4. /\ h2["weth"] = h1["weth"]
          /\ h2["token"]["curve"] = h1["token"]["curve"] - tokens
          /\ h2["token"]["migrator"] = h1["token"]["migrator"] + tokens
      BY <1>3, <1>6, <1>7, MovedAt
    <2>5. /\ h3["token"] = h2["token"]
          /\ h3["weth"]["curve"] = h2["weth"]["curve"] - value
          /\ h3["weth"]["migrator"] = h2["weth"]["migrator"] + value
          /\ h3["weth"]["treasury"] = h2["weth"]["treasury"]
      BY <1>3, <1>6, <1>7, MovedAt
    <2>6. /\ h4["token"] = h3["token"]
          /\ h4["weth"]["curve"] = h3["weth"]["curve"]
          /\ h4["weth"]["migrator"] = h3["weth"]["migrator"] - GRADUATION_FEE
          /\ h4["weth"]["treasury"] = h3["weth"]["treasury"] + GRADUATION_FEE
      BY <1>3, <1>6, <1>7, MovedAt
    <2>7. hold["weth"]["treasury"] \in Int
      BY <1>3, <2>1
    <2>8. h4["token"]["curve"] = 0 /\ h4["token"]["migrator"] = tokens
      BY <1>5, <2>2, <2>3, <2>4, <2>5, <2>6
    <2>9. h4["weth"]["curve"] = 0
      <3>1. h4["weth"]["curve"] = ((value + CALLER_REWARD) - CALLER_REWARD) - value
        BY <2>2, <2>3, <2>4, <2>5, <2>6
      <3> QED BY <1>4, <1>5, <3>1
    <2>10. h4["weth"]["migrator"] = value - GRADUATION_FEE
      <3>1. h4["weth"]["migrator"] = (0 + value) - GRADUATION_FEE
        BY <2>2, <2>3, <2>4, <2>5, <2>6
      <3> QED BY <1>4, <1>5, <3>1
    <2>11. h4["weth"]["treasury"] = hold["weth"]["treasury"] + GRADUATION_FEE
      BY <2>3, <2>4, <2>5, <2>6
    <2> QED BY <2>8, <2>9, <2>10, <2>11
  <1> HIDE DEF h1, h2, h3, h4
  <1>13. tx' \in TxType /\ tx'.at = "arb" /\ ~Idle'
    BY <1>1, <1>3, <1>4, <1>5 DEF TxType, Idle
  <1>14. MTypeOK'
    BY <1>1, <1>2, <1>6, <1>13 DEF MTypeOK
  <1>15. ArbInv'
    <2>1. /\ TargetWeth = GRADUATION_ETH - CALLER_REWARD - GRADUATION_FEE
          /\ TargetWeth \in Nat
      BY FloorFacts DEF TargetWeth
    <2>2. tx'.wethForMint = value - GRADUATION_FEE /\ tx'.wethArbSpent = 0
      BY <1>1
    <2>3. tx'.wethForMint \in Nat /\ tx'.wethForMint >= TargetWeth
      BY <1>4, <1>5, <2>1, <2>2
    <2>4. (tx'.wethForMint * MIGRATION_SLIPPAGE_BPS) \div BPS \in Nat
      BY <2>3, SlippagePart
    <2>5. hold'["token"]["migrator"] >= LP_TOKEN_TRANCHE /\ hold'["weth"]["migrator"] = tx'.wethForMint
      BY <1>1, <1>4, <1>5, <1>12, <2>2
    <2> QED BY <2>2, <2>3, <2>4, <2>5 DEF ArbInv
  <1>16. Balanced(hold)' /\ AtRest(tx.hold)'
    BY <1>1, <1>2, <1>3, <1>11 DEF AtRest, Balanced
  <1>17. TxInv'
    BY <1>1, <1>3, <1>12, <1>15, <1>16 DEF TxInv
  <1> QED BY <1>13, <1>14, <1>17 DEF MigratorInv

(* Off target, tokens are sold above it and bought below it. *)
LEMMA InputFacts ==
    ASSUME MTypeOK, pool \in PoolType, ~WithinTolerance
    PROVE  /\ pool.price > TargetWeth => inputAsset = "token"
           /\ pool.price <= TargetWeth => inputAsset = "weth"
           /\ pool.price # TargetWeth
  <1>1. tokenIsToken0 \in BOOLEAN /\ pool.price \in Nat /\ TargetWeth \in Nat /\ TOLERANCE_TICKS \in Nat
    BY FloorFacts, MigratorAssumption DEF MTypeOK, PoolType
  <1>2. pool.price # TargetWeth
    BY <1>1 DEF WithinTolerance
  <1>3. CASE pool.price > TargetWeth
    <2>1. ~(pool.price < TargetWeth)
      BY <1>1, <1>3
    <2> QED BY <1>1, <1>2, <1>3, <2>1 DEF inputAsset, zeroForOne
  <1>4. CASE pool.price < TargetWeth
    <2>1. ~(pool.price > TargetWeth)
      BY <1>1, <1>4
    <2> QED BY <1>1, <1>2, <1>4, <2>1 DEF inputAsset, zeroForOne
  <1> QED BY <1>1, <1>2, <1>3, <1>4

(* A swap spends at most its budget and stops at the target price. *)
LEMMA SwapFacts ==
    ASSUME MTypeOK, pool \in PoolType, ~WithinTolerance, NEW budget \in Nat,
           Swap(inputAsset, budget)
    PROVE  \E spent \in 0 .. budget, out \in Nat :
             /\ hold' = Moved(Moved(hold, inputAsset, "migrator", "pool", spent),
                              Other(inputAsset), "pool", "migrator", out)
             /\ tx' = [tx EXCEPT !.i = @ + 1,
                                 !.wethArbSpent = @ + (IF inputAsset = "weth" THEN spent ELSE 0)]
             /\ pool' \in PoolType
             /\ pool.price > TargetWeth => pool'.price >= TargetWeth
             /\ pool.price < TargetWeth => pool'.price <= TargetWeth
             /\ pool'.price = TargetWeth \/ spent = budget
  <1> DEFINE away == IF pool.price > TargetWeth THEN pool.price - TargetWeth
                                                ELSE TargetWeth - pool.price
             steps == IF pool.depth = 0 THEN away ELSE Min2(away, budget \div pool.depth)
             spent == IF steps = away THEN away * pool.depth ELSE budget
  <1>1. /\ pool.price \in Nat \ {0} /\ pool.depth \in Nat /\ TargetWeth \in Nat \ {0}
        /\ inputAsset \in {"token", "weth"}
        /\ pool.price > TargetWeth => inputAsset = "token"
        /\ pool.price <= TargetWeth => inputAsset = "weth"
        /\ pool.price # TargetWeth
    BY FloorFacts, InputFacts DEF PoolType, inputAsset
  <1>2. away \in Nat
    BY <1>1
  <1> HIDE DEF away
  <1>3. steps \in 0 .. away /\ (steps = away => away * pool.depth <= budget)
    <2>1. CASE pool.depth = 0
      BY <1>1, <1>2, <2>1
    <2>2. CASE pool.depth # 0
      <3>1. budget \div pool.depth \in Nat /\ pool.depth * (budget \div pool.depth) <= budget
        BY <1>1, <2>2, DivBounds
      <3> DEFINE q == budget \div pool.depth
      <3>2. steps = Min2(away, q)
        BY <2>2
      <3>3. q \in Nat /\ pool.depth * q <= budget
        BY <3>1
      <3> HIDE DEF q, steps
      <3>4. steps \in 0 .. away /\ steps <= q
        BY <1>2, <3>2, <3>3 DEF Min2
      <3>5. steps = away => away * pool.depth <= q * pool.depth
        BY <1>1, <1>2, <3>3, <3>4, ProductMonotone
      <3> QED BY <1>1, <1>2, <3>3, <3>4, <3>5
    <2> QED BY <2>1, <2>2
  <1> HIDE DEF steps
  <1>4. spent \in 0 .. budget
    BY <1>1, <1>2, <1>3
  <1>5. /\ pool' = [pool EXCEPT !.price = IF inputAsset = "token" THEN @ - steps ELSE @ + steps]
        /\ \E out \in 0 .. Worth(inputAsset, spent) :
              hold' = Moved(Moved(hold, inputAsset, "migrator", "pool", spent),
                            Other(inputAsset), "pool", "migrator", out)
        /\ tx' = [tx EXCEPT !.i = @ + 1,
                            !.wethArbSpent = @ + (IF inputAsset = "weth" THEN spent ELSE 0)]
    BY DEF Swap, away, steps
  <1>6. PICK out \in Nat :
           hold' = Moved(Moved(hold, inputAsset, "migrator", "pool", spent),
                         Other(inputAsset), "pool", "migrator", out)
    BY <1>5
  <1>7. /\ pool' \in PoolType
        /\ pool.price > TargetWeth => pool'.price >= TargetWeth
        /\ pool.price < TargetWeth => pool'.price <= TargetWeth
        /\ steps = away => pool'.price = TargetWeth
    <2>1. pool'.price = IF inputAsset = "token" THEN pool.price - steps ELSE pool.price + steps
      BY <1>5 DEF PoolType
    <2>2. pool'.depth = pool.depth /\ pool' = [price |-> pool'.price, depth |-> pool.depth]
      BY <1>5 DEF PoolType
    <2>3. CASE pool.price > TargetWeth
      <3>1. away = pool.price - TargetWeth
        BY <2>3 DEF away
      <3>2. pool'.price \in Nat \ {0} /\ pool'.price >= TargetWeth
            /\ (steps = away => pool'.price = TargetWeth)
        BY <1>1, <1>2, <1>3, <2>1, <2>3, <3>1
      <3> QED BY <1>1, <2>2, <2>3, <3>2 DEF PoolType
    <2>4. CASE pool.price < TargetWeth
      <3>1. away = TargetWeth - pool.price
        BY <1>1, <2>4 DEF away
      <3>2. pool'.price \in Nat \ {0} /\ pool'.price <= TargetWeth
            /\ (steps = away => pool'.price = TargetWeth)
        BY <1>1, <1>2, <1>3, <2>1, <2>4, <3>1
      <3> QED BY <1>1, <2>2, <2>4, <3>2 DEF PoolType
    <2> QED BY <1>1, <2>3, <2>4
  <1>8. steps # away => spent = budget
    OBVIOUS
  <1> HIDE DEF spent
  <1> QED BY <1>4, <1>5, <1>6, <1>7, <1>8

(* One step of the arb-back. *)
LEMMA ArbStepKeeps ==
    ASSUME MigratorInv, ArbStep
    PROVE  MigratorInv'
  <1>1. /\ tx.at = "arb" /\ tx.i < MAX_ARB_ITERATIONS /\ ~WithinTolerance /\ ~Idle
    BY DEF ArbStep, Idle
  <1>2. MTypeOK /\ TxInv /\ pool \in PoolType /\ ArbInv
    BY <1>1 DEF MigratorInv, TxInv
  <1>3. CASE Budget(inputAsset) <= 0
    BY <1>1, <1>3, RevertsKeep DEF ArbStep
  <1>4. CASE ~(Budget(inputAsset) <= 0)
    <2> DEFINE budget == Budget(inputAsset)
               part == (tx.wethForMint * MIGRATION_SLIPPAGE_BPS) \div BPS
    <2>1. /\ Swap(inputAsset, budget) /\ UNCHANGED <<tokenIsToken0, donated, migrated>>
      BY <1>1, <1>4 DEF ArbStep
    <2>2. /\ pool.price \in Nat \ {0} /\ TargetWeth \in Nat \ {0} /\ hold \in HoldType
          /\ hold["token"]["migrator"] \in Int /\ hold["weth"]["migrator"] \in Int
          /\ tokenMin \in Nat /\ tokenMin <= LP_TOKEN_TRANCHE
          /\ tx.wethForMint \in Int /\ tx.wethArbSpent \in Int /\ tx \in TxType
          /\ LP_TOKEN_TRANCHE \in Nat
      BY <1>2, FloorFacts, MigratorAssumption DEF MTypeOK, PoolType, HoldType, TxType, Leg, Account
    <2>3. /\ tx.wethForMint \in Nat /\ tx.wethForMint >= TargetWeth
          /\ tx.wethArbSpent \in 0 .. part
          /\ hold["weth"]["migrator"] >= tx.wethForMint - tx.wethArbSpent
          /\ \/ hold["token"]["migrator"] >= LP_TOKEN_TRANCHE /\ tx.wethArbSpent = 0
             \/ hold["token"]["migrator"] >= tokenMin /\ tx.wethArbSpent = 0 /\ pool.price >= TargetWeth
             \/ hold["token"]["migrator"] >= LP_TOKEN_TRANCHE /\ pool.price <= TargetWeth
      BY <1>2, <2>2 DEF ArbInv
    <2>4. part \in Nat
      BY <2>3, SlippagePart
    <2>5. /\ inputAsset = "token" \/ inputAsset = "weth"
          /\ inputAsset = "token" => pool.price > TargetWeth
          /\ inputAsset = "weth" => pool.price < TargetWeth
      BY <1>1, <1>2, <2>2, InputFacts DEF inputAsset
    <2>6. /\ inputAsset = "token" => budget = hold["token"]["migrator"] - tokenMin
          /\ inputAsset = "weth" => budget = part - tx.wethArbSpent
      BY DEF Budget
    <2>7. budget \in Nat
      <3>1. budget \in Int
        BY <2>2, <2>4, <2>5, <2>6
      <3> HIDE DEF budget
      <3>2. ~(budget <= 0)
        BY <1>4 DEF budget
      <3> QED BY <3>1, <3>2
    <2> HIDE DEF budget, part
    <2>8. PICK spent \in 0 .. budget, out \in Nat :
             /\ hold' = Moved(Moved(hold, inputAsset, "migrator", "pool", spent),
                              Other(inputAsset), "pool", "migrator", out)
             /\ tx' = [tx EXCEPT !.i = @ + 1,
                                 !.wethArbSpent = @ + (IF inputAsset = "weth" THEN spent ELSE 0)]
             /\ pool' \in PoolType
             /\ pool.price > TargetWeth => pool'.price >= TargetWeth
             /\ pool.price < TargetWeth => pool'.price <= TargetWeth
             /\ pool'.price = TargetWeth \/ spent = budget
      BY <1>1, <1>2, <2>1, <2>7, SwapFacts
    <2> DEFINE h1 == Moved(hold, inputAsset, "migrator", "pool", spent)
    <2>9. /\ inputAsset \in Leg /\ Other(inputAsset) \in Leg /\ "migrator" \in Account /\ "pool" \in Account
          /\ "curve" \in Account /\ "treasury" \in Account
          /\ spent \in Int /\ spent <= budget /\ spent >= 0
          /\ inputAsset = "token" => Other(inputAsset) = "weth"
          /\ inputAsset = "weth" => Other(inputAsset) = "token"
      BY <2>5, <2>7 DEF Other, Leg, Account
    <2>10. h1 = Moved(hold, inputAsset, "migrator", "pool", spent)
           /\ hold' = Moved(h1, Other(inputAsset), "pool", "migrator", out)
      BY <2>8
    <2> HIDE DEF h1
    <2>11. h1 \in HoldType /\ hold' \in HoldType
      <3>1. h1 \in HoldType
        BY <2>2, <2>9, <2>10, MovedFacts
      <3> QED BY <2>8, <2>9, <2>10, <3>1, MovedFacts
    <2>12. \A b \in Leg : TotalIn(hold', b) = TotalIn(hold, b)
      <3> SUFFICES ASSUME NEW b \in Leg PROVE TotalIn(hold', b) = TotalIn(hold, b)
        OBVIOUS
      <3>1. TotalIn(h1, b) = TotalIn(hold, b)
        BY <2>2, <2>9, <2>10, MovedTotal
      <3>2. TotalIn(hold', b) = TotalIn(h1, b)
        BY <2>8, <2>9, <2>10, <2>11, MovedTotal
      <3> QED BY <3>1, <3>2
    <2>13. /\ inputAsset = "token" =>
                /\ hold'["token"]["migrator"] = hold["token"]["migrator"] - spent
                /\ hold'["weth"]["migrator"] = hold["weth"]["migrator"] + out
           /\ inputAsset = "weth" =>
                /\ hold'["weth"]["migrator"] = hold["weth"]["migrator"] - spent
                /\ hold'["token"]["migrator"] = hold["token"]["migrator"] + out
           /\ hold'["token"]["curve"] = hold["token"]["curve"]
           /\ hold'["weth"]["curve"] = hold["weth"]["curve"]
           /\ hold'["weth"]["treasury"] = hold["weth"]["treasury"]
      <3>1. CASE inputAsset = "token"
        <4>1. /\ h1["weth"] = hold["weth"]
              /\ h1["token"]["migrator"] = hold["token"]["migrator"] - spent
              /\ h1["token"]["curve"] = hold["token"]["curve"]
          BY <2>2, <2>9, <2>10, <3>1, MovedAt DEF Leg
        <4>2. /\ hold'["token"] = h1["token"]
              /\ hold'["weth"]["migrator"] = h1["weth"]["migrator"] + out
              /\ hold'["weth"]["curve"] = h1["weth"]["curve"]
              /\ hold'["weth"]["treasury"] = h1["weth"]["treasury"]
          BY <2>9, <2>10, <2>11, <3>1, MovedAt DEF Leg
        <4> QED BY <3>1, <4>1, <4>2
      <3>2. CASE inputAsset = "weth"
        <4>1. /\ h1["token"] = hold["token"]
              /\ h1["weth"]["migrator"] = hold["weth"]["migrator"] - spent
              /\ h1["weth"]["curve"] = hold["weth"]["curve"]
              /\ h1["weth"]["treasury"] = hold["weth"]["treasury"]
          BY <2>2, <2>9, <2>10, <3>2, MovedAt DEF Leg
        <4>2. /\ hold'["weth"] = h1["weth"]
              /\ hold'["token"]["migrator"] = h1["token"]["migrator"] + out
              /\ hold'["token"]["curve"] = h1["token"]["curve"]
          BY <2>9, <2>10, <2>11, <3>2, MovedAt DEF Leg
        <4> QED BY <3>2, <4>1, <4>2
      <3> QED BY <2>5, <3>1, <3>2
    <2>14. /\ tx'.at = "arb" /\ tx'.i = tx.i + 1 /\ tx'.hold = tx.hold /\ tx'.pool = tx.pool
           /\ tx'.wethForMint = tx.wethForMint
           /\ tx'.wethArbSpent = tx.wethArbSpent + (IF inputAsset = "weth" THEN spent ELSE 0)
           /\ tx' \in TxType
      <3>1. tx.i \in Nat /\ tx.i + 1 \in 0 .. MAX_ARB_ITERATIONS
        BY <1>1, <2>2, MigratorAssumption DEF TxType
      <3>2. tx.wethArbSpent + (IF inputAsset = "weth" THEN spent ELSE 0) \in Int
        BY <2>2, <2>9
      <3> QED BY <1>1, <2>2, <2>8, <3>1, <3>2 DEF TxType
    <2>15. ArbInv'
      <3> DEFINE part2 == (tx'.wethForMint * MIGRATION_SLIPPAGE_BPS) \div BPS
      <3>1. part2 = part
        BY <2>14 DEF part
      <3>2. pool'.price \in Nat
        BY <2>8 DEF PoolType
      <3>3. CASE inputAsset = "token"
        <4>1. tx'.wethArbSpent = tx.wethArbSpent /\ pool'.price >= TargetWeth
          BY <2>2, <2>5, <2>8, <2>14, <3>3
        <4>2. tx.wethArbSpent = 0
          BY <2>2, <2>3, <2>5, <3>3
        <4>3. hold'["token"]["migrator"] >= tokenMin /\ hold'["weth"]["migrator"] >= hold["weth"]["migrator"]
          BY <2>2, <2>6, <2>7, <2>8, <2>9, <2>13, <3>3
        <4>4. hold'["weth"]["migrator"] >= tx.wethForMint - tx.wethArbSpent
          BY <2>2, <2>3, <2>8, <2>13, <3>3, <4>3
        <4> QED BY <2>3, <2>4, <2>14, <3>1, <4>1, <4>2, <4>3, <4>4 DEF ArbInv
      <3>4. CASE inputAsset = "weth"
        <4>1. tx'.wethArbSpent = tx.wethArbSpent + spent /\ pool'.price <= TargetWeth
          BY <2>2, <2>5, <2>8, <2>14, <3>4
        <4>2. hold["token"]["migrator"] >= LP_TOKEN_TRANCHE
          BY <2>2, <2>3, <2>5, <3>4
        <4>3. hold'["token"]["migrator"] >= LP_TOKEN_TRANCHE
          BY <2>2, <2>8, <2>13, <3>4, <4>2
        <4>4. tx'.wethArbSpent \in 0 .. part
          BY <2>2, <2>3, <2>4, <2>6, <2>9, <3>4, <4>1
        <4>5. hold'["weth"]["migrator"] >= tx.wethForMint - tx'.wethArbSpent
          BY <2>2, <2>3, <2>9, <2>13, <3>4, <4>1
        <4> QED BY <2>3, <2>14, <3>1, <4>1, <4>3, <4>4, <4>5 DEF ArbInv
      <3> QED BY <2>5, <3>3, <3>4
    <2>16. Balanced(hold)' /\ AtRest(tx.hold)'
      <3>1. Balanced(hold)'
        BY <1>2, <2>1, <2>12 DEF TxInv, Balanced, Leg
      <3>2. AtRest(tx.hold)'
        BY <1>2, <2>1, <2>14 DEF TxInv, AtRest, Balanced
      <3> QED BY <3>1, <3>2
    <2>17. TxInv'
      BY <1>2, <2>1, <2>8, <2>13, <2>14, <2>15, <2>16 DEF TxInv
    <2>18. MTypeOK'
      BY <1>2, <2>1, <2>8, <2>11, <2>14 DEF MTypeOK
    <2> QED BY <2>14, <2>17, <2>18 DEF MigratorInv, Idle
  <1> QED BY <1>3, <1>4

(* The loop is left for the mint, or the transaction reverts. *)
LEMMA ArbEndsKeeps ==
    ASSUME MigratorInv, ArbEnds
    PROVE  MigratorInv'
  <1>1. tx.at = "arb" /\ ~Idle
    BY DEF ArbEnds, Idle
  <1>2. MTypeOK /\ TxInv
    BY <1>1 DEF MigratorInv
  <1>3. CASE WithinTolerance
    <2>1. tx' = [tx EXCEPT !.at = "mint"] /\ UNCHANGED <<tokenIsToken0, pool, hold, donated, migrated>>
      BY <1>3 DEF ArbEnds
    <2>2. /\ tx' \in TxType /\ tx'.at = "mint" /\ tx'.hold = tx.hold /\ tx'.pool = tx.pool
          /\ tx'.wethForMint = tx.wethForMint /\ tx'.wethArbSpent = tx.wethArbSpent
      BY <1>2, <2>1 DEF MTypeOK, TxType
    <2>3. TxInv' /\ MTypeOK'
      BY <1>2, <2>1, <2>2 DEF TxInv, MTypeOK, AtRest, Balanced, ArbInv
    <2> QED BY <2>2, <2>3 DEF MigratorInv, Idle
  <1>4. CASE ~WithinTolerance
    BY <1>1, <1>4, RevertsKeep DEF ArbEnds
  <1> QED BY <1>3, <1>4

(* A mint takes no more of an asset than the migrator has. *)
LEMMA UsedFacts ==
    ASSUME MTypeOK, pool \in PoolType, NEW size \in PositionSize,
           hold["token"]["migrator"] \in Nat, hold["weth"]["migrator"] \in Nat
    PROVE  /\ Used("token", size) \in 0 .. hold["token"]["migrator"]
           /\ Used("weth", size) \in 0 .. hold["weth"]["migrator"]
  <1> DEFINE L == LP_TOKEN_TRANCHE
             p == pool.price
             t == hold["token"]["migrator"]
             w == hold["weth"]["migrator"]
             x == (w * L) \div p
  <1>1. L \in Nat \ {0} /\ p \in Nat \ {0} /\ t \in Nat /\ w \in Nat
    BY MigratorAssumption DEF PoolType
  <1>2. x \in Nat /\ p * x <= w * L
    <2>1. w * L \in Nat
      BY <1>1
    <2> QED BY <1>1, <2>1, DivBounds
  <1>3. size \in Nat /\ size <= t /\ size <= x
    <2>1. FullPosition = IF t <= x THEN t ELSE x
      BY DEF FullPosition, Min2
    <2>2. size \in 0 .. FullPosition
      BY DEF PositionSize
    <2> HIDE DEF x, t
    <2> QED BY <1>1, <1>2, <2>1, <2>2
  <1>4. Used("token", size) = size /\ Used("weth", size) = CeilDiv(size * p, L)
    BY DEF Used
  <1> HIDE DEF L, p, t, w, x
  <1> DEFINE worth == size * p
             u == CeilDiv(worth, L)
  <1>5. u \in Nat /\ L * u < worth + L
    <2>1. worth \in Nat
      BY <1>1, <1>3
    <2> HIDE DEF worth
    <2> QED BY <1>1, <2>1, CeilDivBounds
  <1> HIDE DEF u
  <1>6. size * p <= x * p
    BY <1>1, <1>2, <1>3, ProductMonotone
  <1>7. L * u < L * (w + 1)
    BY <1>1, <1>2, <1>3, <1>5, <1>6
  <1>8. w + 1 <= u => (w + 1) * L <= u * L
    BY <1>1, <1>5, ProductMonotone
  <1>9. u <= w
    BY <1>1, <1>5, <1>7, <1>8
  <1> QED BY <1>1, <1>3, <1>4, <1>5, <1>9 DEF t, w, u

(* The position, the burned tokens and the treasury's dust share out all   *)
(* the migrator has.                                                       *)
LEMMA MintKeeps ==
    ASSUME MigratorInv, tx.at = "mint", NEW size \in PositionSize, MintAndSettle(size)
    PROVE  /\ MigratorInv' /\ Idle' /\ migrated'
           /\ hold'["token"]["curve"] = 0 /\ hold'["weth"]["curve"] = 0
           /\ hold'["weth"]["treasury"] >= tx.hold["weth"]["treasury"] + GRADUATION_FEE
  <1> DEFINE ut == Used("token", size)
             uw == Used("weth", size)
             h1 == Moved(hold, "token", "migrator", "position", ut)
             h2 == Moved(h1, "weth", "migrator", "position", uw)
             h3 == Moved(h2, "token", "migrator", "dead", h2["token"]["migrator"])
             h4 == Moved(h3, "weth", "migrator", "treasury", h3["weth"]["migrator"])
  <1>1. /\ hold' = h4 /\ tx' = NoTx /\ migrated' = TRUE
        /\ UNCHANGED <<tokenIsToken0, pool, donated>>
    BY DEF MintAndSettle
  <1>2. MTypeOK /\ TxInv /\ ArbInv
    BY DEF MigratorInv, Idle, TxInv
  <1>3. /\ hold \in HoldType /\ pool \in PoolType /\ donated \in [Leg -> Nat]
        /\ "token" \in Leg /\ "weth" \in Leg
        /\ "curve" \in Account /\ "migrator" \in Account /\ "treasury" \in Account
        /\ "position" \in Account /\ "dead" \in Account
        /\ \A b \in Leg, x \in Account : hold[b][x] \in Int
    BY <1>2 DEF MTypeOK, TxInv, HoldType, Leg, Account
  <1>4. hold["token"]["migrator"] \in Nat /\ hold["weth"]["migrator"] \in Nat
    <2>1. tx.wethForMint \in Nat /\ tokenMin \in Nat /\ LP_TOKEN_TRANCHE \in Nat
      BY <1>2, FloorFacts, MigratorAssumption DEF ArbInv, MTypeOK, TxType
    <2>2. (tx.wethForMint * MIGRATION_SLIPPAGE_BPS) \div BPS \in 0 .. tx.wethForMint
      BY <2>1, SlippagePart
    <2> QED BY <1>2, <1>3, <2>1, <2>2 DEF ArbInv
  <1>5. ut \in 0 .. hold["token"]["migrator"] /\ uw \in 0 .. hold["weth"]["migrator"]
    BY <1>2, <1>3, <1>4, UsedFacts
  <1> HIDE DEF ut, uw
  <1>6. /\ h1 = Moved(hold, "token", "migrator", "position", ut)
        /\ h2 = Moved(h1, "weth", "migrator", "position", uw)
        /\ h3 = Moved(h2, "token", "migrator", "dead", h2["token"]["migrator"])
        /\ h4 = Moved(h3, "weth", "migrator", "treasury", h3["weth"]["migrator"])
    OBVIOUS
  <1>7. ut \in Int /\ uw \in Int
    BY <1>4, <1>5
  <1> HIDE DEF h1, h2, h3, h4
  <1>8. /\ h1 \in HoldType /\ h2 \in HoldType /\ h3 \in HoldType /\ h4 \in HoldType
        /\ h2["token"]["migrator"] \in Int /\ h3["weth"]["migrator"] \in Int
    <2>1. h1 \in HoldType
      BY <1>3, <1>6, <1>7, MovedFacts
    <2>2. h2 \in HoldType
      BY <1>3, <1>6, <1>7, <2>1, MovedFacts
    <2>3. h2["token"]["migrator"] \in Int
      BY <1>3, <2>2 DEF HoldType
    <2>4. h3 \in HoldType
      BY <1>3, <1>6, <2>2, <2>3, MovedFacts
    <2>5. h3["weth"]["migrator"] \in Int
      BY <1>3, <2>4 DEF HoldType
    <2>6. h4 \in HoldType
      BY <1>3, <1>6, <2>4, <2>5, MovedFacts
    <2> QED BY <2>1, <2>2, <2>3, <2>4, <2>5, <2>6
  <1>9. \A b \in Leg : TotalIn(h4, b) = TotalIn(hold, b)
    <2> SUFFICES ASSUME NEW b \in Leg PROVE TotalIn(h4, b) = TotalIn(hold, b)
      OBVIOUS
    <2>1. TotalIn(h1, b) = TotalIn(hold, b)
      BY <1>3, <1>6, <1>7, MovedTotal
    <2>2. TotalIn(h2, b) = TotalIn(h1, b)
      BY <1>3, <1>6, <1>7, <1>8, MovedTotal
    <2>3. TotalIn(h3, b) = TotalIn(h2, b)
      BY <1>3, <1>6, <1>8, MovedTotal
    <2>4. TotalIn(h4, b) = TotalIn(h3, b)
      BY <1>3, <1>6, <1>8, MovedTotal
    <2> QED BY <2>1, <2>2, <2>3, <2>4
  <1>10. /\ h4["token"]["migrator"] = 0 /\ h4["weth"]["migrator"] = 0
         /\ h4["token"]["curve"] = hold["token"]["curve"] /\ h4["weth"]["curve"] = hold["weth"]["curve"]
         /\ h4["weth"]["treasury"] = hold["weth"]["treasury"] + (hold["weth"]["migrator"] - uw)
    <2>1. /\ h1["weth"] = hold["weth"]
          /\ h1["token"]["curve"] = hold["token"]["curve"]
      BY <1>3, <1>6, MovedAt
    <2>2. /\ h2["token"] = h1["token"]
          /\ h2["weth"]["migrator"] = h1["weth"]["migrator"] - uw
          /\ h2["weth"]["curve"] = h1["weth"]["curve"]
          /\ h2["weth"]["treasury"] = h1["weth"]["treasury"]
      BY <1>3, <1>6, <1>8, MovedAt
    <2>3. /\ h3["weth"] = h2["weth"]
          /\ h3["token"]["migrator"] = h2["token"]["migrator"] - h2["token"]["migrator"]
          /\ h3["token"]["curve"] = h2["token"]["curve"]
      BY <1>3, <1>6, <1>8, MovedAt
    <2>4. /\ h4["token"] = h3["token"]
          /\ h4["weth"]["migrator"] = h3["weth"]["migrator"] - h3["weth"]["migrator"]
          /\ h4["weth"]["curve"] = h3["weth"]["curve"]
          /\ h4["weth"]["treasury"] = h3["weth"]["treasury"] + h3["weth"]["migrator"]
      BY <1>3, <1>6, <1>8, MovedAt
    <2>5. h4["token"]["migrator"] = 0
      BY <1>8, <2>3, <2>4
    <2>6. h4["weth"]["migrator"] = 0
      BY <1>8, <2>4
    <2>7. h4["weth"]["treasury"] = hold["weth"]["treasury"] + (hold["weth"]["migrator"] - uw)
      BY <2>1, <2>2, <2>3, <2>4
    <2> QED BY <2>1, <2>2, <2>3, <2>4, <2>5, <2>6, <2>7
  <1>11. Idle' /\ tx' = NoTx /\ NoTx \in TxType
    BY <1>1, MigratorAssumption DEF Idle, NoTx, TxType
  <1>12. MTypeOK'
    BY <1>1, <1>2, <1>8, <1>11 DEF MTypeOK
  <1>13. AtRest(hold)'
    BY <1>1, <1>2, <1>3, <1>8, <1>9, <1>10 DEF AtRest, Balanced, TxInv
  <1>14. hold'["token"]["curve"] = 0 /\ hold'["weth"]["curve"] = 0
    BY <1>1, <1>2, <1>10 DEF TxInv
  <1>15. hold'["weth"]["treasury"] >= tx.hold["weth"]["treasury"] + GRADUATION_FEE
    <2>1. hold["weth"]["treasury"] \in Int /\ hold["weth"]["migrator"] - uw >= 0
      BY <1>3, <1>4, <1>5
    <2>2. hold["weth"]["treasury"] = tx.hold["weth"]["treasury"] + GRADUATION_FEE
      BY <1>2 DEF TxInv
    <2>3. hold["weth"]["treasury"] + (hold["weth"]["migrator"] - uw) >= hold["weth"]["treasury"]
      BY <1>4, <1>7, <2>1
    <2> QED BY <1>1, <1>10, <2>2, <2>3
  <1> QED BY <1>1, <1>11, <1>12, <1>13, <1>14, <1>15 DEF MigratorInv

-----------------------------------------------------------------------------
(* The vaults *)

VaultTypeOK ==
    /\ creatorOf \in [Position -> {NoCreator, creator}]
    /\ owed \in [Position -> [Asset -> Nat]]
    /\ creatorVaultHolds \in [Asset -> Int]
    /\ tokenBalanceOf \in [LPCreator -> [Asset -> Nat]]
    /\ claimed \in [LPCreator -> [Asset -> Nat]]
    /\ collected \in [Position -> [Asset -> Nat]] /\ collects \in [Position -> Nat]

(* Only the migrated position has a creator, and it earned nothing before. *)
VaultInv ==
    /\ VaultTypeOK
    /\ \A p \in Position : creatorOf[p] = IF migrated /\ p = lp THEN creator ELSE NoCreator
    /\ \A a \in Asset : creatorVaultHolds[a] = tokenBalanceOf[creator][a]
    /\ \A k \in LPCreator : k # creator => \A a \in Asset : tokenBalanceOf[k][a] = 0
    /\ ~migrated => \A a \in Asset :
           /\ owed[lp][a] = 0 /\ collected[lp][a] = 0
           /\ tokenBalanceOf[creator][a] = 0 /\ claimed[creator][a] = 0
    /\ \A a \in Asset :
           LET earned == tokenBalanceOf[creator][a] + claimed[creator][a]
               due    == collected[lp][a] * creatorLpShareBps
           IN earned * BPS <= due /\ due <= earned * BPS + collects[lp] * BPS

LEMMA VaultConstants ==
    /\ BPS \in Nat \ {0} /\ creatorLpShareBps \in Nat /\ creatorLpShareBps <= BPS
    /\ FeeInput \subseteq Nat /\ lp \in Position /\ creator \in LPCreator /\ creator # NoCreator
  BY VaultAssumption, GraduationAssumption

(* The creator's part of a leg, rounded down. *)
LEMMA ShareFacts ==
    ASSUME VaultInv, NEW p \in Position, NEW a \in Asset
    PROVE  /\ CreatorShare(p, a) \in Nat
           /\ creatorOf[p] = NoCreator => CreatorShare(p, a) = 0
           /\ creatorOf[p] # NoCreator =>
                /\ BPS * CreatorShare(p, a) <= owed[p][a] * creatorLpShareBps
                /\ owed[p][a] * creatorLpShareBps < BPS * CreatorShare(p, a) + BPS
  <1>1. owed[p][a] \in Nat /\ BPS \in Nat \ {0} /\ creatorLpShareBps \in Nat
    BY VaultConstants DEF VaultInv, VaultTypeOK
  <1> DEFINE due == owed[p][a] * creatorLpShareBps
  <1>2. due \in Nat
    BY <1>1
  <1> DEFINE q == (owed[p][a] * creatorLpShareBps) \div BPS
  <1>3. q \in Nat /\ BPS * q <= due /\ due < BPS * q + BPS
    <2>1. q = due \div BPS
      OBVIOUS
    <2> HIDE DEF due, q
    <2> QED BY <1>1, <1>2, <2>1, DivBounds
  <1>4. CreatorShare(p, a) = IF creatorOf[p] = NoCreator THEN 0 ELSE q
    BY DEF CreatorShare
  <1> HIDE DEF q
  <1> QED BY <1>3, <1>4

LEMMA VaultInitially == Init => VaultInv
  <1> SUFFICES ASSUME Init PROVE VaultInv
    OBVIOUS
  <1>1. VaultTypeOK
    BY DEF Init, LPVaultInit, VaultTypeOK
  <1>2. \A a \in Asset : /\ owed[lp][a] = 0 /\ collected[lp][a] = 0 /\ creatorVaultHolds[a] = 0
                         /\ tokenBalanceOf[creator][a] = 0 /\ claimed[creator][a] = 0
                         /\ collects[lp] = 0
    BY VaultConstants DEF Init, LPVaultInit
  <1>3. ~migrated /\ \A p \in Position : creatorOf[p] = NoCreator
    BY DEF Init, MigratorInit, LPVaultInit
  <1>4. \A k \in LPCreator, a \in Asset : tokenBalanceOf[k][a] = 0
    BY DEF Init, LPVaultInit
  <1> QED BY <1>1, <1>2, <1>3, <1>4, VaultConstants DEF VaultInv

LEMMA AccrueKeeps ==
    ASSUME VaultInv, NEW p \in Position, NEW a \in Asset, NEW amount \in FeeInput,
           p = lp => migrated, FeesAccrue(p, a, amount), UNCHANGED migrated
    PROVE  VaultInv'
  <1>1. /\ owed' = [owed EXCEPT ![p][a] = @ + amount]
        /\ UNCHANGED <<creatorOf, treasuryFees, creatorVaultHolds, tokenBalanceOf,
                       claimed, collected, collects>>
    BY DEF FeesAccrue
  <1>2. amount \in Nat /\ owed \in [Position -> [Asset -> Nat]]
    BY VaultConstants DEF VaultInv, VaultTypeOK
  <1>3. owed' \in [Position -> [Asset -> Nat]]
    BY <1>1, <1>2
  <1>4. ~migrated => owed'[lp] = owed[lp]
    BY <1>1, <1>2, VaultConstants
  <1>5. VaultTypeOK'
    BY <1>1, <1>3 DEF VaultInv, VaultTypeOK
  <1> QED BY <1>1, <1>4, <1>5 DEF VaultInv

LEMMA CollectKeeps ==
    ASSUME VaultInv, NEW p \in Position, Collect(p), UNCHANGED migrated
    PROVE  VaultInv'
  <1> DEFINE share == [a \in Asset |-> CreatorShare(p, a)]
  <1>1. /\ creatorVaultHolds' = [a \in Asset |-> creatorVaultHolds[a] + CreatorShare(p, a)]
        /\ tokenBalanceOf' = [k \in LPCreator |-> [a \in Asset |-> Credited(p, k, a)]]
        /\ collected' = [collected EXCEPT ![p] = [a \in Asset |-> @[a] + owed[p][a]]]
        /\ collects' = IF \A a \in Asset : owed[p][a] = 0 THEN collects
                       ELSE [collects EXCEPT ![p] = @ + 1]
        /\ owed' = [owed EXCEPT ![p] = [a \in Asset |-> 0]]
        /\ UNCHANGED <<creatorOf, claimed>>
    BY DEF Collect
  <1>2. VaultTypeOK /\ lp \in Position /\ creator \in LPCreator /\ creator # NoCreator
    BY VaultConstants DEF VaultInv
  <1>3. \A a \in Asset : CreatorShare(p, a) \in Nat
    BY ShareFacts
  <1>4. VaultTypeOK'
    <2>1. \A k \in LPCreator, a \in Asset : Credited(p, k, a) \in Nat
      BY <1>2, <1>3 DEF Credited, VaultTypeOK
    <2>2. tokenBalanceOf' \in [LPCreator -> [Asset -> Nat]]
      BY <1>1, <2>1
    <2>3. collected' \in [Position -> [Asset -> Nat]] /\ owed' \in [Position -> [Asset -> Nat]]
      BY <1>1, <1>2 DEF VaultTypeOK
    <2>4. collects' \in [Position -> Nat]
      BY <1>1, <1>2 DEF VaultTypeOK
    <2>5. creatorVaultHolds' \in [Asset -> Int]
      BY <1>1, <1>2, <1>3 DEF VaultTypeOK
    <2> QED BY <1>1, <1>2, <2>2, <2>3, <2>4, <2>5 DEF VaultTypeOK
  <1>5. \A a \in Asset :
           /\ tokenBalanceOf'[creator][a] = tokenBalanceOf[creator][a]
                                              + (IF creatorOf[p] = creator THEN CreatorShare(p, a) ELSE 0)
           /\ creatorVaultHolds'[a] = creatorVaultHolds[a] + CreatorShare(p, a)
    BY <1>1, <1>2 DEF Credited
  <1>6. creatorOf[p] = NoCreator \/ (creatorOf[p] = creator /\ p = lp /\ migrated)
    BY DEF VaultInv
  <1>9. \A k \in LPCreator : k # creator => \A a \in Asset : tokenBalanceOf'[k][a] = 0
    <2>1. \A k \in LPCreator : k # creator => k # creatorOf[p] /\ \A a \in Asset : tokenBalanceOf[k][a] = 0
      BY <1>6, VaultAssumption DEF VaultInv
    <2> QED BY <1>1, <2>1 DEF Credited
  <1>7. CASE creatorOf[p] = NoCreator
    <2>1. \A a \in Asset : /\ tokenBalanceOf'[creator][a] = tokenBalanceOf[creator][a]
                           /\ creatorVaultHolds'[a] = creatorVaultHolds[a]
      <3> SUFFICES ASSUME NEW a \in Asset
                   PROVE  /\ tokenBalanceOf'[creator][a] = tokenBalanceOf[creator][a]
                          /\ creatorVaultHolds'[a] = creatorVaultHolds[a]
        OBVIOUS
      <3>1. CreatorShare(p, a) = 0 /\ creatorVaultHolds[a] \in Int /\ tokenBalanceOf[creator][a] \in Nat
        BY <1>2, <1>7, ShareFacts DEF VaultTypeOK
      <3> QED BY <1>2, <1>5, <1>7, <3>1
    <2>2. CASE p = lp
      <3>1. ~migrated
        BY <1>2, <1>7, <2>2 DEF VaultInv
      <3>2. \A a \in Asset : owed[lp][a] = 0 /\ collected[lp][a] = 0
        BY <3>1 DEF VaultInv
      <3>3. \A a \in Asset : collected'[lp][a] = 0 /\ owed'[lp][a] = 0
        BY <1>1, <1>2, <2>2, <3>2 DEF VaultTypeOK
      <3>4. collects'[lp] = collects[lp]
        BY <1>1, <2>2, <3>2
      <3>5. \A a \in Asset : collected'[lp][a] = collected[lp][a]
        BY <3>2, <3>3
      <3> QED BY <1>1, <1>4, <1>9, <2>1, <3>1, <3>3, <3>4, <3>5 DEF VaultInv
    <2>3. CASE p # lp
      <3>1. collected'[lp] = collected[lp] /\ owed'[lp] = owed[lp] /\ collects'[lp] = collects[lp]
        BY <1>1, <1>2, <2>3 DEF VaultTypeOK
      <3> QED BY <1>1, <1>4, <1>9, <2>1, <3>1 DEF VaultInv
    <2> QED BY <2>2, <2>3
  <1>8. CASE creatorOf[p] = creator /\ p = lp /\ migrated
    <2>1. \A a \in Asset : creatorVaultHolds'[a] = tokenBalanceOf'[creator][a]
      BY <1>5, <1>8 DEF VaultInv
    <2>2. ASSUME NEW a \in Asset
          PROVE  LET earned == tokenBalanceOf'[creator][a] + claimed'[creator][a]
                     due    == collected'[lp][a] * creatorLpShareBps
                 IN earned * BPS <= due /\ due <= earned * BPS + collects'[lp] * BPS
      <3> DEFINE e == tokenBalanceOf[creator][a] + claimed[creator][a]
                 c == collected[lp][a]
                 o == owed[lp][a]
                 s == CreatorShare(p, a)
                 n == collects[lp]
      <3>1. /\ e \in Nat /\ c \in Nat /\ o \in Nat /\ s \in Nat /\ n \in Nat
            /\ BPS \in Nat \ {0} /\ creatorLpShareBps \in Nat
        BY <1>2, <1>3, VaultConstants DEF VaultTypeOK
      <3>2. e * BPS <= c * creatorLpShareBps /\ c * creatorLpShareBps <= e * BPS + n * BPS
        BY DEF VaultInv
      <3>3. BPS * s <= o * creatorLpShareBps /\ o * creatorLpShareBps < BPS * s + BPS
        BY <1>2, <1>8, ShareFacts
      <3>4. tokenBalanceOf'[creator][a] + claimed'[creator][a] = e + s
        <4>1. tokenBalanceOf[creator][a] \in Nat /\ claimed[creator][a] \in Nat
          BY <1>2 DEF VaultTypeOK
        <4>2. claimed' = claimed /\ tokenBalanceOf'[creator][a] = tokenBalanceOf[creator][a] + s
          BY <1>1, <1>5, <1>8
        <4> QED BY <3>1, <4>1, <4>2
      <3>5. collected'[lp][a] = c + o
        BY <1>1, <1>2, <1>8 DEF VaultTypeOK
      <3>6. collects'[lp] = n \/ collects'[lp] = n + 1
        BY <1>1, <1>2, <1>8 DEF VaultTypeOK
      <3>7. collects'[lp] = n => o = 0
        <4>1. (\A b \in Asset : owed[p][b] = 0) \/ collects'[lp] = n + 1
          BY <1>1, <1>2, <1>8 DEF VaultTypeOK
        <4> QED BY <1>8, <3>1, <4>1
      <3> HIDE DEF e, c, o, s, n
      <3>8. (c + o) * creatorLpShareBps = c * creatorLpShareBps + o * creatorLpShareBps
        BY <3>1
      <3>9. (e + s) * BPS = e * BPS + BPS * s
        BY <3>1
      <3>10. (e + s) * BPS <= (c + o) * creatorLpShareBps
        BY <3>1, <3>2, <3>3, <3>8, <3>9
      <3>11. CASE collects'[lp] = n + 1
        <4>1. (n + 1) * BPS = n * BPS + BPS
          BY <3>1
        <4>2. (c + o) * creatorLpShareBps <= (e + s) * BPS + (n + 1) * BPS
          <5>1. /\ c * creatorLpShareBps \in Nat /\ o * creatorLpShareBps \in Nat
                /\ e * BPS \in Nat /\ BPS * s \in Nat /\ n * BPS \in Nat
            BY <3>1
          <5> QED BY <3>1, <3>2, <3>3, <3>8, <3>9, <4>1, <5>1
        <4> QED BY <3>4, <3>5, <3>10, <3>11, <4>2
      <3>12. CASE collects'[lp] = n
        <4>1. o * creatorLpShareBps = 0 /\ BPS * s \in Nat
          BY <3>1, <3>7, <3>12
        <4>2. BPS * s = 0
          BY <3>3, <4>1
        <4>3. (c + o) * creatorLpShareBps <= (e + s) * BPS + n * BPS
          <5>1. c * creatorLpShareBps \in Nat /\ e * BPS \in Nat /\ n * BPS \in Nat
            BY <3>1
          <5> QED BY <3>2, <3>8, <3>9, <4>1, <4>2, <5>1
        <4> QED BY <3>4, <3>5, <3>10, <3>12, <4>3
      <3> QED BY <3>6, <3>11, <3>12
    <2> QED BY <1>1, <1>4, <1>8, <1>9, <2>1, <2>2 DEF VaultInv
  <1> QED BY <1>6, <1>7, <1>8

LEMMA ClaimKeeps ==
    ASSUME VaultInv, NEW k \in LPCreator, NEW a \in Asset, ClaimERC20(k, a), UNCHANGED migrated
    PROVE  VaultInv'
  <1>1. /\ creatorVaultHolds' = [creatorVaultHolds EXCEPT ![a] = @ - tokenBalanceOf[k][a]]
        /\ claimed' = [claimed EXCEPT ![k][a] = @ + tokenBalanceOf[k][a]]
        /\ tokenBalanceOf' = [tokenBalanceOf EXCEPT ![k][a] = 0]
        /\ UNCHANGED <<creatorOf, owed, collected, collects>>
    BY DEF ClaimERC20
  <1>2. VaultTypeOK /\ creator \in LPCreator
    BY VaultConstants DEF VaultInv
  <1>3. VaultTypeOK'
    BY <1>1, <1>2 DEF VaultTypeOK
  <1>4. \A b \in Asset : tokenBalanceOf'[creator][b] + claimed'[creator][b]
                          = tokenBalanceOf[creator][b] + claimed[creator][b]
    BY <1>1, <1>2 DEF VaultTypeOK
  <1>5. \A b \in Asset : creatorVaultHolds'[b] = tokenBalanceOf'[creator][b]
    <2>1. \A b \in Asset : creatorVaultHolds[b] = tokenBalanceOf[creator][b]
      BY DEF VaultInv
    <2>2. CASE k = creator
      BY <1>1, <1>2, <2>1, <2>2 DEF VaultTypeOK
    <2>3. CASE k # creator
      <3>1. tokenBalanceOf[k][a] = 0
        BY <2>3 DEF VaultInv
      <3>2. tokenBalanceOf'[creator] = tokenBalanceOf[creator]
        BY <1>1, <1>2, <2>3 DEF VaultTypeOK
      <3>3. \A b \in Asset : creatorVaultHolds'[b] = creatorVaultHolds[b]
        BY <1>1, <1>2, <3>1 DEF VaultTypeOK
      <3> QED BY <2>1, <3>2, <3>3
    <2> QED BY <2>2, <2>3
  <1>6. ~migrated => \A b \in Asset : tokenBalanceOf'[creator][b] = 0 /\ claimed'[creator][b] = 0
    <2>1. ~migrated => \A b \in Asset : tokenBalanceOf[creator][b] = 0 /\ claimed[creator][b] = 0
      BY DEF VaultInv
    <2> QED BY <1>1, <1>2, <2>1 DEF VaultTypeOK
  <1>7. \A m \in LPCreator : m # creator => \A b \in Asset : tokenBalanceOf'[m][b] = 0
    <2>1. \A m \in LPCreator : m # creator => \A b \in Asset : tokenBalanceOf[m][b] = 0
      BY DEF VaultInv
    <2> QED BY <1>1, <1>2, <2>1 DEF VaultTypeOK
  <1> QED BY <1>1, <1>3, <1>4, <1>5, <1>6, <1>7 DEF VaultInv

-----------------------------------------------------------------------------
(* Theorems of the specification *)

LEMMA MigratorStutters == MigratorInv /\ UNCHANGED migratorVars => MigratorInv'
  BY DEF MigratorInv, MTypeOK, TxInv, ArbInv, AtRest, Balanced, Idle, migratorVars

(* Every reachable state satisfies the invariant of the migrator. *)
LEMMA MigratorInvariant == Spec => []MigratorInv
  <1>1. Init => MigratorInv
    BY MigratorInitially DEF Init
  <1>2. MigratorInv /\ [Next]_vars => MigratorInv'
    <2> SUFFICES ASSUME MigratorInv, [Next]_vars PROVE MigratorInv'
      OBVIOUS
    <2>1. CASE PoolUsers
      BY <2>1, PoolUsersKeep
    <2>2. CASE MigrateBegins
      BY <2>2, BeginsKeeps
    <2>3. CASE ArbStep
      BY <2>3, ArbStepKeeps
    <2>4. CASE ArbEnds
      BY <2>4, ArbEndsKeeps
    <2>5. CASE Mint
      <3>1. tx.at = "mint" /\ ~Idle
        BY <2>5 DEF Mint, Idle
      <3>2. PICK size \in PositionSize : MintAndSettle(size) \/ MintReverts(size)
        BY <2>5 DEF Mint
      <3>3. CASE MintAndSettle(size)
        BY <3>1, <3>3, MintKeeps
      <3>4. CASE MintReverts(size)
        BY <3>1, <3>4, RevertsKeep DEF MintReverts
      <3> QED BY <3>2, <3>3, <3>4
    <2>6. CASE UNCHANGED migratorVars
      BY <2>6, MigratorStutters
    <2> QED BY <2>1, <2>2, <2>3, <2>4, <2>5, <2>6 DEF Next, Migrate, MigrateRuns, VaultStep, vars
  <1> QED BY <1>1, <1>2, PTL DEF Spec

(* No donation, no starting price and no rounding of the position manager  *)
(* lets a mint miss one of its floors at a price within the slippage,      *)
(* unless the arb-back spent its budget to the last unit.                  *)
THEOREM FloorsAlwaysMet == Spec => []MintMeetsFloors
  <1>1. MigratorInv => MintMeetsFloors
    <2> SUFFICES ASSUME MigratorInv, tx.at = "mint", PriceCarriesFloors, BudgetLeft,
                        NEW size \in PositionSize
                 PROVE  MintAccepted(size)
      BY DEF MintMeetsFloors
    <2>1. MTypeOK /\ pool \in PoolType /\ ArbInv
      BY DEF MigratorInv, Idle, TxInv
    <2> QED BY <2>1, FloorsMet
  <1> QED BY <1>1, MigratorInvariant, PTL

(* Nothing of the curve's inventory, donations included, is lost or kept   *)
(* by the migrator.                                                        *)
THEOREM NothingIsStranded == Spec => []NothingStranded
  <1>1. MigratorInv => NothingStranded
    BY DEF MigratorInv, NothingStranded, AtRest, Balanced, Total, TotalIn, TxInv
  <1> QED BY <1>1, MigratorInvariant, PTL

LEMMA VaultStutters == VaultInv /\ UNCHANGED <<lpVaultVars, migrated>> => VaultInv'
  BY DEF VaultInv, VaultTypeOK, lpVaultVars

(* Every reachable state satisfies the invariant of the vaults. *)
LEMMA VaultInvariant == Spec => []VaultInv
  <1>1. MigratorInv /\ VaultInv /\ [Next]_vars => VaultInv'
    <2> SUFFICES ASSUME MigratorInv, VaultInv, [Next]_vars PROVE VaultInv'
      OBVIOUS
    <2>1. CASE PoolUsers /\ UNCHANGED lpVaultVars
      BY <2>1, VaultStutters DEF PoolUsers, InitializePool, PoolMoves, Donate
    <2>2. CASE MigrateRuns /\ UNCHANGED lpVaultVars
      BY <2>2, VaultStutters DEF MigrateRuns, MigrateBegins, ArbStep, ArbEnds, Swap, Reverts
    <2>3. CASE Mint
      <3>0. PICK size \in PositionSize :
              \/ MintReverts(size) /\ UNCHANGED lpVaultVars
              \/ /\ MintAndSettle(size)
                 /\ creatorOf' = [creatorOf EXCEPT ![lp] = creator]
                 /\ UNCHANGED <<owed, treasuryFees, creatorVaultHolds, tokenBalanceOf,
                                claimed, collected, collects, accruals>>
        BY <2>3 DEF Mint
      <3>1. CASE MintReverts(size) /\ UNCHANGED lpVaultVars
        BY <3>1, VaultStutters DEF MintReverts, Reverts
      <3>2. CASE /\ MintAndSettle(size)
                 /\ creatorOf' = [creatorOf EXCEPT ![lp] = creator]
                 /\ UNCHANGED <<owed, treasuryFees, creatorVaultHolds, tokenBalanceOf,
                                claimed, collected, collects, accruals>>
        <4>1. migrated' = TRUE /\ ~migrated
          BY <2>3, <3>2 DEF MintAndSettle, MigratorInv, TxInv, Mint, Idle
        <4>2. \A p \in Position : creatorOf'[p] = IF p = lp THEN creator ELSE NoCreator
          BY <3>2, <4>1 DEF VaultInv, VaultTypeOK
        <4>3. VaultTypeOK'
          BY <3>2, VaultConstants DEF VaultInv, VaultTypeOK
        <4> QED BY <3>2, <4>1, <4>2, <4>3 DEF VaultInv
      <3> QED BY <3>0, <3>1, <3>2
    <2>4. CASE VaultStep
      <3>1. UNCHANGED migrated
        BY <2>4 DEF VaultStep, migratorVars
      <3> QED BY <2>4, <3>1, AccrueKeeps, CollectKeeps, ClaimKeeps DEF VaultStep
    <2>5. CASE UNCHANGED vars
      BY <2>5, VaultStutters DEF vars, migratorVars
    <2> QED BY <2>1, <2>2, <2>3, <2>4, <2>5 DEF Next, Migrate
  <1> QED BY <1>1, VaultInitially, MigratorInvariant, PTL DEF Spec

(* The reachable states have their types. *)
THEOREM GraduationTyped == Spec => []TypeOK
  <1>1. MigratorInv /\ VaultInv => TypeOK
    BY GraduationAssumption DEF MigratorInv, MTypeOK, VaultInv, VaultTypeOK, TypeOK, TxType,
                                HoldType, PoolType
  <1> QED BY <1>1, MigratorInvariant, VaultInvariant, PTL

(* A creator gets its share of all that was ever collected, short of at    *)
(* most one unit for each collect, and the vault holds what it owes.       *)
THEOREM CreatorsGetTheirShare == Spec => []CreatorGetsShare
  <1>1. VaultInv => CreatorGetsShare
    BY VaultConstants DEF VaultInv, CreatorGetsShare, Earned
  <1> QED BY <1>1, VaultInvariant, PTL

(* A migrate transaction ends with all of the inventory gone and the       *)
(* creator registered, or with nothing changed.                            *)
THEOREM MigrationIsAtomic == Spec => MigrationAtomic
  <1> DEFINE A == ~Idle /\ Idle' =>
                 \/ ~migrated' /\ hold' = tx.hold /\ pool' = tx.pool
                 \/ /\ migrated' /\ hold'["token"]["curve"] = 0 /\ hold'["weth"]["curve"] = 0
                    /\ hold'["weth"]["treasury"] >= tx.hold["weth"]["treasury"] + GRADUATION_FEE
                    /\ creatorOf'[lp] = creator
  <1>1. MigratorInv /\ VaultInv /\ [Next]_vars => [A]_vars
    <2> SUFFICES ASSUME MigratorInv, VaultInv, Next, ~Idle, Idle' PROVE A
      OBVIOUS
    <2>1. ~migrated /\ tx.at # "none"
      BY DEF MigratorInv, TxInv, Idle
    <2>2. CASE MigrateRuns
      <3>1. ~MigrateBegins
        BY DEF MigrateBegins
      <3>2. CASE ArbStep
        <4>1. Budget(inputAsset) <= 0 \/ Swap(inputAsset, Budget(inputAsset))
          BY <3>2 DEF ArbStep
        <4>2. ~Swap(inputAsset, Budget(inputAsset))
          <5> SUFFICES ASSUME Swap(inputAsset, Budget(inputAsset)) PROVE FALSE
            OBVIOUS
          <5>1. tx'.at = tx.at
            BY DEF Swap, MigratorInv, MTypeOK, TxType
          <5> QED BY <5>1 DEF Idle
        <4>3. Reverts
          BY <3>2, <4>1, <4>2 DEF ArbStep
        <4> QED BY <2>1, <4>3 DEF Reverts
      <3>3. CASE ArbEnds
        <4>1. WithinTolerance => tx'.at = "mint"
          BY <3>3 DEF ArbEnds, MigratorInv, MTypeOK, TxType
        <4> QED BY <2>1, <3>3, <4>1 DEF ArbEnds, Reverts, Idle
      <3> QED BY <2>2, <3>1, <3>2, <3>3 DEF MigrateRuns
    <2>3. CASE Mint
      <3>0. PICK size \in PositionSize :
              \/ MintReverts(size)
              \/ MintAndSettle(size) /\ creatorOf' = [creatorOf EXCEPT ![lp] = creator]
        BY <2>3 DEF Mint
      <3>1. CASE MintAndSettle(size) /\ creatorOf' = [creatorOf EXCEPT ![lp] = creator]
        <4>1. tx.at = "mint"
          BY <2>3 DEF Mint
        <4>2. creatorOf'[lp] = creator
          BY <3>1, GraduationAssumption DEF VaultInv, VaultTypeOK
        <4> QED BY <3>1, <4>1, <4>2, MintKeeps
      <3>2. CASE MintReverts(size)
        BY <2>1, <3>2 DEF MintReverts, Reverts
      <3> QED BY <3>0, <3>1, <3>2
    <2> QED BY <2>2, <2>3 DEF Next, Migrate, PoolUsers, InitializePool, PoolMoves, Donate, VaultStep
  <1> HIDE DEF A
  <1>2. Spec => [][A]_vars
    BY <1>1, MigratorInvariant, VaultInvariant, PTL DEF Spec
  <1> QED BY <1>2 DEF A, MigrationAtomic

(* A swap reaches the target price or exhausts its budget, so that the     *)
(* loop takes at most one swap.                                            *)
LoopInv ==
    tx.at = "arb" => \/ tx.i = 0
                     \/ tx.i = 1 /\ (WithinTolerance \/ Budget(inputAsset) <= 0)

LEMMA SwapExhausts ==
    ASSUME MigratorInv, MigratorInv', LoopInv, ArbStep
    PROVE  LoopInv'
  <1>1. tx.at = "arb" /\ ~WithinTolerance
    BY DEF ArbStep
  <1>2. CASE Budget(inputAsset) <= 0
    BY <1>1, <1>2 DEF ArbStep, Reverts, NoTx, LoopInv
  <1>3. CASE ~(Budget(inputAsset) <= 0)
    <2> DEFINE budget == Budget(inputAsset)
               part == (tx.wethForMint * MIGRATION_SLIPPAGE_BPS) \div BPS
    <2>1. tx.i = 0 /\ Swap(inputAsset, budget)
      BY <1>1, <1>3 DEF LoopInv, ArbStep
    <2>2. /\ MTypeOK /\ pool \in PoolType /\ ArbInv /\ hold \in HoldType /\ tx \in TxType
          /\ pool.price \in Nat /\ TargetWeth \in Nat /\ TOLERANCE_TICKS \in Nat
          /\ hold["token"]["migrator"] \in Int /\ tx.wethArbSpent \in Int /\ tokenMin \in Nat
          /\ inputAsset \in {"token", "weth"}
      BY <1>1, FloorFacts, MigratorAssumption
         DEF MigratorInv, TxInv, Idle, MTypeOK, PoolType, HoldType, TxType, Leg, Account, inputAsset
    <2>3. part \in Nat
      BY <2>2, SlippagePart, FloorFacts DEF ArbInv, TxType
    <2>4. budget \in Nat
      <3>1. budget \in Int
        BY <2>2, <2>3 DEF Budget
      <3> HIDE DEF budget
      <3>2. ~(budget <= 0)
        BY <1>3 DEF budget
      <3> QED BY <3>1, <3>2
    <2>5. PICK spent \in 0 .. budget, out \in Nat :
             /\ hold' = Moved(Moved(hold, inputAsset, "migrator", "pool", spent),
                              Other(inputAsset), "pool", "migrator", out)
             /\ tx' = [tx EXCEPT !.i = @ + 1,
                                 !.wethArbSpent = @ + (IF inputAsset = "weth" THEN spent ELSE 0)]
             /\ pool' \in PoolType
             /\ pool.price > TargetWeth => pool'.price >= TargetWeth
             /\ pool.price < TargetWeth => pool'.price <= TargetWeth
             /\ pool'.price = TargetWeth \/ spent = budget
      BY <1>1, <2>1, <2>2, <2>4, SwapFacts
    <2>6. /\ tx'.i = 1 /\ tx'.wethForMint = tx.wethForMint
          /\ tx'.wethArbSpent = tx.wethArbSpent + (IF inputAsset = "weth" THEN spent ELSE 0)
      BY <2>1, <2>2, <2>5 DEF TxType
    <2>7. CASE pool'.price = TargetWeth
      <3>1. WithinTolerance'
        BY <2>2, <2>7, FloorFacts DEF WithinTolerance
      <3> QED BY <2>6, <3>1 DEF LoopInv
    <2>8. CASE pool'.price # TargetWeth /\ spent = budget
      <3>1. /\ pool'.price > TargetWeth => pool.price > TargetWeth
            /\ pool'.price < TargetWeth => pool.price < TargetWeth
            /\ pool'.price \in Nat
        <4>1. pool.price # TargetWeth /\ pool'.price \in Nat
          BY <1>1, <2>2, <2>5, InputFacts DEF PoolType
        <4> QED BY <2>2, <2>5, <2>8, <4>1
      <3>2. \/ ~WithinTolerance' /\ inputAsset' = inputAsset
            \/ WithinTolerance'
        <4>1. MTypeOK' /\ pool' \in PoolType
          BY <2>5 DEF MigratorInv
        <4>2. /\ pool.price > TargetWeth => inputAsset = "token"
              /\ pool.price <= TargetWeth => inputAsset = "weth"
          BY <1>1, <2>2, InputFacts
        <4>3. ~WithinTolerance' => /\ pool'.price > TargetWeth => inputAsset' = "token"
                                   /\ pool'.price <= TargetWeth => inputAsset' = "weth"
          <5>1. tokenIsToken0' \in BOOLEAN /\ pool'.price \in Nat
            BY <3>1, <4>1 DEF MTypeOK
          <5>2. pool'.price > TargetWeth => ~(pool'.price < TargetWeth)
            BY <2>2, <5>1
          <5>3. pool'.price <= TargetWeth => pool'.price < TargetWeth /\ ~(pool'.price > TargetWeth)
            BY <2>2, <2>8, <5>1
          <5> QED BY <5>1, <5>2, <5>3 DEF inputAsset, zeroForOne
        <4> QED BY <2>2, <2>8, <3>1, <4>2, <4>3
      <3>3. CASE WithinTolerance'
        BY <2>6, <3>3 DEF LoopInv
      <3>4. CASE inputAsset' = inputAsset /\ inputAsset = "token"
        <4> DEFINE h1 == Moved(hold, "token", "migrator", "pool", spent)
        <4>1. h1 = Moved(hold, "token", "migrator", "pool", spent) /\ hold' = Moved(h1, "weth", "pool", "migrator", out)
          BY <2>5, <3>4 DEF Other
        <4> HIDE DEF h1
        <4>2. "token" \in Leg /\ "weth" \in Leg /\ "migrator" \in Account /\ "pool" \in Account
              /\ spent \in Int
          BY <2>4 DEF Leg, Account
        <4>3. h1 \in HoldType
          BY <2>2, <4>1, <4>2, MovedFacts
        <4>4. h1["token"]["migrator"] = hold["token"]["migrator"] - spent
          BY <2>2, <4>1, <4>2, MovedAt
        <4>5. hold'["token"] = h1["token"]
          BY <4>1, <4>2, <4>3, MovedAt
        <4>6. spent = hold["token"]["migrator"] - tokenMin
          BY <2>8, <3>4 DEF Budget
        <4>7. Budget(inputAsset)' = hold'["token"]["migrator"] - tokenMin
          BY <3>4 DEF Budget, tokenMin
        <4>8. Budget(inputAsset)' <= 0
          BY <2>2, <4>4, <4>5, <4>6, <4>7
        <4> QED BY <2>6, <4>8 DEF LoopInv
      <3>5. CASE inputAsset' = inputAsset /\ inputAsset = "weth"
        <4>1. spent = part - tx.wethArbSpent
          BY <2>8, <3>5 DEF Budget
        <4>2. Budget(inputAsset)' = part - tx'.wethArbSpent
          BY <2>6, <3>5 DEF Budget
        <4>3. Budget(inputAsset)' <= 0
          BY <2>2, <2>3, <2>6, <3>5, <4>1, <4>2
        <4> QED BY <2>6, <4>3 DEF LoopInv
      <3> QED BY <2>2, <3>2, <3>3, <3>4, <3>5
    <2> QED BY <2>5, <2>7, <2>8
  <1> QED BY <1>2, <1>3

(* With at least two iterations the loop ends in tolerance or because the  *)
(* budget is gone, never because iterations run out.                       *)
THEOREM IterationsSuffice ==
    ASSUME MAX_ARB_ITERATIONS > 1
    PROVE  Spec => []ArbNeverRunsOut
  <1>1. Init => LoopInv
    BY DEF Init, MigratorInit, NoTx, LoopInv
  <1>2. MigratorInv /\ MigratorInv' /\ LoopInv /\ [Next]_vars => LoopInv'
    <2> SUFFICES ASSUME MigratorInv, MigratorInv', LoopInv, [Next]_vars PROVE LoopInv'
      OBVIOUS
    <2>1. CASE ArbStep
      BY <2>1, SwapExhausts
    <2>2. CASE MigrateBegins
      BY <2>2 DEF MigrateBegins, LoopInv
    <2>3. CASE ArbEnds
      <3>1. CASE WithinTolerance
        <4>1. tx'.at = "mint"
          BY <2>3, <3>1 DEF ArbEnds, MigratorInv, MTypeOK, TxType
        <4> QED BY <4>1 DEF LoopInv
      <3>2. CASE ~WithinTolerance
        BY <2>3, <3>2 DEF ArbEnds, Reverts, NoTx, LoopInv
      <3> QED BY <3>1, <3>2
    <2>4. CASE Mint
      BY <2>4 DEF Mint, MintAndSettle, MintReverts, Reverts, NoTx, LoopInv
    <2>5. CASE PoolUsers \/ VaultStep \/ UNCHANGED vars
      <3>1. CASE tx.at = "arb"
        <4>1. UNCHANGED vars \/ VaultStep
          BY <2>5, <3>1 DEF PoolUsers, InitializePool, PoolMoves, Donate, Idle
        <4> QED BY <4>1 DEF VaultStep, vars, migratorVars, LoopInv, WithinTolerance, Budget,
                            inputAsset, zeroForOne, tokenMin
      <3>2. CASE tx.at # "arb"
        <4>1. tx' = tx
          BY <2>5 DEF PoolUsers, InitializePool, PoolMoves, Donate, VaultStep, vars, migratorVars
        <4> QED BY <3>2, <4>1 DEF LoopInv
      <3> QED BY <3>1, <3>2
    <2> QED BY <2>1, <2>2, <2>3, <2>4, <2>5 DEF Next, Migrate, MigrateRuns
  <1>3. LoopInv => ArbNeverRunsOut
    BY MigratorAssumption DEF LoopInv, ArbNeverRunsOut
  <1> QED BY <1>1, <1>2, <1>3, MigratorInvariant, PTL DEF Spec

=============================================================================

-------------------------- MODULE TopicMarketProofs --------------------------
(***************************************************************************)
(* Proofs about TopicMarket, for every curve, scale, amount and number of   *)
(* holders: types, the Genesis curve's reserve, the cover of the market     *)
(* maker, the budgets of a settled or failed market, the books, and that    *)
(* every exit is served.                                                    *)
(*                                                                         *)
(* CashCoversCost is what makes OutcomesBacked inductive: a trade moves the *)
(* cash by at least what it moves the cost function, rounding included, so  *)
(* cash above cost stays above cost, and the cost is never below the larger *)
(* side.  Of the library's logarithm only LnAssumption is used: the depth   *)
(* covers the first cost.  Dormant says which books a phase leaves empty.   *)
(* Counted, that the supplies are the sums of what the users hold, is an    *)
(* invariant of its own, on top of IInv.                                    *)
(***************************************************************************)
EXTENDS TopicMarket, SumLemmas, TLAPS

Trading == phase \in {"FORMAL", "WAIT_CORE"}

\* Books that a phase does not use are empty; before a settlement no LP right
\* is gone, and before the graduation no request to end early falls due.
Dormant ==
    /\ phase # "GENESIS" => R = 0
    /\ phase = "GENESIS" => supply = [s \in Side |-> 0]
    /\ ~Trading => cash = 0 /\ lpFees = 0
    /\ Trading => initialCollateral > 0 /\ liquiditySupply = graduationSupply
    /\ phase # "SETTLED" => collateralCash = 0 /\ lpBudgetRemaining = 0
    /\ phase # "FAILED" => failedRRemaining = 0
    /\ phase = "SETTLED" => outcome \in Result
    /\ phase = "GENESIS" => ~coreDue

SettledBacked ==
    phase = "SETTLED" => Value(supply["YES"], supply["NO"], outcome) <= collateralCash

IInv == /\ TypeOK /\ Dormant /\ CurveBacked /\ GraduationIsPrompt
        /\ CashCoversCost /\ SettledBacked /\ BudgetsKeepTheirShare
        /\ BooksCoverBalance
------------------------------------------------------------------------------
\* Facts of arithmetic.
LEMMA Division ==
    ASSUME NEW a \in Nat, NEW d \in Nat, d > 0
    PROVE  a \div d \in Nat /\ (a \div d) * d <= a /\ a < (a \div d) * d + d
  OBVIOUS

LEMMA Product ==
    ASSUME NEW a \in Nat, NEW b \in Nat
    PROVE  a * b \in Nat
  OBVIOUS

LEMMA CeilDivision ==
    ASSUME NEW a \in Nat, NEW d \in Nat, d > 0
    PROVE  CeilDiv(a, d) \in Nat /\ CeilDiv(a, d) * d >= a
  <1>1. (a + d - 1) \div d \in Nat /\ a + d - 1 < ((a + d - 1) \div d) * d + d
    BY Division
  <1>2. QED
    BY <1>1 DEF CeilDiv

\* Rounding down twice gives no more than rounding down once.
LEMMA FloorSplit ==
    ASSUME NEW a \in Nat, NEW b \in Nat, b <= a, NEW d \in Nat, d > 0
    PROVE  b \div d <= a \div d /\ (a - b) \div d <= a \div d - b \div d
  <1> DEFINE qa == a \div d
             qb == b \div d
             qc == (a - b) \div d
  <1>1. /\ qa \in Nat /\ qb \in Nat /\ qc \in Nat
        /\ qb * d <= b /\ qc * d <= a - b /\ a < qa * d + d
    BY Division
  <1> HIDE DEF qa, qb, qc
  <1>2. (qb + qc) * d < (qa + 1) * d
    BY <1>1
  <1>3. qb + qc < qa + 1
    BY <1>1, <1>2
  <1>4. QED
    BY <1>1, <1>3 DEF qa, qb, qc

\* Percentages of a gross amount are parts of it.
LEMMA Percentages ==
    ASSUME NEW g \in Nat
    PROVE  /\ Percent99(g) \in Nat /\ Percent98(g) \in Nat
           /\ LPFee(g) \in Nat /\ CoreFee(g) \in Nat
           /\ CreatorPart(g) \in Nat /\ ProtocolPart(g) \in Nat
           /\ Percent99(g) + CreatorPart(g) + ProtocolPart(g) <= g
           /\ Percent98(g) + LPFee(g) + CoreFee(g) + ProtocolPart(g) <= g
  BY DEF Percent99, Percent98, LPFee, CoreFee, CreatorPart, ProtocolPart

LEMMA Cancel ==
    ASSUME NEW a \in Nat, NEW b \in Nat, NEW c \in Nat, a * c < b * c
    PROVE  a < b
  <1> SUFFICES ASSUME a >= b PROVE FALSE
    OBVIOUS
  <1>1. PICK e \in Nat : a = b + e
    <2>1. a - b \in Nat /\ a = b + (a - b)
      OBVIOUS
    <2>2. QED
      BY <2>1
  <1>2. a * c = b * c + e * c /\ e * c >= 0
    BY <1>1
  <1>3. QED
    BY <1>2
------------------------------------------------------------------------------
\* What the logarithm adds to the larger side, where the two sides are close.
LEMMA SpreadType ==
    ASSUME NEW diff \in Nat, NEW b \in Nat, b > 0, ~ (diff \div b >= 60)
    PROVE  (b * LnOnePlusExp((diff * Wad) \div b)) \div Wad \in Nat
  <1> DEFINE x == (diff * Wad) \div b
  <1>1. diff \div b \in Nat /\ diff < (diff \div b) * b + b
    BY Division
  <1>2. diff < 60 * b
    BY <1>1
  <1>3. diff * Wad \in Nat /\ x \in Nat /\ x * b <= diff * Wad
    BY CurveAssumption, Product, Division
  <1>4. diff * Wad < (60 * b) * Wad
    BY <1>2, CurveAssumption
  <1>5. (60 * b) * Wad = (60 * Wad) * b /\ 60 * Wad \in Nat
    BY CurveAssumption
  <1> HIDE DEF x
  <1>6. x * b < (60 * Wad) * b
    BY <1>3, <1>4, <1>5, CurveAssumption
  <1>7. x < 60 * Wad
    BY <1>3, <1>5, <1>6, Cancel
  <1>8. LnOnePlusExp(x) \in Nat
    BY <1>3, <1>7, LnAssumption, CurveAssumption
  <1>9. (b * LnOnePlusExp(x)) \div Wad \in Nat
    BY <1>8, Product, Division, CurveAssumption
  <1>10. QED
    BY <1>9 DEF x

\* The cost function is a natural number, never below either side, starts at no
\* more than its depth, and moves with complete pairs one to one.
LEMMA CostType ==
    ASSUME NEW y \in Nat, NEW n \in Nat, NEW b \in Nat, b > 0
    PROVE  Cost(y, n, b) \in Nat /\ y <= Cost(y, n, b) /\ n <= Cost(y, n, b)
  <1>1. /\ Distance(y, n) \in Nat /\ Larger(y, n) \in Nat
        /\ y <= Larger(y, n) /\ n <= Larger(y, n)
    BY DEF Distance, Larger
  <1>2. CASE Distance(y, n) \div b >= 60
    BY <1>1, <1>2 DEF Cost
  <1>3. CASE ~ (Distance(y, n) \div b >= 60)
    <2>1. (b * LnOnePlusExp((Distance(y, n) * Wad) \div b)) \div Wad \in Nat
      BY <1>1, <1>3, SpreadType
    <2>2. QED
      BY <1>1, <1>3, <2>1 DEF Cost
  <1>4. QED
    BY <1>2, <1>3

LEMMA CostStart ==
    ASSUME NEW b \in Nat, b > 0
    PROVE  Cost(0, 0, b) <= b
  <1>1. 0 \div b = 0 /\ (0 * Wad) \div b = 0
    <2>1. 0 * Wad = 0
      BY CurveAssumption
    <2>2. 0 \div b \in Nat /\ (0 \div b) * b <= 0
      BY Division
    <2>3. 0 \div b = 0
      BY <2>2
    <2>4. QED
      BY <2>1, <2>3
  <1>2. LnOnePlusExp(0) \in Nat /\ LnOnePlusExp(0) <= Wad
    BY LnAssumption, CurveAssumption
  <1>3. Cost(0, 0, b) = (b * LnOnePlusExp(0)) \div Wad
    <2>1. Larger(0, 0) = 0 /\ Distance(0, 0) = 0
      BY DEF Larger, Distance
    <2>2. (b * LnOnePlusExp(0)) \div Wad \in Nat
      BY <1>2, Product, Division, CurveAssumption
    <2>3. QED
      BY <1>1, <2>1, <2>2 DEF Cost
  <1> DEFINE l == LnOnePlusExp(0)
             q == (b * l) \div Wad
  <1>4. b * l \in Nat /\ q \in Nat /\ q * Wad <= b * l
    BY <1>2, Product, Division, CurveAssumption
  <1>5. b * l <= b * Wad
    BY <1>2, CurveAssumption
  <1> HIDE DEF l, q
  <1>6. q * Wad < (b + 1) * Wad
    BY <1>4, <1>5, CurveAssumption
  <1>7. q < b + 1
    BY <1>4, <1>6, Cancel, CurveAssumption
  <1>8. QED
    BY <1>3, <1>4, <1>7 DEF q, l

LEMMA CostShift ==
    ASSUME NEW y \in Nat, NEW n \in Nat, NEW b \in Nat, b > 0,
           NEW a \in Nat, a <= y, a <= n
    PROVE  Cost(y - a, n - a, b) = Cost(y, n, b) - a
  <1>1. Distance(y - a, n - a) = Distance(y, n) /\ Larger(y - a, n - a) = Larger(y, n) - a
    BY DEF Distance, Larger
  <1>2. CASE Distance(y, n) \div b >= 60
    BY <1>1, <1>2 DEF Cost
  <1>3. CASE ~ (Distance(y, n) \div b >= 60)
    <2> DEFINE t == (b * LnOnePlusExp((Distance(y, n) * Wad) \div b)) \div Wad
    <2>1. Cost(y, n, b) = Larger(y, n) + t /\ Cost(y - a, n - a, b) = Larger(y, n) - a + t
      BY <1>1, <1>3 DEF Cost
    <2>2. Larger(y, n) \in Nat /\ Distance(y, n) \in Nat
      BY DEF Larger, Distance
    <2>3. t \in Nat
      BY <1>3, <2>2, SpreadType
    <2>4. QED
      BY <2>1, <2>2, <2>3
  <1>4. QED
    BY <1>2, <1>3

LEMMA DepthType ==
    ASSUME TypeOK, initialCollateral > 0
    PROVE  bWad \in Nat /\ bWad > 0 /\ FormalGuard \in Nat
  <1>1. bWad \in Nat /\ bWad > 0
    BY CurveAssumption DEF TypeOK, LPOK, bWad
  <1>2. bWad \div GuardDepth \in Nat
    BY <1>1, Division, CurveAssumption
  <1>3. Larger(GuardFloor, bWad \div GuardDepth + GuardSlack) \in Nat
    BY <1>2, CurveAssumption DEF Larger
  <1>4. QED
    BY <1>1, <1>3, CeilDivision, CurveAssumption DEF FormalGuard

LEMMA CostOfType ==
    ASSUME TypeOK, initialCollateral > 0, NEW q \in [Side -> Nat]
    PROVE  CostOf(q) \in Nat /\ \A s \in Side : q[s] <= CostOf(q)
  BY DepthType, CostType DEF CostOf, Side

\* A buyer pays, net of fees and in outcome units, at least what the cost grows.
LEMMA BuyPays ==
    ASSUME TypeOK, initialCollateral > 0, NEW s \in Side, NEW a \in Nat,
           CostOf(SupplyWith(s, a)) >= CostOf(supply)
    PROVE  /\ BuyGross(s, a) \in Nat
           /\ CostOf(SupplyWith(s, a)) - CostOf(supply) <= Percent98(BuyGross(s, a)) * Scale
  <1> DEFINE growth == CostOf(SupplyWith(s, a)) - CostOf(supply)
             units  == CeilDiv(growth, Scale)
             net    == units + FormalGuard
             gross  == CeilDiv(net * 100, 98)
  <1>1. growth \in Nat
    <2>1. SupplyWith(s, a) \in [Side -> Nat] /\ supply \in [Side -> Nat]
      BY DEF TypeOK, TradeOK, SupplyWith
    <2>2. QED
      BY <2>1, CostOfType
  <1> HIDE DEF growth
  <1>2. units \in Nat /\ units * Scale >= growth
    BY <1>1, CeilDivision, CurveAssumption
  <1>3. FormalGuard \in Nat
    BY DepthType
  <1> HIDE DEF units
  <1>4. net \in Nat
    BY <1>2, <1>3
  <1>5. gross \in Nat /\ gross * 98 >= net * 100
    BY <1>4, CeilDivision
  <1>6. Percent98(gross) \in Nat /\ Percent98(gross) >= net
    <2> HIDE DEF gross, net
    <2>1. QED
      BY <1>4, <1>5 DEF Percent98
  <1>7. Percent98(gross) * Scale >= growth
    <2> DEFINE p == Percent98(gross)
    <2>1. p \in Nat /\ p >= units
      BY <1>2, <1>3, <1>6
    <2> HIDE DEF p
    <2>2. p * Scale >= units * Scale
      BY <1>2, <2>1, CurveAssumption
    <2>3. QED
      BY <1>1, <1>2, <2>1, <2>2, CurveAssumption DEF p
  <1>8. QED
    BY <1>5, <1>7 DEF growth, units, BuyGross

\* A seller is paid, fees included, at most what the cost shrinks.
LEMMA SellPays ==
    ASSUME TypeOK, initialCollateral > 0, NEW s \in Side, NEW a \in Nat,
           a <= supply[s], CostOf(supply) >= CostOf(SupplyWith(s, -a)),
           SellRaw(s, a) > FormalGuard
    PROVE  /\ SellGross(s, a) \in Nat
           /\ SellGross(s, a) * Scale <= CostOf(supply) - CostOf(SupplyWith(s, -a))
  <1> DEFINE fall == CostOf(supply) - CostOf(SupplyWith(s, -a))
             raw  == fall \div Scale
  <1>1. fall \in Nat
    <2>1. SupplyWith(s, -a) \in [Side -> Nat] /\ supply \in [Side -> Nat]
      BY DEF TypeOK, TradeOK, SupplyWith
    <2>2. QED
      BY <2>1, CostOfType
  <1> HIDE DEF fall
  <1>2. raw \in Nat /\ raw * Scale <= fall
    BY <1>1, Division, CurveAssumption
  <1>3. raw = SellRaw(s, a) /\ FormalGuard \in Nat
    BY DepthType DEF SellRaw, fall
  <1> HIDE DEF raw
  <1>4. SellGross(s, a) \in Nat /\ SellGross(s, a) <= raw
    BY <1>2, <1>3 DEF SellGross
  <1>5. SellGross(s, a) * Scale <= raw * Scale
    BY <1>2, <1>4, CurveAssumption
  <1>6. QED
    BY <1>1, <1>2, <1>4, <1>5, CurveAssumption DEF fall

\* A sale of q shares leaves a reserve that pays the rest of the curve.
LEMMA GrossLeavesCurve ==
    ASSUME S \in Nat, R \in Nat, NEW q \in Nat, q <= S, K * S * S <= R * CurveScale
    PROVE  /\ GenesisGross(q) \in Nat /\ GenesisGross(q) <= R
           /\ K * (S - q) * (S - q) <= (R - GenesisGross(q)) * CurveScale
  <1> DEFINE a == S * S - (S - q) * (S - q)
             g == (K * a) \div CurveScale
  <1>1. a \in Nat
    <2>1. S - q \in Nat /\ S - q <= S
      OBVIOUS
    <2>2. (S - q) * (S - q) \in Nat /\ (S - q) * (S - q) <= S * S
      BY <2>1
    <2>3. QED
      BY <2>2
  <1>2. g \in Nat /\ g * CurveScale <= K * a /\ GenesisGross(q) = g
    BY <1>1, Product, Division, CurveAssumption DEF GenesisGross
  <1>3. K * (S - q) * (S - q) = K * S * S - K * a
    BY CurveAssumption
  <1>4. K * (S - q) * (S - q) \in Nat
    BY CurveAssumption, Product
  <1> HIDE DEF g, a
  <1>5. (R - g) * CurveScale = R * CurveScale - g * CurveScale
    BY <1>2, CurveAssumption
  <1>6. K * a \in Nat /\ K * S * S \in Nat /\ R * CurveScale \in Nat /\ g * CurveScale \in Nat
    BY <1>1, <1>2, CurveAssumption, Product
  <1>7. K * (S - q) * (S - q) <= (R - g) * CurveScale
    BY <1>2, <1>3, <1>5, <1>6, <1>4
  <1>8. g <= R
    <2> SUFFICES ASSUME g > R PROVE FALSE
      BY <1>2
    <2>1. (R - g) * CurveScale < 0
      BY <1>2, CurveAssumption
    <2>2. QED
      BY <1>4, <1>7, <2>1, <1>5, <1>6
  <1>9. QED
    BY <1>2, <1>7, <1>8

LEMMA SupplyBelowCurve ==
    ASSUME NEW s \in Nat, NEW r \in Nat, IsCurveSupply(s, r)
    PROVE  K * s * s <= r * CurveScale
  <1> DEFINE x == (r * CurveScale) \div K
  <1>1. x \in Nat /\ x * K <= r * CurveScale /\ r * CurveScale \in Nat
    BY Product, Division, CurveAssumption
  <1>2. s * s <= x /\ s * s \in Nat
    BY DEF IsCurveSupply
  <1> HIDE DEF x
  <1>3. (s * s) * K <= x * K
    BY <1>1, <1>2, CurveAssumption
  <1>4. K * s * s = (s * s) * K
    BY CurveAssumption
  <1>5. QED
    BY <1>1, <1>2, <1>3, <1>4, CurveAssumption
------------------------------------------------------------------------------
LEMMA InitInvariant == Init => IInv
  <1> SUFFICES ASSUME Init PROVE IInv
    OBVIOUS
  <1> USE DEF Init, NewMarket
  <1>1. TypeOK
    <2>1. TimeOK
      BY TimeAssumption DEF TimeOK, Phase
    <2>2. GenesisOK /\ LPOK
      BY DEF GenesisOK, LPOK
    <2>3. TradeOK /\ ResultOK
      BY DEF TradeOK, ResultOK
    <2>4. QED
      BY <2>1, <2>2, <2>3 DEF TypeOK
  <1>2. Dormant
    BY DEF Dormant, Trading
  <1>3. CurveBacked /\ GraduationIsPrompt
    BY CurveAssumption DEF CurveBacked, GraduationIsPrompt
  <1>4. CashCoversCost /\ SettledBacked /\ BudgetsKeepTheirShare
    BY DEF CashCoversCost, SettledBacked, BudgetsKeepTheirShare
  <1>5. BooksCoverBalance
    BY DEF BooksCoverBalance, Accounted
  <1>6. QED
    BY <1>1, <1>2, <1>3, <1>4, <1>5 DEF IInv

\* A Genesis trade that leaves a reserve r on the curve of supply s keeps the
\* market in Genesis, or graduates it: with cash above the cost of nothing.
LEMMA ReserveStep ==
    ASSUME IInv, phase = "GENESIS", NEW r \in Nat, NEW s \in Nat,
           K * s * s <= r * CurveScale,
           Reserve(r, s, ReachesTarget(r)),
           shares' \in [Users -> Nat],
           UNCHANGED <<now, lpBalance, lpFees, coreFeesSent, outcomeVars,
                       resultVars, budgetVars, failedVars, coreVars>>,
           balance' \in Nat, protocolFees' \in Nat, creatorFees' \in Nat,
           dust' \in Nat
    PROVE  /\ TypeOK' /\ Dormant' /\ CurveBacked' /\ GraduationIsPrompt'
           /\ CashCoversCost' /\ SettledBacked' /\ BudgetsKeepTheirShare'
           /\ R' + cash' = r
  <1> USE DEF IInv, TypeOK, TimeOK, GenesisOK, LPOK, TradeOK, ResultOK, outcomeVars,
              resultVars, budgetVars, failedVars, coreVars, depthVars
  <1>1. CASE ReachesTarget(r)
    <2> USE <1>1 DEF Reserve, Graduate
    <2>1. TypeOK'
      BY DEF Phase
    <2>2. phase' = "FORMAL" /\ cash' = r /\ R' = 0 /\ initialCollateral' = r /\ r > 0
      BY CurveAssumption DEF ReachesTarget
    <2>3. supply' = [x \in Side |-> 0] /\ lpFees' = 0 /\ collateralCash' = 0
          /\ lpBudgetRemaining' = 0 /\ failedRRemaining' = 0
      BY DEF Dormant, Trading
    <2>4. Dormant'
      BY <2>2, <2>3 DEF Dormant, Trading
    <2>5. CashCoversCost'
      <3>1. bWad' = r * Scale /\ bWad' \in Nat /\ bWad' > 0
        BY <2>2, CurveAssumption DEF bWad
      <3>2. CostOf(supply)' = Cost(0, 0, bWad')
        BY <2>3 DEF CostOf, Side
      <3>3. Cost(0, 0, bWad') \in Nat
        BY <3>1, CostType
      <3>4. QED
        BY <2>2, <3>1, <3>2, <3>3 DEF CashCoversCost
    <2>6. QED
      BY <2>1, <2>2, <2>4, <2>5 DEF CurveBacked, GraduationIsPrompt, SettledBacked,
                                    BudgetsKeepTheirShare
  <1>2. CASE ~ReachesTarget(r)
    <2> USE <1>2 DEF Reserve
    <2>1. TypeOK' /\ phase' = "GENESIS" /\ R' = r /\ S' = s /\ cash' = 0
      BY DEF Dormant, Trading
    <2>2. Dormant'
      BY <2>1 DEF Dormant, Trading
    <2>3. GraduationIsPrompt' /\ CurveBacked'
      BY <2>1, CurveAssumption DEF GraduationIsPrompt, ReachesTarget, CurveBacked
    <2>4. QED
      BY <2>1, <2>2, <2>3 DEF CashCoversCost, SettledBacked, BudgetsKeepTheirShare
  <1>3. QED
    BY <1>1, <1>2

LEMMA GenesisBuyStep ==
    ASSUME IInv, NEW u \in Users, NEW paid \in PaidAmounts, GenesisBuy(u, paid)
    PROVE  IInv'
  <1> DEFINE r == R + Percent99(paid)
  <1>1. paid \in Nat /\ phase = "GENESIS" /\ TypeOK /\ Dormant /\ BooksCoverBalance
    BY AmountsAssumption DEF GenesisBuy, GenesisOpen, IInv
  <1>2. /\ Percent99(paid) \in Nat /\ CreatorPart(paid) \in Nat /\ ProtocolPart(paid) \in Nat
        /\ Percent99(paid) + CreatorPart(paid) + ProtocolPart(paid) <= paid
    BY <1>1, Percentages
  <1>3. r \in Nat
    BY <1>1, <1>2 DEF TypeOK, GenesisOK
  <1>4. (r * CurveScale) \div K \in Nat
    BY <1>3, Product, Division, CurveAssumption
  <1> HIDE DEF r
  <1>5. PICK next \in (S + 1)..((r * CurveScale) \div K) :
          /\ IsCurveSupply(next, r)
          /\ shares' = [shares EXCEPT ![u] = @ + (next - S)]
          /\ Reserve(r, next, ReachesTarget(r))
    BY DEF GenesisBuy, r
  <1>6. next \in Nat /\ next - S \in Nat
    BY <1>1, <1>4, <1>5 DEF TypeOK, GenesisOK
  <1>7. K * next * next <= r * CurveScale
    BY <1>3, <1>5, <1>6, SupplyBelowCurve
  <1>8. shares' \in [Users -> Nat]
    BY <1>1, <1>5, <1>6 DEF TypeOK, GenesisOK
  <1>9. /\ balance' = balance + paid /\ balance' \in Nat
        /\ protocolFees' = protocolFees + ProtocolPart(paid)
        /\ creatorFees' = creatorFees + CreatorPart(paid)
        /\ dust' = dust + paid - Percent99(paid) - CreatorPart(paid) - ProtocolPart(paid)
        /\ protocolFees' \in Nat /\ creatorFees' \in Nat /\ dust' \in Nat
        /\ UNCHANGED <<now, lpBalance, lpFees, coreFeesSent, outcomeVars,
                       resultVars, budgetVars, failedVars, coreVars>>
    BY <1>1, <1>2 DEF GenesisBuy, AccrueGen, TypeOK, TimeOK, GenesisOK
  <1>10. /\ TypeOK' /\ Dormant' /\ CurveBacked' /\ GraduationIsPrompt'
         /\ CashCoversCost' /\ SettledBacked' /\ BudgetsKeepTheirShare'
         /\ R' + cash' = r
    BY <1>1, <1>3, <1>5, <1>6, <1>7, <1>8, <1>9, ReserveStep
  <1>11. Accounted' = Accounted + paid
    <2>1. cash = 0
      BY <1>1 DEF Dormant, Trading
    <2>2. R' + cash' = R + cash + Percent99(paid)
      BY <1>10, <1>1, <1>2, <2>1 DEF r, TypeOK, GenesisOK
    <2>3. QED
      BY <1>1, <1>2, <1>9, <1>10, <2>2 DEF Accounted, TypeOK, GenesisOK, TradeOK, ResultOK,
             budgetVars, failedVars
  <1>12. BooksCoverBalance'
    <2>1. Accounted \in Nat
      BY <1>1 DEF Accounted, TypeOK, GenesisOK, TradeOK, ResultOK
    <2>2. QED
      BY <1>1, <1>9, <1>11, <2>1 DEF BooksCoverBalance, TypeOK, TimeOK
  <1>13. QED
    BY <1>10, <1>12 DEF IInv

LEMMA GenesisSellStep ==
    ASSUME IInv, NEW u \in Users, NEW q \in Nat, GenesisSell(u, q)
    PROVE  IInv'
  <1> DEFINE g == GenesisGross(q)
             left == R - g
             r == IF S = q THEN 0 ELSE left
             more == IF S = q THEN left ELSE 0
  <1>1. /\ phase = "GENESIS" /\ TypeOK /\ Dormant /\ BooksCoverBalance
        /\ q <= S /\ q <= shares[u] /\ K * S * S <= R * CurveScale /\ R < RTarget
    BY DEF GenesisSell, GenesisOpen, IInv, CurveBacked, GraduationIsPrompt
  <1>2. S \in Nat /\ R \in Nat
    BY <1>1 DEF TypeOK, GenesisOK
  <1>3. g \in Nat /\ g <= R /\ K * (S - q) * (S - q) <= left * CurveScale
    BY <1>1, <1>2, GrossLeavesCurve
  <1> HIDE DEF g
  <1>4. /\ Percent99(g) \in Nat /\ CreatorPart(g) \in Nat /\ ProtocolPart(g) \in Nat
        /\ Percent99(g) + CreatorPart(g) + ProtocolPart(g) <= g
    BY <1>3, Percentages
  <1>5. left \in Nat /\ r \in Nat /\ more \in Nat /\ r + more = left /\ S - q \in Nat
    BY <1>1, <1>2, <1>3
  <1>6. K * (S - q) * (S - q) <= r * CurveScale
    <2>1. CASE S = q
      <3>1. K * (S - q) * (S - q) = 0 /\ 0 * CurveScale = 0
        BY <1>2, <2>1, CurveAssumption
      <3>2. QED
        BY <2>1, <3>1
    <2>2. CASE S # q
      BY <1>3, <2>2
    <2>3. QED
      BY <2>1, <2>2
  <1>7. ~ReachesTarget(left) /\ ~ReachesTarget(r)
    BY <1>1, <1>2, <1>3, <1>5, CurveAssumption DEF ReachesTarget
  <1>8. /\ shares' = [shares EXCEPT ![u] = @ - q]
        /\ Reserve(r, S - q, ReachesTarget(left))
        /\ AccrueGen(g, more)
        /\ Percent99(g) <= balance /\ balance' = balance - Percent99(g)
        /\ UNCHANGED <<now, lpBalance, lpFees, coreFeesSent, outcomeVars,
                       resultVars, budgetVars, failedVars, coreVars>>
    BY DEF GenesisSell, g
  <1> HIDE DEF left, r, more
  <1>9. Reserve(r, S - q, ReachesTarget(r))
    BY <1>7, <1>8 DEF Reserve
  <1>10. shares' \in [Users -> Nat]
    BY <1>1, <1>8 DEF TypeOK, GenesisOK
  <1>11. /\ protocolFees' = protocolFees + ProtocolPart(g)
         /\ creatorFees' = creatorFees + CreatorPart(g)
         /\ dust' = dust + g - Percent99(g) - CreatorPart(g) - ProtocolPart(g) + more
         /\ protocolFees' \in Nat /\ creatorFees' \in Nat /\ dust' \in Nat
         /\ balance' \in Nat
    BY <1>1, <1>3, <1>4, <1>5, <1>8 DEF AccrueGen, TypeOK, TimeOK, GenesisOK
  <1>12. /\ TypeOK' /\ Dormant' /\ CurveBacked' /\ GraduationIsPrompt'
         /\ CashCoversCost' /\ SettledBacked' /\ BudgetsKeepTheirShare'
         /\ R' + cash' = r
    BY <1>1, <1>5, <1>6, <1>8, <1>9, <1>10, <1>11, ReserveStep
  <1>13. Accounted' = Accounted - Percent99(g)
    <2>1. cash = 0 /\ left = R - g
      BY <1>1 DEF Dormant, Trading, left
    <2>2. R' + cash' = R + cash - g - more
      BY <1>12, <1>1, <1>2, <1>3, <1>5, <2>1
    <2>3. protocolFees' + creatorFees' + dust'
            = protocolFees + creatorFees + dust + g - Percent99(g) + more
      BY <1>1, <1>3, <1>4, <1>5, <1>11 DEF TypeOK, GenesisOK
    <2>4. /\ collateralCash' = collateralCash /\ lpFees' = lpFees
          /\ lpBudgetRemaining' = lpBudgetRemaining
          /\ failedRRemaining' = failedRRemaining
      BY <1>8 DEF budgetVars, failedVars
    <2>5. R' \in Nat /\ cash' \in Nat
      BY <1>12 DEF TypeOK, GenesisOK, TradeOK
    <2>6. TypeOK /\ g \in Nat /\ more \in Nat /\ Percent99(g) \in Nat
          /\ protocolFees' \in Nat /\ creatorFees' \in Nat /\ dust' \in Nat
      BY <1>1, <1>3, <1>4, <1>5, <1>11
    <2>7. Accounted = (R + cash) + (protocolFees + creatorFees + dust)
                        + (collateralCash + lpFees + lpBudgetRemaining + failedRRemaining)
      BY <2>6 DEF Accounted, TypeOK, GenesisOK, TradeOK, ResultOK
    <2>8. Accounted' = (R' + cash') + (protocolFees' + creatorFees' + dust')
                         + (collateralCash + lpFees + lpBudgetRemaining + failedRRemaining)
      BY <2>4, <2>5, <2>6 DEF Accounted, TypeOK, GenesisOK, TradeOK, ResultOK
    <2>9. QED
      BY <2>2, <2>3, <2>6, <2>7, <2>8 DEF TypeOK, GenesisOK, TradeOK, ResultOK
  <1>14. BooksCoverBalance'
    <2>1. Accounted \in Nat
      BY <1>1 DEF Accounted, TypeOK, GenesisOK, TradeOK, ResultOK
    <2>2. QED
      BY <1>1, <1>4, <1>8, <1>13, <2>1 DEF BooksCoverBalance, TypeOK, TimeOK
  <1>15. QED
    BY <1>12, <1>14 DEF IInv
------------------------------------------------------------------------------
\* The books of an open market are five: what a step adds to the cash and to the
\* fees, it adds to the whole.
LEMMA TradingBooks ==
    ASSUME IInv, Trading,
           R' = 0, creatorFees' = creatorFees, collateralCash' = 0,
           lpBudgetRemaining' = 0, failedRRemaining' = 0,
           protocolFees' \in Nat, dust' \in Nat, cash' \in Nat, lpFees' \in Nat
    PROVE  /\ R = 0
           /\ Accounted = protocolFees + creatorFees + dust + cash + lpFees
           /\ Accounted' = protocolFees' + creatorFees + dust' + cash' + lpFees'
           /\ Accounted \in Nat
  <1>1. /\ R = 0 /\ collateralCash = 0 /\ lpBudgetRemaining = 0
        /\ failedRRemaining = 0
    BY DEF IInv, Dormant, Trading
  <1>2. Accounted' = 0 + protocolFees' + creatorFees + dust' + 0 + cash' + lpFees' + 0 + 0
    BY DEF Accounted
  <1>3. QED
    BY <1>1, <1>2 DEF Accounted, IInv, TypeOK, GenesisOK, TradeOK, ResultOK

\* A step of an open market that keeps its depth and its liquidity keeps the
\* invariant when it keeps the cover of the cost and the books.
LEMMA TradingStep ==
    ASSUME IInv, Trading, phase' \in {"FORMAL", "WAIT_CORE"},
           now' \in 0..CoreEnd, balance' \in Nat,
           UNCHANGED <<R, S, creatorFees, depthVars, liquiditySupply, resultVars,
                       budgetVars, failedVars>>,
           shares' \in [Users -> Nat], unmaterializedLP' \in Nat,
           lpBalance' \in [Users -> Nat],
           protocolFees' \in Nat, dust' \in Nat,
           cash' \in Nat, lpFees' \in Nat, coreFeesSent' \in Nat,
           tokens' \in [Users -> [Side -> Nat]], supply' \in [Side -> Nat],
           coreResult' \in Result \cup {"PENDING"}, coreDue' \in BOOLEAN,
           cash' * Scale + Cost(0, 0, bWad) >= bWad + CostOf(supply'),
           BooksCoverBalance'
    PROVE  IInv'
  <1>1. TypeOK'
    BY DEF IInv, TypeOK, TimeOK, Phase, GenesisOK, LPOK, TradeOK, ResultOK, depthVars,
           resultVars, budgetVars, failedVars
  <1>2. Dormant'
    BY DEF IInv, Dormant, Trading, depthVars, budgetVars, failedVars
  <1>3. CashCoversCost'
    BY DEF CashCoversCost, CostOf, bWad, depthVars
  <1>4. CurveBacked' /\ GraduationIsPrompt' /\ SettledBacked' /\ BudgetsKeepTheirShare'
    BY DEF CurveBacked, GraduationIsPrompt, SettledBacked, BudgetsKeepTheirShare
  <1>5. QED
    BY <1>1, <1>2, <1>3, <1>4 DEF IInv

\* What the invariant says of an open market's numbers.
LEMMA TradingFacts ==
    ASSUME IInv, Trading
    PROVE  /\ TypeOK /\ initialCollateral > 0
           /\ bWad \in Nat /\ Cost(0, 0, bWad) \in Nat /\ CostOf(supply) \in Nat
           /\ cash * Scale + Cost(0, 0, bWad) >= bWad + CostOf(supply)
  <1>1. TypeOK /\ initialCollateral > 0 /\ supply \in [Side -> Nat]
    BY DEF IInv, Dormant, TypeOK, TradeOK
  <1>2. bWad \in Nat /\ bWad > 0
    BY <1>1, DepthType
  <1>3. Cost(0, 0, bWad) \in Nat
    BY <1>2, CostType
  <1>4. CostOf(supply) \in Nat
    BY <1>1, CostOfType
  <1>5. QED
    BY <1>1, <1>2, <1>3, <1>4 DEF IInv, CashCoversCost, Trading

LEMMA FormalBuyStep ==
    ASSUME IInv, NEW u \in Users, NEW s \in Side, NEW a \in Nat, FormalBuy(u, s, a)
    PROVE  IInv'
  <1> DEFINE g == BuyGross(s, a)
  <1>1. Trading /\ phase' = "FORMAL" /\ CostOf(SupplyWith(s, a)) >= CostOf(supply)
    BY DEF FormalBuy, FormalOpen, Trading
  <1>2. TypeOK /\ initialCollateral > 0 /\ BooksCoverBalance
    BY <1>1, TradingFacts DEF IInv
  <1>3. g \in Nat /\ CostOf(SupplyWith(s, a)) - CostOf(supply) <= Percent98(g) * Scale
    BY <1>1, <1>2, BuyPays
  <1>4. /\ cash' = cash + Percent98(g) /\ AccrueFormal(g)
        /\ supply' = SupplyWith(s, a) /\ tokens' = [tokens EXCEPT ![u][s] = @ + a]
        /\ balance' = balance + g - CoreFee(g)
        /\ UNCHANGED <<now, phase, genesisVars, creatorFees, depthVars, lpVars,
                       resultVars, budgetVars, failedVars, coreVars>>
    BY DEF FormalBuy
  <1> HIDE DEF g
  <1>5. /\ Percent98(g) \in Nat /\ LPFee(g) \in Nat /\ CoreFee(g) \in Nat
        /\ ProtocolPart(g) \in Nat
        /\ Percent98(g) + LPFee(g) + CoreFee(g) + ProtocolPart(g) <= g
    BY <1>3, Percentages
  <1>6. /\ supply' \in [Side -> Nat] /\ tokens' \in [Users -> [Side -> Nat]]
        /\ SupplyWith(s, a) \in [Side -> Nat]
    BY <1>2, <1>4 DEF TypeOK, TradeOK, SupplyWith
  <1>7. /\ lpFees' = lpFees + LPFee(g) /\ protocolFees' = protocolFees + ProtocolPart(g)
        /\ dust' = dust + g - Percent98(g) - LPFee(g) - CoreFee(g) - ProtocolPart(g)
        /\ cash' \in Nat /\ lpFees' \in Nat /\ protocolFees' \in Nat /\ dust' \in Nat
        /\ coreFeesSent' \in Nat /\ balance' \in Nat
    BY <1>2, <1>3, <1>4, <1>5 DEF AccrueFormal, TypeOK, TimeOK, GenesisOK, TradeOK
  <1>8. cash' * Scale + Cost(0, 0, bWad) >= bWad + CostOf(supply')
    <2>1. CostOf(supply') = CostOf(SupplyWith(s, a)) /\ CostOf(supply') \in Nat
      BY <1>2, <1>4, <1>6, CostOfType
    <2>2. cash' * Scale = cash * Scale + Percent98(g) * Scale
      BY <1>2, <1>4, <1>5, CurveAssumption DEF TypeOK, TradeOK
    <2>3. cash * Scale \in Nat /\ Percent98(g) * Scale \in Nat
      BY <1>2, <1>5, Product, CurveAssumption DEF TypeOK, TradeOK
    <2>4. /\ bWad \in Nat /\ Cost(0, 0, bWad) \in Nat /\ CostOf(supply) \in Nat
          /\ cash * Scale + Cost(0, 0, bWad) >= bWad + CostOf(supply)
      BY <1>1, TradingFacts
    <2>5. QED
      BY <1>3, <2>1, <2>2, <2>3, <2>4
  <1>9. BooksCoverBalance'
    <2>1. /\ Accounted = protocolFees + creatorFees + dust + cash + lpFees
          /\ Accounted' = protocolFees' + creatorFees + dust' + cash' + lpFees'
          /\ Accounted \in Nat
      BY <1>1, <1>4, <1>7, TradingBooks DEF IInv, Dormant, Trading, genesisVars, budgetVars, failedVars
    <2>2. Accounted' = Accounted + g - CoreFee(g)
      BY <1>2, <1>3, <1>4, <1>5, <1>7, <2>1 DEF TypeOK, GenesisOK, TradeOK
    <2>3. QED
      BY <1>2, <1>3, <1>4, <1>5, <2>1, <2>2 DEF BooksCoverBalance, TypeOK, TimeOK
  <1>10. QED
    BY <1>1, <1>2, <1>4, <1>6, <1>7, <1>8, <1>9, TradingStep
       DEF TypeOK, TimeOK, GenesisOK, LPOK, ResultOK, genesisVars, lpVars, coreVars

LEMMA FormalSellStep ==
    ASSUME IInv, NEW u \in Users, NEW s \in Side, NEW a \in Nat, FormalSell(u, s, a)
    PROVE  IInv'
  <1> DEFINE g == SellGross(s, a)
  <1>1. /\ Trading /\ phase' = "FORMAL" /\ CostOf(supply) >= CostOf(SupplyWith(s, -a))
        /\ a <= tokens[u][s] /\ a <= supply[s] /\ SellRaw(s, a) > FormalGuard
    BY DEF FormalSell, FormalOpen, Trading
  <1>2. TypeOK /\ initialCollateral > 0 /\ BooksCoverBalance
    BY <1>1, TradingFacts DEF IInv
  <1>3. g \in Nat /\ g * Scale <= CostOf(supply) - CostOf(SupplyWith(s, -a))
    BY <1>1, <1>2, SellPays
  <1>4. /\ g <= cash /\ CoreFee(g) + Percent98(g) <= balance
        /\ cash' = cash - g /\ AccrueFormal(g)
        /\ supply' = SupplyWith(s, -a) /\ tokens' = [tokens EXCEPT ![u][s] = @ - a]
        /\ balance' = balance - CoreFee(g) - Percent98(g)
        /\ UNCHANGED <<now, phase, genesisVars, creatorFees, depthVars, lpVars,
                       resultVars, budgetVars, failedVars, coreVars>>
    BY DEF FormalSell
  <1> HIDE DEF g
  <1>5. /\ Percent98(g) \in Nat /\ LPFee(g) \in Nat /\ CoreFee(g) \in Nat
        /\ ProtocolPart(g) \in Nat
        /\ Percent98(g) + LPFee(g) + CoreFee(g) + ProtocolPart(g) <= g
    BY <1>3, Percentages
  <1>6. /\ supply' \in [Side -> Nat] /\ tokens' \in [Users -> [Side -> Nat]]
        /\ SupplyWith(s, -a) \in [Side -> Nat]
    BY <1>1, <1>2, <1>4 DEF TypeOK, TradeOK, SupplyWith
  <1>7. /\ lpFees' = lpFees + LPFee(g) /\ protocolFees' = protocolFees + ProtocolPart(g)
        /\ dust' = dust + g - Percent98(g) - LPFee(g) - CoreFee(g) - ProtocolPart(g)
        /\ cash' \in Nat /\ lpFees' \in Nat /\ protocolFees' \in Nat /\ dust' \in Nat
        /\ coreFeesSent' \in Nat /\ balance' \in Nat
    BY <1>2, <1>3, <1>4, <1>5 DEF AccrueFormal, TypeOK, TimeOK, GenesisOK, TradeOK
  <1>8. cash' * Scale + Cost(0, 0, bWad) >= bWad + CostOf(supply')
    <2>1. CostOf(supply') = CostOf(SupplyWith(s, -a)) /\ CostOf(supply') \in Nat
      BY <1>2, <1>4, <1>6, CostOfType
    <2>2. cash' * Scale = cash * Scale - g * Scale
      BY <1>2, <1>3, <1>4, CurveAssumption DEF TypeOK, TradeOK
    <2>3. cash * Scale \in Nat /\ g * Scale \in Nat
      BY <1>2, <1>3, Product, CurveAssumption DEF TypeOK, TradeOK
    <2>4. /\ bWad \in Nat /\ Cost(0, 0, bWad) \in Nat /\ CostOf(supply) \in Nat
          /\ cash * Scale + Cost(0, 0, bWad) >= bWad + CostOf(supply)
      BY <1>1, TradingFacts
    <2>5. QED
      BY <1>3, <2>1, <2>2, <2>3, <2>4
  <1>9. BooksCoverBalance'
    <2>1. /\ Accounted = protocolFees + creatorFees + dust + cash + lpFees
          /\ Accounted' = protocolFees' + creatorFees + dust' + cash' + lpFees'
          /\ Accounted \in Nat
      BY <1>1, <1>4, <1>7, TradingBooks DEF IInv, Dormant, Trading, genesisVars, budgetVars, failedVars
    <2>2. Accounted' = Accounted - CoreFee(g) - Percent98(g)
      BY <1>2, <1>3, <1>4, <1>5, <1>7, <2>1 DEF TypeOK, GenesisOK, TradeOK
    <2>3. QED
      BY <1>2, <1>4, <1>5, <2>1, <2>2 DEF BooksCoverBalance, TypeOK, TimeOK
  <1>10. QED
    BY <1>1, <1>2, <1>4, <1>6, <1>7, <1>8, <1>9, TradingStep
       DEF TypeOK, TimeOK, GenesisOK, LPOK, ResultOK, genesisVars, lpVars, coreVars

LEMMA RedeemStep ==
    ASSUME IInv, NEW u \in Users, NEW a \in Nat, RedeemPairs(u, a)
    PROVE  IInv'
  <1> DEFINE burn == a * Scale
  <1>1. /\ Trading /\ phase' \in {"FORMAL", "WAIT_CORE"}
        /\ a <= cash /\ a <= balance
        /\ \A s \in Side : burn <= tokens[u][s] /\ burn <= supply[s]
        /\ tokens' = [tokens EXCEPT ![u] = [s \in Side |-> @[s] - burn]]
        /\ supply' = [s \in Side |-> supply[s] - burn]
        /\ cash' = cash - a /\ balance' = balance - a
        /\ UNCHANGED <<now, phase, genesisVars, feeVars, depthVars, lpVars,
                       lpFees, coreFeesSent, resultVars, budgetVars,
                       failedVars, coreVars>>
    BY DEF RedeemPairs, RedeemOpen, HoldsPairs, Trading
  <1>2. burn \in Nat
    BY CurveAssumption, Product
  <1> HIDE DEF burn
  <1>3. /\ TypeOK /\ initialCollateral > 0 /\ BooksCoverBalance
        /\ bWad \in Nat /\ Cost(0, 0, bWad) \in Nat /\ CostOf(supply) \in Nat
        /\ cash * Scale + Cost(0, 0, bWad) >= bWad + CostOf(supply)
    BY <1>1, TradingFacts DEF IInv
  <1>4. /\ supply' \in [Side -> Nat] /\ tokens' \in [Users -> [Side -> Nat]]
        /\ cash' \in Nat /\ balance' \in Nat
    <2>1. supply' \in [Side -> Nat]
      BY <1>1, <1>2, <1>3 DEF TypeOK, TradeOK
    <2>2. [s \in Side |-> tokens[u][s] - burn] \in [Side -> Nat]
      BY <1>1, <1>2, <1>3 DEF TypeOK, TradeOK
    <2>3. tokens' \in [Users -> [Side -> Nat]]
      BY <1>1, <1>3, <2>2 DEF TypeOK, TradeOK
    <2>4. QED
      BY <1>1, <1>3, <2>1, <2>3 DEF TypeOK, TimeOK, TradeOK
  <1>5. cash' * Scale + Cost(0, 0, bWad) >= bWad + CostOf(supply')
    <2>1. CostOf(supply') = CostOf(supply) - burn
      <3>1. /\ supply["YES"] \in Nat /\ supply["NO"] \in Nat
            /\ burn <= supply["YES"] /\ burn <= supply["NO"]
            /\ supply'["YES"] = supply["YES"] - burn
            /\ supply'["NO"] = supply["NO"] - burn
        BY <1>1, <1>3 DEF TypeOK, TradeOK, Side
      <3>2. bWad \in Nat /\ bWad > 0
        BY <1>3, DepthType
      <3>3. Cost(supply["YES"] - burn, supply["NO"] - burn, bWad)
              = Cost(supply["YES"], supply["NO"], bWad) - burn
        BY <1>2, <3>1, <3>2, CostShift
      <3>4. QED
        BY <3>1, <3>3 DEF CostOf
    <2>2. cash' * Scale = cash * Scale - burn
      BY <1>1, <1>3, CurveAssumption DEF burn, TypeOK, TradeOK
    <2>3. cash * Scale \in Nat
      BY <1>3, Product, CurveAssumption DEF TypeOK, TradeOK
    <2>4. QED
      BY <1>2, <1>3, <2>1, <2>2, <2>3
  <1>6. BooksCoverBalance'
    <2>1. /\ Accounted = protocolFees + creatorFees + dust + cash + lpFees
          /\ Accounted' = protocolFees' + creatorFees + dust' + cash' + lpFees'
          /\ Accounted \in Nat
      BY <1>1, <1>3, <1>4, TradingBooks
         DEF IInv, Dormant, Trading, genesisVars, budgetVars, failedVars, feeVars,
             TypeOK, GenesisOK, TradeOK
    <2>2. Accounted' = Accounted - a
      BY <1>1, <1>3, <1>4, <2>1 DEF TypeOK, GenesisOK, TradeOK, feeVars
    <2>3. QED
      BY <1>1, <1>3, <2>1, <2>2 DEF BooksCoverBalance, TypeOK, TimeOK
  <1>7. QED
    BY <1>1, <1>3, <1>4, <1>5, <1>6, TradingStep
       DEF TypeOK, TimeOK, GenesisOK, LPOK, TradeOK, ResultOK, genesisVars, feeVars,
           lpVars, coreVars

\* Closing trading changes nothing but the phase.
LEMMA CloseFormalStep ==
    ASSUME IInv, CloseFormal
    PROVE  IInv'
  <1>1. /\ Trading /\ phase' = "WAIT_CORE"
        /\ UNCHANGED <<now, balance, genesisVars, feeVars, depthVars, lpVars,
                       tradeVars, outcomeVars, resultVars, budgetVars, failedVars,
                       coreVars>>
    BY DEF CloseFormal, Trading
  <1>2. /\ TypeOK
        /\ cash' * Scale + Cost(0, 0, bWad) >= bWad + CostOf(supply')
    BY <1>1, TradingFacts DEF tradeVars, outcomeVars
  <1>3. BooksCoverBalance'
    BY <1>1 DEF IInv, BooksCoverBalance, Accounted, genesisVars, feeVars, tradeVars,
               budgetVars, failedVars
  <1>4. QED
    BY <1>1, <1>2, <1>3, TradingStep
       DEF TypeOK, TimeOK, GenesisOK, LPOK, TradeOK, ResultOK, genesisVars, feeVars,
           lpVars, tradeVars, outcomeVars, coreVars

\* The owners of LP rights, the core's answers, the clock and gifts concern no
\* conjunct of the invariant but types and the balance.
LEMMA QuietStep ==
    ASSUME IInv, now' \in 0..CoreEnd, balance' \in Nat, balance' >= balance,
           GiftAmounts = {} => balance' = balance,
           UNCHANGED <<phase, R, S, feeVars, depthVars, liquiditySupply, tradeVars,
                       outcomeVars, resultVars, budgetVars, failedVars>>,
           shares' \in [Users -> Nat], unmaterializedLP' \in Nat,
           lpBalance' \in [Users -> Nat],
           coreResult' \in Result \cup {"PENDING"}, coreDue' \in BOOLEAN,
           phase = "GENESIS" => ~coreDue'
    PROVE  IInv'
  <1> USE DEF IInv, feeVars, depthVars, tradeVars, outcomeVars, resultVars, budgetVars,
              failedVars
  <1>1. TypeOK'
    BY DEF TypeOK, TimeOK, GenesisOK, LPOK, TradeOK, ResultOK
  <1>2. Dormant'
    BY DEF Dormant, Trading
  <1>3. CurveBacked' /\ GraduationIsPrompt' /\ SettledBacked' /\ BudgetsKeepTheirShare'
    BY DEF CurveBacked, GraduationIsPrompt, SettledBacked, BudgetsKeepTheirShare
  <1>4. CashCoversCost'
    BY DEF CashCoversCost, CostOf, bWad
  <1>5. BooksCoverBalance'
    <2>1. Accounted' = Accounted
      BY DEF Accounted
    <2>2. Accounted \in Nat
      BY DEF Accounted, TypeOK, GenesisOK, TradeOK, ResultOK
    <2>3. QED
      BY <2>1, <2>2 DEF BooksCoverBalance, TypeOK, TimeOK
  <1>6. QED
    BY <1>1, <1>2, <1>3, <1>4, <1>5

LEMMA LPOwnersStep ==
    ASSUME IInv,
           \/ \E u \in Users : MaterializeLP(u)
           \/ \E u, v \in Users, a \in LPAmounts : TransferLP(u, v, a)
    PROVE  IInv'
  <1>1. TypeOK /\ (phase = "GENESIS" => ~coreDue)
    BY DEF IInv, Dormant
  <1>2. ASSUME NEW u \in Users, MaterializeLP(u) PROVE IInv'
    <2>1. /\ shares' = [shares EXCEPT ![u] = 0]
          /\ unmaterializedLP' = unmaterializedLP - shares[u]
          /\ shares[u] <= unmaterializedLP
          /\ lpBalance' = [lpBalance EXCEPT ![u] = @ + shares[u]]
          /\ UNCHANGED <<now, phase, balance, R, S, feeVars, depthVars,
                         liquiditySupply, tradeVars, outcomeVars, resultVars,
                         budgetVars, failedVars, coreVars>>
      BY <1>2 DEF MaterializeLP, EmptyEscrow
    <2>2. /\ shares' \in [Users -> Nat] /\ unmaterializedLP' \in Nat
          /\ lpBalance' \in [Users -> Nat]
      BY <1>1, <2>1 DEF TypeOK, GenesisOK, LPOK
    <2>3. QED
      BY <1>1, <2>1, <2>2, QuietStep DEF TypeOK, TimeOK, ResultOK, coreVars
  <1>3. ASSUME NEW u \in Users, NEW v \in Users, NEW a \in LPAmounts, TransferLP(u, v, a)
        PROVE  IInv'
    <2>1. /\ a \in Nat /\ u # v /\ a <= lpBalance[u]
          /\ lpBalance' = [lpBalance EXCEPT ![u] = @ - a, ![v] = @ + a]
          /\ UNCHANGED <<now, phase, balance, genesisVars, feeVars, depthVars,
                         liquiditySupply, unmaterializedLP, tradeVars, outcomeVars,
                         resultVars, budgetVars, failedVars, coreVars>>
      BY <1>3, AmountsAssumption DEF TransferLP
    <2>2. lpBalance' \in [Users -> Nat]
      BY <1>1, <2>1 DEF TypeOK, LPOK
    <2>3. QED
      BY <1>1, <2>1, <2>2, QuietStep
         DEF TypeOK, TimeOK, GenesisOK, LPOK, ResultOK, genesisVars, coreVars
  <1>4. QED
    BY <1>2, <1>3

LEMMA WorldStep ==
    ASSUME IInv, Core \/ Tick \/ \E a \in GiftAmounts : Gift(a)
    PROVE  IInv'
  <1> USE DEF TypeOK, TimeOK, GenesisOK, LPOK, ResultOK, genesisVars, lpVars, coreVars
  <1>1. TypeOK /\ (phase = "GENESIS" => ~coreDue)
    BY DEF IInv, Dormant
  <1>2. CASE CoreFallsDue \/ CoreRefuses
    <2>1. coreDue' \in BOOLEAN /\ coreResult' = coreResult
      BY <1>2 DEF CoreFallsDue, CoreRefuses
    <2>2. now' = now /\ balance' = balance /\ (phase = "GENESIS" => ~coreDue')
      BY <1>2 DEF CoreFallsDue, CoreRefuses, IsFormalMarket
    <2>3. QED
      BY <1>1, <1>2, <2>1, <2>2, QuietStep DEF CoreFallsDue, CoreRefuses
  <1>3. ASSUME NEW r \in Result, CoreResolves(r) PROVE IInv'
    <2>1. coreDue' \in BOOLEAN /\ coreResult' \in Result \cup {"PENDING"}
      BY <1>3 DEF CoreResolves
    <2>2. now' = now /\ balance' = balance /\ ~coreDue'
      BY <1>3 DEF CoreResolves
    <2>3. QED
      BY <1>1, <1>3, <2>1, <2>2, QuietStep DEF CoreResolves
  <1>4. CASE Tick
    <2>1. now' \in 0..CoreEnd
      BY <1>1, <1>4, TimeAssumption DEF Tick
    <2>2. QED
      BY <1>1, <1>4, <2>1, QuietStep DEF Tick
  <1>5. ASSUME NEW a \in GiftAmounts, Gift(a) PROVE IInv'
    <2>1. balance' \in Nat /\ balance' >= balance /\ GiftAmounts # {}
      BY <1>1, <1>5, AmountsAssumption DEF Gift
    <2>2. QED
      BY <1>1, <1>5, <2>1, QuietStep DEF Gift
  <1>6. QED
    BY <1>2, <1>3, <1>4, <1>5 DEF Core
------------------------------------------------------------------------------
\* Whatever the recipients accept leaves the balance and their debts together.
LEMMA Flush ==
    ASSUME balance \in Nat, NEW cd \in Nat, NEW pd \in Nat,
           NEW c \in BOOLEAN, NEW p \in BOOLEAN, FlushFees(cd, pd, c, p)
    PROVE  \E cc, pp, bb \in Nat :
             /\ creatorFees' = cc /\ protocolFees' = pp /\ balance' = bb
             /\ bb + cd + pd = balance + cc + pp
  <1> USE DEF FlushFees
  <1>1. CASE c = TRUE /\ p = TRUE
    <2>1. creatorFees' = 0 /\ protocolFees' = 0 /\ balance' = balance - (cd + pd)
          /\ cd + pd <= balance
      BY <1>1
    <2>2. QED
      BY <2>1
  <1>2. CASE c = TRUE /\ p = FALSE
    <2>1. creatorFees' = 0 /\ protocolFees' = pd /\ balance' = balance - cd
          /\ cd <= balance
      BY <1>2
    <2>2. QED
      BY <2>1
  <1>3. CASE c = FALSE /\ p = TRUE
    <2>1. creatorFees' = cd /\ protocolFees' = 0 /\ balance' = balance - pd
          /\ pd <= balance
      BY <1>3
    <2>2. QED
      BY <2>1
  <1>4. CASE c = FALSE /\ p = FALSE
    <2>1. creatorFees' = cd /\ protocolFees' = pd /\ balance' = balance
      BY <1>4
    <2>2. QED
      BY <2>1
  <1>5. QED
    BY <1>1, <1>2, <1>3, <1>4

LEMMA AccountedType == ASSUME TypeOK PROVE Accounted \in Nat
  BY DEF Accounted, TypeOK, GenesisOK, TradeOK, ResultOK

LEMMA CloseGenesisStep ==
    ASSUME IInv, NEW c \in BOOLEAN, NEW p \in BOOLEAN, CloseGenesis(c, p)
    PROVE  IInv'
  <1> USE DEF depthVars, lpVars, tradeVars, outcomeVars, resultVars, budgetVars, coreVars
  <1>1. /\ phase = "GENESIS" /\ phase' = "FAILED" /\ R' = 0
        /\ failedRInitial' = R /\ failedRRemaining' = R /\ failedSupply' = S
        /\ FlushFees(creatorFees, protocolFees, c, p)
        /\ UNCHANGED <<now, S, shares, dust, depthVars, lpVars, tradeVars,
                       outcomeVars, resultVars, budgetVars, coreVars>>
    BY DEF CloseGenesis, GenesisExpired
  <1>2. TypeOK /\ Dormant /\ BooksCoverBalance
    BY DEF IInv
  <1>3. PICK cc, pp, bb \in Nat :
          /\ creatorFees' = cc /\ protocolFees' = pp /\ balance' = bb
          /\ bb + creatorFees + protocolFees = balance + cc + pp
    BY <1>1, <1>2, Flush DEF TypeOK, TimeOK, GenesisOK
  <1>4. TypeOK'
    BY <1>1, <1>2, <1>3 DEF TypeOK, TimeOK, Phase, GenesisOK, LPOK, TradeOK, ResultOK
  <1>5. Dormant'
    BY <1>1, <1>2 DEF Dormant, Trading
  <1>6. BudgetsKeepTheirShare'
    BY <1>1, <1>2 DEF BudgetsKeepTheirShare, TypeOK, GenesisOK
  <1>7. BooksCoverBalance'
    <2>1. /\ cash = 0 /\ lpFees = 0 /\ collateralCash = 0 /\ lpBudgetRemaining = 0
          /\ failedRRemaining = 0
      BY <1>1, <1>2 DEF Dormant, Trading
    <2>2. Accounted' = pp + cc + dust + R
      BY <1>1, <1>2, <1>3, <2>1 DEF Accounted, TypeOK, GenesisOK
    <2>3. Accounted = protocolFees + creatorFees + dust + R
      BY <1>2, <2>1 DEF Accounted, TypeOK, GenesisOK
    <2>4. QED
      BY <1>2, <1>3, <2>2, <2>3 DEF BooksCoverBalance, TypeOK, TimeOK, GenesisOK
  <1>8. CurveBacked' /\ GraduationIsPrompt' /\ CashCoversCost' /\ SettledBacked'
    BY <1>1 DEF CurveBacked, GraduationIsPrompt, CashCoversCost, SettledBacked
  <1>9. QED
    BY <1>4, <1>5, <1>6, <1>7, <1>8 DEF IInv

\* Holdings have a natural value under every result, and burning some of them
\* takes no more than their value from it.
LEMMA ValueSplit ==
    ASSUME NEW y \in Nat, NEW n \in Nat, NEW v \in Nat, NEW w \in Nat,
           v <= y, w <= n, NEW r \in Result
    PROVE  /\ Value(y, n, r) \in Nat /\ Value(v, w, r) \in Nat
           /\ Value(v, w, r) <= Value(y, n, r)
           /\ Value(y - v, n - w, r) <= Value(y, n, r) - Value(v, w, r)
  <1>1. /\ Scale \in Nat /\ Scale > 0 /\ 2 * Scale \in Nat /\ 2 * Scale > 0
        /\ y + n \in Nat /\ v + w \in Nat /\ v + w <= y + n
        /\ (y - v) + (n - w) = (y + n) - (v + w)
    BY CurveAssumption
  <1>2. CASE r = "YES"
    <2>1. y \div Scale \in Nat /\ v \div Scale \in Nat
      BY <1>1, Division
    <2>2. QED
      BY <1>1, <1>2, <2>1, FloorSplit DEF Value
  <1>3. CASE r = "NO"
    <2>1. n \div Scale \in Nat /\ w \div Scale \in Nat
      BY <1>1, Division
    <2>2. QED
      BY <1>1, <1>3, <2>1, FloorSplit DEF Value
  <1>4. CASE r = "INVALID"
    <2>1. (y + n) \div (2 * Scale) \in Nat /\ (v + w) \div (2 * Scale) \in Nat
      BY <1>1, Division
    <2>2. (y + n - (v + w)) \div (2 * Scale)
            <= (y + n) \div (2 * Scale) - (v + w) \div (2 * Scale)
          /\ (v + w) \div (2 * Scale) <= (y + n) \div (2 * Scale)
      BY <1>1, FloorSplit
    <2>3. QED
      BY <1>1, <1>4, <2>1, <2>2 DEF Value
  <1>5. QED
    BY <1>2, <1>3, <1>4 DEF Result

LEMMA FinalizeStep ==
    ASSUME IInv, NEW c \in BOOLEAN, NEW p \in BOOLEAN, Finalize(c, p)
    PROVE  IInv'
  <1> USE DEF genesisVars, depthVars, lpVars, outcomeVars, failedVars, coreVars
  <1> DEFINE due == Liability
  <1>1. /\ Trading /\ coreResult \in Result /\ due <= cash
        /\ outcome' = coreResult /\ phase' = "SETTLED" /\ collateralCash' = due
        /\ lpBudgetInitial' = cash + lpFees - due
        /\ lpBudgetRemaining' = cash + lpFees - due
        /\ lpSnapshot' = graduationSupply
        /\ cash' = 0 /\ lpFees' = 0
        /\ FlushFees(creatorFees, protocolFees, c, p)
        /\ UNCHANGED <<now, genesisVars, dust, depthVars, lpVars, coreFeesSent,
                       outcomeVars, failedVars, coreVars>>
    BY DEF Finalize, Trading, LPBudget, SnapshotSupply
  <1>2. TypeOK /\ Dormant /\ BooksCoverBalance
    BY DEF IInv
  <1>3. due \in Nat
    BY <1>1, <1>2, ValueSplit DEF Liability, TypeOK, TradeOK, Side
  <1>4. Value(supply'["YES"], supply'["NO"], outcome') = due
    BY <1>1 DEF Liability
  <1> HIDE DEF due
  <1>5. PICK cc, pp, bb \in Nat :
          /\ creatorFees' = cc /\ protocolFees' = pp /\ balance' = bb
          /\ bb + creatorFees + protocolFees = balance + cc + pp
    BY <1>1, <1>2, Flush DEF TypeOK, TimeOK, GenesisOK
  <1>6. lpBudgetInitial' \in Nat /\ lpBudgetRemaining' = lpBudgetInitial'
    BY <1>1, <1>2, <1>3 DEF TypeOK, TradeOK
  <1>7. TypeOK'
    BY <1>1, <1>2, <1>3, <1>5, <1>6
       DEF TypeOK, TimeOK, Phase, GenesisOK, LPOK, TradeOK, ResultOK
  <1>8. /\ Dormant' /\ CurveBacked' /\ GraduationIsPrompt' /\ CashCoversCost'
    BY <1>1, <1>2 DEF Dormant, Trading, CurveBacked, GraduationIsPrompt, CashCoversCost
  <1>9. SettledBacked'
    BY <1>1, <1>3, <1>4 DEF SettledBacked
  <1>10. BudgetsKeepTheirShare'
    <2>1. liquiditySupply' = lpSnapshot' /\ liquiditySupply' \in Nat
      BY <1>1, <1>2, <1>7 DEF Dormant, TypeOK, LPOK
    <2>2. QED
      BY <1>1, <1>6, <2>1 DEF BudgetsKeepTheirShare
  <1>11. BooksCoverBalance'
    <2>1. R = 0 /\ collateralCash = 0 /\ lpBudgetRemaining = 0 /\ failedRRemaining = 0
      BY <1>1, <1>2 DEF Dormant, Trading
    <2>2. Accounted' = pp + cc + dust + cash + lpFees
      BY <1>1, <1>2, <1>3, <1>5, <2>1 DEF Accounted, TypeOK, GenesisOK, TradeOK
    <2>3. Accounted = protocolFees + creatorFees + dust + cash + lpFees
      BY <1>2, <2>1 DEF Accounted, TypeOK, GenesisOK, TradeOK
    <2>4. QED
      BY <1>2, <1>5, <2>2, <2>3
         DEF BooksCoverBalance, TypeOK, TimeOK, GenesisOK, TradeOK
  <1>12. QED
    BY <1>7, <1>8, <1>9, <1>10, <1>11 DEF IInv
------------------------------------------------------------------------------
\* Paying a part of a budget in proportion, rounded down, leaves the rest its part.
LEMMA ProRata ==
    ASSUME NEW budget \in Nat, NEW out \in Nat, NEW rest \in Nat, NEW whole \in Nat,
           whole > 0, NEW a \in Nat, a <= out, budget * out <= rest * whole
    PROVE  /\ (budget * a) \div whole \in Nat /\ (budget * a) \div whole <= rest
           /\ budget * (out - a) <= (rest - (budget * a) \div whole) * whole
  <1> DEFINE pay == (budget * a) \div whole
  <1>1. budget * a \in Nat /\ pay \in Nat /\ pay * whole <= budget * a
    BY Product, Division
  <1> HIDE DEF pay
  <1>2. budget * (out - a) = budget * out - budget * a
    OBVIOUS
  <1>3. (rest - pay) * whole = rest * whole - pay * whole
    BY <1>1
  <1>4. budget * out \in Nat /\ rest * whole \in Nat /\ pay * whole \in Nat
    BY <1>1, Product
  <1>5. budget * (out - a) <= (rest - pay) * whole
    BY <1>1, <1>2, <1>3, <1>4
  <1>6. pay <= rest
    <2> SUFFICES ASSUME pay > rest PROVE FALSE
      BY <1>1
    <2>1. out - a \in Nat /\ budget * (out - a) \in Nat
      BY Product
    <2>2. (rest - pay) * whole < 0
      BY <1>1
    <2>3. QED
      BY <1>5, <2>1, <2>2, <1>3, <1>4
  <1>7. QED
    BY <1>1, <1>5, <1>6 DEF pay

\* A claim against a settled market that pays op for outcomes and lp for LP rights.
LEMMA SettledStep ==
    ASSUME IInv, phase = "SETTLED",
           UNCHANGED <<now, phase, R, S, feeVars, depthVars, tradeVars, resultVars,
                       failedVars, coreVars>>,
           NEW op \in Nat, NEW lp \in Nat,
           op + lp <= balance, balance' = balance - (op + lp),
           op <= collateralCash, collateralCash' = collateralCash - op,
           lp <= lpBudgetRemaining, lpBudgetRemaining' = lpBudgetRemaining - lp,
           tokens' \in [Users -> [Side -> Nat]], supply' \in [Side -> Nat],
           shares' \in [Users -> Nat], lpBalance' \in [Users -> Nat],
           unmaterializedLP' \in Nat, liquiditySupply' \in Nat,
           Value(supply'["YES"], supply'["NO"], outcome) <= collateralCash',
           lpBudgetInitial * liquiditySupply' <= lpBudgetRemaining' * lpSnapshot
    PROVE  IInv'
  <1> USE DEF feeVars, depthVars, tradeVars, resultVars, failedVars, coreVars
  <1>1. TypeOK /\ Dormant /\ BooksCoverBalance
    BY DEF IInv
  <1>2. balance' \in Nat /\ collateralCash' \in Nat /\ lpBudgetRemaining' \in Nat
    BY <1>1 DEF TypeOK, TimeOK, ResultOK
  <1>3. TypeOK'
    BY <1>1, <1>2 DEF TypeOK, TimeOK, GenesisOK, LPOK, TradeOK, ResultOK
  <1>4. Dormant'
    BY <1>1 DEF Dormant, Trading
  <1>5. SettledBacked' /\ BudgetsKeepTheirShare'
    BY DEF SettledBacked, BudgetsKeepTheirShare
  <1>6. CurveBacked' /\ GraduationIsPrompt' /\ CashCoversCost'
    BY DEF CurveBacked, GraduationIsPrompt, CashCoversCost
  <1>7. BooksCoverBalance'
    <2>1. Accounted' = Accounted - (op + lp)
      BY <1>1 DEF Accounted, TypeOK, GenesisOK, TradeOK, ResultOK
    <2>2. Accounted \in Nat
      BY <1>1, AccountedType
    <2>3. QED
      BY <1>1, <2>1, <2>2 DEF BooksCoverBalance, TypeOK, TimeOK
  <1>8. QED
    BY <1>3, <1>4, <1>5, <1>6, <1>7 DEF IInv

LEMMA PayOutcomeKeepsBacking ==
    ASSUME IInv, phase = "SETTLED", NEW u \in Users, PayOutcome(u)
    PROVE  /\ OutcomePay(u) \in Nat /\ OutcomePay(u) <= collateralCash
           /\ collateralCash' = collateralCash - OutcomePay(u)
           /\ tokens' \in [Users -> [Side -> Nat]] /\ supply' \in [Side -> Nat]
           /\ Value(supply'["YES"], supply'["NO"], outcome) <= collateralCash'
  <1> DEFINE y == supply["YES"]
             n == supply["NO"]
             v == tokens[u]["YES"]
             w == tokens[u]["NO"]
  <1>1. /\ TypeOK /\ outcome \in Result /\ Value(y, n, outcome) <= collateralCash
    BY DEF IInv, Dormant, SettledBacked
  <1>2. /\ v \in Nat /\ w \in Nat /\ y \in Nat /\ n \in Nat /\ v <= y /\ w <= n
        /\ OutcomePay(u) <= collateralCash
        /\ tokens' = [tokens EXCEPT ![u] = [s \in Side |-> 0]]
        /\ supply' = [s \in Side |-> supply[s] - tokens[u][s]]
        /\ collateralCash' = collateralCash - OutcomePay(u)
    BY <1>1 DEF PayOutcome, OutcomePayable, TypeOK, TradeOK, Side
  <1>3. supply'["YES"] = y - v /\ supply'["NO"] = n - w
    BY <1>2 DEF Side
  <1>4. supply' \in [Side -> Nat] /\ tokens' \in [Users -> [Side -> Nat]]
    BY <1>1, <1>2 DEF PayOutcome, OutcomePayable, TypeOK, TradeOK
  <1>5. OutcomePay(u) = Value(v, w, outcome)
    BY DEF OutcomePay
  <1> HIDE DEF y, n, v, w
  <1>6. /\ Value(v, w, outcome) \in Nat /\ Value(y, n, outcome) \in Nat
        /\ Value(y - v, n - w, outcome) <= Value(y, n, outcome) - Value(v, w, outcome)
    BY <1>1, <1>2, ValueSplit
  <1>7. y - v \in Nat /\ n - w \in Nat
    BY <1>2
  <1>8. Value(y - v, n - w, outcome) \in Nat
    BY <1>1, <1>7, ValueSplit
  <1>9. QED
    BY <1>1, <1>2, <1>3, <1>4, <1>5, <1>6, <1>8 DEF TypeOK, ResultOK

LEMMA PayLPKeepsShares ==
    ASSUME IInv, phase = "SETTLED", NEW u \in Users, NEW a \in Nat, PayLP(u, a)
    PROVE  /\ LPPay(a) \in Nat /\ LPPay(a) <= lpBudgetRemaining
           /\ lpBudgetRemaining' = lpBudgetRemaining - LPPay(a)
           /\ shares' \in [Users -> Nat] /\ lpBalance' \in [Users -> Nat]
           /\ unmaterializedLP' \in Nat /\ liquiditySupply' \in Nat
           /\ lpBudgetInitial * liquiditySupply' <= lpBudgetRemaining' * lpSnapshot
  <1>1. TypeOK /\ lpBudgetInitial * liquiditySupply <= lpBudgetRemaining * lpSnapshot
    BY DEF IInv, BudgetsKeepTheirShare
  <1>2. /\ a <= LPRights(u) /\ lpSnapshot > 0
        /\ shares[u] <= unmaterializedLP /\ a <= liquiditySupply
        /\ shares' = [shares EXCEPT ![u] = 0]
        /\ unmaterializedLP' = unmaterializedLP - shares[u]
        /\ lpBalance' = [lpBalance EXCEPT ![u] = LPRights(u) - a]
        /\ liquiditySupply' = liquiditySupply - a
        /\ lpBudgetRemaining' = lpBudgetRemaining - LPPay(a)
    BY DEF PayLP, LPPayable
  <1>3. LPRights(u) \in Nat /\ shares[u] \in Nat
    BY <1>1 DEF LPRights, TypeOK, GenesisOK, LPOK
  <1>4. /\ shares' \in [Users -> Nat] /\ lpBalance' \in [Users -> Nat]
        /\ unmaterializedLP' \in Nat /\ liquiditySupply' \in Nat
    BY <1>1, <1>2, <1>3 DEF TypeOK, GenesisOK, LPOK
  <1>5. /\ LPPay(a) \in Nat /\ LPPay(a) <= lpBudgetRemaining
        /\ lpBudgetInitial * (liquiditySupply - a)
             <= (lpBudgetRemaining - LPPay(a)) * lpSnapshot
    BY <1>1, <1>2, ProRata DEF LPPay, TypeOK, LPOK, ResultOK
  <1>6. QED
    BY <1>2, <1>4, <1>5

LEMMA ClaimOutcomeStep ==
    ASSUME IInv, NEW u \in Users, ClaimOutcome(u)
    PROVE  IInv'
  <1>1. phase = "SETTLED" /\ TypeOK /\ PayOutcome(u) /\ OutcomePay(u) <= balance
        /\ balance' = balance - OutcomePay(u)
    BY DEF ClaimOutcome, IInv
  <1>2. /\ OutcomePay(u) \in Nat /\ OutcomePay(u) <= collateralCash
        /\ collateralCash' = collateralCash - OutcomePay(u)
        /\ tokens' \in [Users -> [Side -> Nat]] /\ supply' \in [Side -> Nat]
        /\ Value(supply'["YES"], supply'["NO"], outcome) <= collateralCash'
    BY <1>1, PayOutcomeKeepsBacking
  <1>3. /\ OutcomePay(u) + 0 <= balance /\ balance' = balance - (OutcomePay(u) + 0)
    BY <1>1, <1>2 DEF TypeOK, TimeOK
  <1>4. /\ UNCHANGED <<now, phase, R, S, feeVars, depthVars, tradeVars, resultVars,
                       failedVars, coreVars, shares, lpVars, lpBudgetRemaining>>
    BY DEF ClaimOutcome, genesisVars
  <1>5. lpBudgetRemaining' = lpBudgetRemaining - 0 /\ 0 <= lpBudgetRemaining
    BY <1>1, <1>4 DEF TypeOK, ResultOK
  <1>6. /\ shares' \in [Users -> Nat] /\ lpBalance' \in [Users -> Nat]
        /\ unmaterializedLP' \in Nat /\ liquiditySupply' \in Nat
        /\ lpBudgetInitial * liquiditySupply' <= lpBudgetRemaining' * lpSnapshot
    BY <1>1, <1>4 DEF lpVars, TypeOK, GenesisOK, LPOK, IInv, BudgetsKeepTheirShare
  <1>7. QED
    BY <1>1, <1>2, <1>3, <1>4, <1>5, <1>6, SettledStep

LEMMA ClaimLPStep ==
    ASSUME IInv, NEW u \in Users, NEW a \in Nat, ClaimLP(u, a)
    PROVE  IInv'
  <1>1. phase = "SETTLED" /\ TypeOK /\ PayLP(u, a) /\ LPPay(a) <= balance
        /\ balance' = balance - LPPay(a)
    BY DEF ClaimLP, IInv
  <1>2. /\ LPPay(a) \in Nat /\ LPPay(a) <= lpBudgetRemaining
        /\ lpBudgetRemaining' = lpBudgetRemaining - LPPay(a)
        /\ shares' \in [Users -> Nat] /\ lpBalance' \in [Users -> Nat]
        /\ unmaterializedLP' \in Nat /\ liquiditySupply' \in Nat
        /\ lpBudgetInitial * liquiditySupply' <= lpBudgetRemaining' * lpSnapshot
    BY <1>1, PayLPKeepsShares
  <1>3. /\ 0 + LPPay(a) <= balance /\ balance' = balance - (0 + LPPay(a))
    BY <1>1, <1>2 DEF TypeOK, TimeOK
  <1>4. /\ UNCHANGED <<now, phase, R, S, feeVars, depthVars, tradeVars, resultVars,
                       failedVars, coreVars, outcomeVars, collateralCash>>
    BY DEF ClaimLP
  <1>5. collateralCash' = collateralCash - 0 /\ 0 <= collateralCash
    BY <1>1, <1>4 DEF TypeOK, ResultOK
  <1>6. /\ tokens' \in [Users -> [Side -> Nat]] /\ supply' \in [Side -> Nat]
        /\ Value(supply'["YES"], supply'["NO"], outcome) <= collateralCash'
    BY <1>1, <1>4 DEF outcomeVars, TypeOK, TradeOK, IInv, SettledBacked
  <1>7. QED
    BY <1>1, <1>2, <1>3, <1>4, <1>5, <1>6, SettledStep

LEMMA ClaimAllSettledStep ==
    ASSUME IInv, NEW u \in Users, ClaimAllSettled(u)
    PROVE  IInv'
  <1> DEFINE lp == IF LPRights(u) > 0 THEN LPPay(LPRights(u)) ELSE 0
             op == IF HoldsOutcome(u) THEN OutcomePay(u) ELSE 0
  <1>1. /\ phase = "SETTLED" /\ TypeOK
        /\ UNCHANGED <<now, phase, R, S, feeVars, depthVars, tradeVars, resultVars,
                       failedVars, coreVars>>
    BY DEF ClaimAllSettled, IInv
  <1>2. LPRights(u) \in Nat
    BY <1>1 DEF LPRights, TypeOK, GenesisOK, LPOK
  <1>3. /\ lp \in Nat /\ lp <= lpBudgetRemaining
        /\ lpBudgetRemaining' = lpBudgetRemaining - lp
        /\ shares' \in [Users -> Nat] /\ lpBalance' \in [Users -> Nat]
        /\ unmaterializedLP' \in Nat /\ liquiditySupply' \in Nat
        /\ lpBudgetInitial * liquiditySupply' <= lpBudgetRemaining' * lpSnapshot
    <2>1. CASE LPRights(u) > 0
      <3>1. PayLP(u, LPRights(u)) /\ lp = LPPay(LPRights(u))
        BY <2>1 DEF ClaimAllSettled
      <3>2. QED
        BY <1>1, <1>2, <3>1, PayLPKeepsShares
    <2>2. CASE ~(LPRights(u) > 0)
      <3>1. UNCHANGED <<shares, lpVars, lpBudgetRemaining>> /\ lp = 0
        BY <2>2 DEF ClaimAllSettled
      <3>2. QED
        BY <1>1, <3>1
           DEF lpVars, TypeOK, GenesisOK, LPOK, ResultOK, IInv, BudgetsKeepTheirShare
    <2>3. QED
      BY <2>1, <2>2
  <1>4. /\ op \in Nat /\ op <= collateralCash /\ collateralCash' = collateralCash - op
        /\ tokens' \in [Users -> [Side -> Nat]] /\ supply' \in [Side -> Nat]
        /\ Value(supply'["YES"], supply'["NO"], outcome) <= collateralCash'
    <2>1. CASE HoldsOutcome(u)
      <3>1. PayOutcome(u) /\ op = OutcomePay(u)
        BY <2>1 DEF ClaimAllSettled
      <3>2. QED
        BY <1>1, <3>1, PayOutcomeKeepsBacking
    <2>2. CASE ~HoldsOutcome(u)
      <3>1. UNCHANGED <<outcomeVars, collateralCash>> /\ op = 0
        BY <2>2 DEF ClaimAllSettled
      <3>2. QED
        BY <1>1, <3>1 DEF outcomeVars, TypeOK, TradeOK, ResultOK, IInv, SettledBacked
    <2>3. QED
      BY <2>1, <2>2
  <1>5. lp + op <= balance /\ balance' = balance - (lp + op)
    BY DEF ClaimAllSettled, SettledPay
  <1> HIDE DEF lp, op
  <1>6. op + lp <= balance /\ balance' = balance - (op + lp)
    BY <1>1, <1>3, <1>4, <1>5 DEF TypeOK, TimeOK
  <1>7. QED
    BY <1>1, <1>3, <1>4, <1>6, SettledStep

LEMMA ClaimFailedStep ==
    ASSUME IInv, NEW u \in Users, ClaimFailed(u)
    PROVE  IInv'
  <1> DEFINE pay == FailedPay(u)
  <1> USE DEF feeVars, depthVars, lpVars, tradeVars, outcomeVars, resultVars, budgetVars,
              coreVars
  <1>1. /\ phase = "FAILED" /\ shares[u] > 0 /\ failedSupply > 0 /\ shares[u] <= S
        /\ pay <= balance
        /\ shares' = [shares EXCEPT ![u] = 0] /\ S' = S - shares[u]
        /\ failedRRemaining' = failedRRemaining - pay /\ balance' = balance - pay
        /\ UNCHANGED <<now, phase, R, feeVars, depthVars, lpVars, tradeVars,
                       outcomeVars, resultVars, budgetVars, failedRInitial,
                       failedSupply, coreVars>>
    BY DEF ClaimFailed, FailedPayable
  <1>2. /\ TypeOK /\ Dormant /\ BooksCoverBalance
        /\ failedRInitial * S <= failedRRemaining * failedSupply
    BY <1>1 DEF IInv, BudgetsKeepTheirShare
  <1>3. shares[u] \in Nat
    BY <1>2 DEF TypeOK, GenesisOK
  <1>4. /\ pay \in Nat /\ pay <= failedRRemaining
        /\ failedRInitial * (S - shares[u]) <= (failedRRemaining - pay) * failedSupply
    BY <1>1, <1>2, <1>3, ProRata DEF FailedPay, TypeOK, GenesisOK, ResultOK
  <1> HIDE DEF pay
  <1>5. /\ S' \in Nat /\ shares' \in [Users -> Nat] /\ failedRRemaining' \in Nat
        /\ balance' \in Nat
    BY <1>1, <1>2, <1>3, <1>4 DEF TypeOK, TimeOK, GenesisOK, ResultOK
  <1>6. TypeOK'
    BY <1>1, <1>2, <1>5 DEF TypeOK, TimeOK, GenesisOK, LPOK, TradeOK, ResultOK
  <1>7. Dormant' /\ CurveBacked' /\ GraduationIsPrompt' /\ CashCoversCost' /\ SettledBacked'
    BY <1>1, <1>2
       DEF Dormant, Trading, CurveBacked, GraduationIsPrompt, CashCoversCost, SettledBacked
  <1>8. BudgetsKeepTheirShare'
    BY <1>1, <1>4 DEF BudgetsKeepTheirShare
  <1>9. BooksCoverBalance'
    <2>1. Accounted' = Accounted - pay /\ Accounted \in Nat
      BY <1>1, <1>2, <1>4 DEF Accounted, TypeOK, GenesisOK, TradeOK, ResultOK
    <2>2. QED
      BY <1>1, <1>2, <1>4, <2>1 DEF BooksCoverBalance, TypeOK, TimeOK
  <1>10. QED
    BY <1>6, <1>7, <1>8, <1>9 DEF IInv

LEMMA ClaimFeesStep ==
    ASSUME IInv, NEW c \in BOOLEAN, NEW p \in BOOLEAN, ClaimFees(c, p)
    PROVE  IInv'
  <1> USE DEF genesisVars, depthVars, lpVars, tradeVars, outcomeVars, resultVars,
              budgetVars, failedVars, coreVars
  <1>1. /\ FlushFees(creatorFees, protocolFees, c, p)
        /\ UNCHANGED <<now, phase, genesisVars, dust, depthVars, lpVars, tradeVars,
                       outcomeVars, resultVars, budgetVars, failedVars, coreVars>>
    BY DEF ClaimFees
  <1>2. TypeOK /\ Dormant /\ BooksCoverBalance
    BY DEF IInv
  <1>3. PICK cc, pp, bb \in Nat :
          /\ creatorFees' = cc /\ protocolFees' = pp /\ balance' = bb
          /\ bb + creatorFees + protocolFees = balance + cc + pp
    BY <1>1, <1>2, Flush DEF TypeOK, TimeOK, GenesisOK
  <1>4. TypeOK'
    BY <1>1, <1>2, <1>3 DEF TypeOK, TimeOK, GenesisOK, LPOK, TradeOK, ResultOK
  <1>5. Dormant'
    BY <1>1, <1>2 DEF Dormant, Trading
  <1>6. CurveBacked' /\ GraduationIsPrompt' /\ SettledBacked' /\ BudgetsKeepTheirShare'
    BY <1>1 DEF IInv, CurveBacked, GraduationIsPrompt, SettledBacked, BudgetsKeepTheirShare
  <1>7. CashCoversCost'
    BY <1>1 DEF IInv, CashCoversCost, CostOf, bWad
  <1>8. BooksCoverBalance'
    <2>1. Accounted' + creatorFees + protocolFees = Accounted + cc + pp
      BY <1>1, <1>2, <1>3 DEF Accounted, TypeOK, GenesisOK, TradeOK, ResultOK
    <2>2. Accounted \in Nat /\ Accounted' = R + pp + cc + dust + collateralCash + cash + lpFees
                                             + lpBudgetRemaining + failedRRemaining
      BY <1>1, <1>2, <1>3, AccountedType DEF Accounted
    <2>3. Accounted' = Accounted + bb - balance
      BY <1>2, <1>3, <2>1, <2>2 DEF TypeOK, TimeOK, GenesisOK, TradeOK, ResultOK
    <2>4. QED
      BY <1>2, <1>3, <2>2, <2>3 DEF BooksCoverBalance, TypeOK, TimeOK
  <1>9. QED
    BY <1>4, <1>5, <1>6, <1>7, <1>8 DEF IInv

LEMMA CollectDustStep ==
    ASSUME IInv, NEW c \in BOOLEAN, NEW p \in BOOLEAN, CollectDust(c, p)
    PROVE  IInv'
  <1> USE DEF depthVars, lpVars, outcomeVars, resultVars, coreVars
  <1>1. /\ phase \in {"SETTLED", "FAILED"} /\ NoRightsLeft
        /\ creatorFees + protocolFees <= balance
        /\ R' = 0 /\ dust' = 0 /\ collateralCash' = 0 /\ cash' = 0 /\ lpFees' = 0
        /\ lpBudgetRemaining' = 0 /\ failedRRemaining' = 0
        /\ FlushFees(creatorFees, balance - creatorFees, c, p)
        /\ UNCHANGED <<now, phase, S, shares, depthVars, lpVars, coreFeesSent,
                       outcomeVars, resultVars, failedRInitial, failedSupply,
                       coreVars>>
    BY DEF CollectDust
  <1>2. TypeOK /\ Dormant /\ BooksCoverBalance
    BY DEF IInv
  <1>3. PICK cc, pp, bb \in Nat :
          /\ creatorFees' = cc /\ protocolFees' = pp /\ balance' = bb
          /\ bb + creatorFees + (balance - creatorFees) = balance + cc + pp
    <2>1. balance \in Nat /\ creatorFees \in Nat /\ balance - creatorFees \in Nat
      BY <1>1, <1>2 DEF TypeOK, TimeOK, GenesisOK
    <2>2. QED
      BY <1>1, <2>1, Flush
  <1>4. bb = pp + cc
    BY <1>2, <1>3 DEF TypeOK, TimeOK, GenesisOK
  <1>5. TypeOK'
    BY <1>1, <1>2, <1>3 DEF TypeOK, TimeOK, GenesisOK, LPOK, TradeOK, ResultOK
  <1>6. Dormant' /\ CurveBacked' /\ GraduationIsPrompt' /\ CashCoversCost'
    BY <1>1, <1>2 DEF Dormant, Trading, CurveBacked, GraduationIsPrompt, CashCoversCost
  <1>7. SettledBacked'
    <2> SUFFICES ASSUME phase = "SETTLED"
                 PROVE  Value(supply["YES"], supply["NO"], outcome) <= 0
      BY <1>1 DEF SettledBacked
    <2>1. supply["YES"] = 0 /\ supply["NO"] = 0 /\ outcome \in Result
      BY <1>1, <1>2 DEF NoRightsLeft, Side, Dormant
    <2>2. 0 \div Scale = 0 /\ 0 \div (2 * Scale) = 0
      <3>1. Scale \in Nat /\ Scale > 0 /\ 2 * Scale \in Nat /\ 2 * Scale > 0
        BY CurveAssumption
      <3>2. /\ 0 \div Scale \in Nat /\ (0 \div Scale) * Scale <= 0
            /\ 0 \div (2 * Scale) \in Nat /\ (0 \div (2 * Scale)) * (2 * Scale) <= 0
        BY <3>1, Division
      <3>3. QED
        BY <3>1, <3>2
    <2>3. QED
      BY <2>1, <2>2 DEF Value
  <1>8. BudgetsKeepTheirShare'
    BY <1>1, <1>2 DEF BudgetsKeepTheirShare, NoRightsLeft, TypeOK, GenesisOK, LPOK, ResultOK
  <1>9. BooksCoverBalance'
    <2>1. Accounted' = pp + cc
      BY <1>1, <1>3 DEF Accounted
    <2>2. QED
      BY <1>3, <1>4, <2>1 DEF BooksCoverBalance
  <1>10. QED
    BY <1>5, <1>6, <1>7, <1>8, <1>9 DEF IInv
------------------------------------------------------------------------------
LEMMA StepInvariant == IInv /\ [Next]_vars => IInv'
  <1> SUFFICES ASSUME IInv, [Next]_vars PROVE IInv'
    OBVIOUS
  <1>1. ASSUME NEW u \in Users, NEW a \in PaidAmounts, GenesisBuy(u, a) PROVE IInv'
    BY <1>1, GenesisBuyStep
  <1>2. ASSUME NEW u \in Users, NEW q \in ShareAmounts \cup {shares[u]}, GenesisSell(u, q)
        PROVE  IInv'
    <2>1. q \in Nat
      BY AmountsAssumption DEF IInv, TypeOK, GenesisOK
    <2>2. QED
      BY <1>2, <2>1, GenesisSellStep
  <1>3. ASSUME NEW u \in Users, NEW s \in Side, NEW a \in TradeAmounts,
               FormalBuy(u, s, a) \/ FormalSell(u, s, a)
        PROVE  IInv'
    <2>1. a \in Nat
      BY AmountsAssumption
    <2>2. QED
      BY <1>3, <2>1, FormalBuyStep, FormalSellStep
  <1>4. ASSUME NEW u \in Users, NEW a \in PairAmounts, RedeemPairs(u, a) PROVE IInv'
    <2>1. a \in Nat
      BY AmountsAssumption
    <2>2. QED
      BY <1>4, <2>1, RedeemStep
  <1>5. CASE \/ \E u \in Users : MaterializeLP(u)
             \/ \E u, v \in Users, a \in LPAmounts : TransferLP(u, v, a)
    BY <1>5, LPOwnersStep
  <1>6. ASSUME NEW c \in BOOLEAN, NEW p \in BOOLEAN,
               CloseGenesis(c, p) \/ Finalize(c, p) \/ ClaimFees(c, p) \/ CollectDust(c, p)
        PROVE  IInv'
    BY <1>6, CloseGenesisStep, FinalizeStep, ClaimFeesStep, CollectDustStep
  <1>7. CASE CloseFormal
    BY <1>7, CloseFormalStep
  <1>8. ASSUME NEW u \in Users, ClaimOutcome(u) \/ ClaimAll(u) PROVE IInv'
    BY <1>8, ClaimOutcomeStep, ClaimAllSettledStep, ClaimFailedStep DEF ClaimAll
  <1>9. ASSUME NEW u \in Users, NEW a \in LPAmounts \cup {LPRights(u)}, ClaimLP(u, a)
        PROVE  IInv'
    <2>1. a \in Nat
      BY AmountsAssumption DEF IInv, TypeOK, GenesisOK, LPOK, LPRights
    <2>2. QED
      BY <1>9, <2>1, ClaimLPStep
  <1>10. CASE Core \/ Tick \/ \E a \in GiftAmounts : Gift(a)
    BY <1>10, WorldStep
  <1>11. CASE UNCHANGED vars
    BY <1>11 DEF vars, genesisVars, feeVars, depthVars, lpVars, tradeVars, outcomeVars,
                 resultVars, budgetVars, failedVars, coreVars, IInv, TypeOK, TimeOK,
                 GenesisOK, LPOK, TradeOK, ResultOK, Dormant, Trading, CurveBacked,
                 GraduationIsPrompt, CashCoversCost, CostOf, bWad, SettledBacked,
                 BudgetsKeepTheirShare, BooksCoverBalance, Accounted
  <1>12. QED
    BY <1>1, <1>2, <1>3, <1>4, <1>5, <1>6, <1>7, <1>8, <1>9, <1>10, <1>11 DEF Next

LEMMA Invariance == Spec => []IInv
  BY InitInvariant, StepInvariant, PTL DEF Spec
------------------------------------------------------------------------------
\* Every number of the market is a natural number: no subtraction of the contract
\* underflows.
THEOREM TypeCorrect == Spec => []TypeOK
  <1>1. IInv => TypeOK
    BY DEF IInv
  <1>2. QED
    BY <1>1, Invariance, PTL

\* The Genesis reserve always pays for the whole curve below the supply, so the
\* last seller leaves on the terms of the first (_genesisSellQuote).
THEOREM CurveAlwaysBacked == Spec => []CurveBacked
  <1>1. IInv => CurveBacked
    BY DEF IInv
  <1>2. QED
    BY <1>1, Invariance, PTL

\* A Genesis market never holds its target: it graduates in the very buy that
\* reaches it, and in no sell.
THEOREM GraduatesAtTarget == Spec => []GraduationIsPrompt
  <1>1. IInv => GraduationIsPrompt
    BY DEF IInv
  <1>2. QED
    BY <1>1, Invariance, PTL

\* The market maker's cash covers its cost function, with every rounding, guard and
\* fee of buys, sells and redemptions counted.
THEOREM CostAlwaysCovered == Spec => []CashCoversCost
  <1>1. IInv => CashCoversCost
    BY DEF IInv
  <1>2. QED
    BY <1>1, Invariance, PTL

\* _assertOutcomeSolvency: whichever side wins is paid in full, and in a settled
\* market the budget set apart covers the claims still out.
THEOREM OutcomesAlwaysBacked == Spec => []OutcomesBacked
  <1>1. IInv => OutcomesBacked
    <2> SUFFICES ASSUME IInv PROVE OutcomesBacked
      OBVIOUS
    <2>1. ASSUME Trading, NEW s \in Side PROVE supply[s] <= cash * Scale
      <3>1. /\ TypeOK /\ initialCollateral > 0 /\ Cost(0, 0, bWad) \in Nat
            /\ bWad \in Nat /\ CostOf(supply) \in Nat
            /\ cash * Scale + Cost(0, 0, bWad) >= bWad + CostOf(supply)
        BY <2>1, TradingFacts
      <3>2. Cost(0, 0, bWad) <= bWad
        BY <3>1, DepthType, CostStart
      <3>3. supply[s] <= CostOf(supply) /\ supply[s] \in Nat
        BY <3>1, CostOfType DEF TypeOK, TradeOK
      <3>4. cash * Scale \in Nat
        BY <3>1, Product, CurveAssumption DEF TypeOK, TradeOK
      <3>5. QED
        BY <3>1, <3>2, <3>3, <3>4
    <2>2. QED
      BY <2>1 DEF IInv, OutcomesBacked, SettledBacked, Trading
  <1>2. QED
    BY <1>1, Invariance, PTL

\* Claims may come in any order and in any portions: what is left of the LP budget,
\* or of a failed market's refund, is always enough for the rights that are left.
THEOREM BudgetsAlwaysKeepTheirShare == Spec => []BudgetsKeepTheirShare
  <1>1. IInv => BudgetsKeepTheirShare
    BY DEF IInv
  <1>2. QED
    BY <1>1, Invariance, PTL

\* The nine books of the market never promise more than its balance, and without
\* gifts they explain it to the unit.
THEOREM BooksAlwaysCovered == Spec => []BooksCoverBalance
  <1>1. IInv => BooksCoverBalance
    BY DEF IInv
  <1>2. QED
    BY <1>1, Invariance, PTL

\* No trade and no redemption while the vault processes a request or has decided.
THEOREM TradingStops == Spec => TradingStopsWithTheVault
  <1> DEFINE Step == ~TradingAllowed /\ phase' \in {"FORMAL", "WAIT_CORE"} =>
                       UNCHANGED <<cash, lpFees, coreFeesSent, tokens, supply>>
  <1>1. IInv /\ [Next]_vars => [Step]_vars
    <2> SUFFICES ASSUME IInv, Next, ~TradingAllowed, phase' \in {"FORMAL", "WAIT_CORE"}
                 PROVE  UNCHANGED <<cash, lpFees, coreFeesSent, tokens, supply>>
      OBVIOUS
    <2> USE DEF TradingAllowed, tradeVars, outcomeVars
    <2>1. phase = "GENESIS" => coreResult # "PENDING"
      BY DEF IInv, Dormant
    <2>2. ASSUME NEW u \in Users, NEW a \in PaidAmounts, GenesisBuy(u, a) PROVE FALSE
      BY <2>1, <2>2 DEF GenesisBuy, GenesisOpen, Reserve, Graduate
    <2>3. ASSUME NEW u \in Users, NEW q \in ShareAmounts \cup {shares[u]}, GenesisSell(u, q)
          PROVE  FALSE
      BY <2>1, <2>3 DEF GenesisSell, GenesisOpen, Reserve, Graduate
    <2>4. ASSUME NEW u \in Users, NEW s \in Side, NEW a \in TradeAmounts,
                 FormalBuy(u, s, a) \/ FormalSell(u, s, a)
          PROVE  FALSE
      BY <2>4 DEF FormalBuy, FormalSell, FormalOpen
    <2>5. ASSUME NEW u \in Users, NEW a \in PairAmounts, RedeemPairs(u, a) PROVE FALSE
      BY <2>5 DEF RedeemPairs, RedeemOpen
    <2>6. ASSUME NEW c \in BOOLEAN, NEW p \in BOOLEAN,
                 CloseGenesis(c, p) \/ Finalize(c, p) \/ CollectDust(c, p)
          PROVE  FALSE
      BY <2>6 DEF CloseGenesis, Finalize, CollectDust
    <2>7. ASSUME NEW u \in Users, ClaimOutcome(u) \/ ClaimAll(u) PROVE FALSE
      BY <2>7 DEF ClaimOutcome, ClaimAll, ClaimFailed, ClaimAllSettled
    <2>8. ASSUME NEW u \in Users, NEW a \in LPAmounts \cup {LPRights(u)}, ClaimLP(u, a)
          PROVE  FALSE
      BY <2>8 DEF ClaimLP
    <2>9. ASSUME \/ \E u \in Users : MaterializeLP(u)
                 \/ \E u, v \in Users, a \in LPAmounts : TransferLP(u, v, a)
                 \/ \E c, p \in BOOLEAN : ClaimFees(c, p)
                 \/ CloseFormal \/ Core \/ Tick \/ \E a \in GiftAmounts : Gift(a)
          PROVE  UNCHANGED <<cash, lpFees, coreFeesSent, tokens, supply>>
      BY <2>9 DEF MaterializeLP, TransferLP, ClaimFees, CloseFormal, Core, CoreFallsDue,
                  CoreRefuses, CoreResolves, Tick, Gift
    <2>10. QED
      BY <2>2, <2>3, <2>4, <2>5, <2>6, <2>7, <2>8, <2>9 DEF Next
  <1>2. QED
    BY <1>1, Invariance, PTL DEF Spec, TradingStopsWithTheVault
------------------------------------------------------------------------------
(* Exits.  That nobody is refused needs that nobody has more than there is: *)
(* the supplies are the sums of what the users hold.                        *)

InAll(f)    == SumFunctionOnSet(f, Users)
TokensOn(s) == [u \in Users |-> tokens[u][s]]

\* Until the graduation, and without one, shares are all there is; afterwards they are
\* the LP tokens that the market keeps, and every LP token is kept or has an owner.
RightsCounted ==
    /\ ~IsFormalMarket => InAll(shares) = S /\ InAll(lpBalance) = 0
    /\ IsFormalMarket => /\ InAll(shares) = unmaterializedLP
                         /\ unmaterializedLP + InAll(lpBalance) = liquiditySupply
TokensCounted == \A s \in Side : InAll(TokensOn(s)) = supply[s]
\* Claims only take from the supplies that the budgets were divided by.
WithinSnapshots ==
    /\ phase = "SETTLED" => liquiditySupply <= lpSnapshot
    /\ phase = "FAILED" => S <= failedSupply
Counted == RightsCounted /\ TokensCounted /\ WithinSnapshots

LEMMA TermInAll ==
    ASSUME NEW f, \A v \in Users : f[v] \in Nat, NEW u \in Users
    PROVE  InAll(f) \in Nat /\ f[u] <= InAll(f)
  BY SumType, TermAtMostSum, UsersAssumption DEF InAll

\* One user's term changes.
LEMMA InAllUpdate ==
    ASSUME NEW f, NEW g, NEW u \in Users,
           \A v \in Users : f[v] \in Nat /\ g[v] \in Nat,
           \A v \in Users \ {u} : f[v] = g[v]
    PROVE  /\ InAll(f) \in Nat /\ InAll(g) \in Nat
           /\ InAll(g) + f[u] = InAll(f) + g[u]
  BY SumUpdate, SumType, UsersAssumption DEF InAll

LEMMA SetInAll ==
    ASSUME NEW f \in [Users -> Nat], NEW u \in Users, NEW n \in Nat
    PROVE  /\ InAll(f) \in Nat /\ InAll([f EXCEPT ![u] = n]) \in Nat
           /\ InAll([f EXCEPT ![u] = n]) + f[u] = InAll(f) + n
  <1> DEFINE g == [f EXCEPT ![u] = n]
  <1>1. /\ \A v \in Users : f[v] \in Nat /\ g[v] \in Nat
        /\ \A v \in Users \ {u} : f[v] = g[v]
        /\ g[u] = n
    OBVIOUS
  <1> HIDE DEF g
  <1>2. InAll(f) \in Nat /\ InAll(g) \in Nat /\ InAll(g) + f[u] = InAll(f) + g[u]
    BY <1>1, InAllUpdate
  <1>3. QED
    BY <1>1, <1>2 DEF g

LEMMA EmptyInAll ==
    ASSUME NEW f \in [Users -> Nat], NEW u \in Users
    PROVE  /\ InAll(f) \in Nat /\ InAll([f EXCEPT ![u] = 0]) \in Nat
           /\ InAll([f EXCEPT ![u] = 0]) + f[u] = InAll(f)
  <1>1. PICK n \in Nat : n = 0
    OBVIOUS
  <1>2. /\ InAll(f) \in Nat /\ InAll([f EXCEPT ![u] = n]) \in Nat
        /\ InAll([f EXCEPT ![u] = n]) + f[u] = InAll(f) + n
    BY SetInAll
  <1>3. QED
    BY <1>1, <1>2

\* A supply follows the one holding that changes with it.
HoldingMoves(u) ==
    /\ \A v \in Users \ {u} : tokens'[v] = tokens[v]
    /\ \A s \in Side : supply'[s] + tokens[u][s] = supply[s] + tokens'[u][s]

LEMMA TokensFollow ==
    ASSUME TypeOK, TypeOK', TokensCounted, NEW u \in Users, HoldingMoves(u)
    PROVE  TokensCounted'
  <1>1. ASSUME NEW s \in Side PROVE InAll(TokensOn(s))' = supply'[s]
    <2>1. PICK f, g, x, y : f = TokensOn(s) /\ g = TokensOn(s)' /\ x = supply[s] /\ y = supply'[s]
      OBVIOUS
    <2>2. /\ \A v \in Users : f[v] = tokens[v][s] /\ g[v] = tokens'[v][s]
          /\ tokens \in [Users -> [Side -> Nat]] /\ supply \in [Side -> Nat]
          /\ tokens' \in [Users -> [Side -> Nat]] /\ supply' \in [Side -> Nat]
      BY <2>1 DEF TokensOn, TypeOK, TradeOK
    <2>3. /\ \A v \in Users : f[v] \in Nat /\ g[v] \in Nat
          /\ \A v \in Users \ {u} : f[v] = g[v]
          /\ x \in Nat /\ y \in Nat /\ y + f[u] = x + g[u]
      BY <2>1, <2>2 DEF HoldingMoves
    <2>4. InAll(f) = x
      BY <2>1 DEF TokensCounted
    <2>5. InAll(g) = y
      <3>1. /\ InAll(f) \in Nat /\ InAll(g) \in Nat
            /\ InAll(g) + f[u] = InAll(f) + g[u]
        BY <2>3, InAllUpdate
      <3>2. f[u] \in Nat /\ g[u] \in Nat /\ x \in Nat /\ y \in Nat /\ y + f[u] = x + g[u]
        BY <2>3
      <3>3. QED
        BY <2>4, <3>1, <3>2
    <2>6. QED
      BY <2>1, <2>5 DEF InAll
  <1>2. QED
    BY <1>1 DEF TokensCounted

LEMMA TokensStay ==
    ASSUME TokensCounted, UNCHANGED outcomeVars
    PROVE  TokensCounted'
  BY DEF TokensCounted, TokensOn, InAll, outcomeVars

LEMMA InitCounted == Init => Counted
  <1> SUFFICES ASSUME Init PROVE Counted
    OBVIOUS
  <1> USE DEF Init, NewMarket
  <1>1. InAll(shares) = 0 /\ InAll(lpBalance) = 0
    BY SumOfZeros, UsersAssumption DEF InAll
  <1>2. ASSUME NEW s \in Side PROVE InAll(TokensOn(s)) = 0
    <2>1. \A u \in Users : TokensOn(s)[u] = 0
      BY DEF TokensOn
    <2>2. QED
      BY <2>1, SumOfZeros, UsersAssumption DEF InAll
  <1>3. QED
    BY <1>1, <1>2 DEF Counted, RightsCounted, TokensCounted, WithinSnapshots, IsFormalMarket

LEMMA RightsStay ==
    ASSUME RightsCounted, UNCHANGED <<shares, S, lpVars>>, IsFormalMarket' = IsFormalMarket
    PROVE  RightsCounted'
  BY DEF RightsCounted, InAll, lpVars

\* Steps that leave every holding as it is.
LEMMA HoldingsStay ==
    ASSUME Counted,
           UNCHANGED <<phase, S, shares, lpVars, outcomeVars, lpSnapshot, failedSupply>>
    PROVE  Counted'
  <1>1. RightsCounted' /\ TokensCounted'
    BY RightsStay, TokensStay DEF Counted, IsFormalMarket
  <1>2. WithinSnapshots'
    BY DEF Counted, WithinSnapshots, lpVars
  <1>3. QED
    BY <1>1, <1>2 DEF Counted

\* A Genesis trade gives u n shares and leaves m, graduating or not.
LEMMA GenesisTradeCounted ==
    ASSUME TypeOK, Counted, phase = "GENESIS", NEW u \in Users, NEW n \in Nat, NEW m \in Nat,
           m + shares[u] = S + n, shares' = [shares EXCEPT ![u] = n], S' = m,
           UNCHANGED <<lpBalance, outcomeVars>>,
           \/ phase' = "GENESIS"
           \/ phase' = "FORMAL" /\ unmaterializedLP' = m /\ liquiditySupply' = m
    PROVE  Counted'
  <1>1. InAll(shares) = S /\ InAll(lpBalance) = 0
    BY DEF Counted, RightsCounted, IsFormalMarket
  <1>2. /\ InAll([shares EXCEPT ![u] = n]) \in Nat
        /\ InAll([shares EXCEPT ![u] = n]) + shares[u] = InAll(shares) + n
    BY SetInAll DEF TypeOK, GenesisOK
  <1>3. InAll([shares EXCEPT ![u] = n]) = m
    <2>1. shares[u] \in Nat /\ S \in Nat
      BY DEF TypeOK, GenesisOK
    <2>2. QED
      BY <1>1, <1>2, <2>1
  <1>4. InAll(shares)' = S' /\ InAll(lpBalance)' = 0 /\ S' = m
    BY <1>1, <1>3 DEF InAll
  <1>5. RightsCounted'
    <2>1. m + 0 = m
      OBVIOUS
    <2>2. QED
      BY <1>4, <2>1 DEF RightsCounted, IsFormalMarket
  <1>6. TokensCounted' /\ WithinSnapshots'
    BY TokensStay DEF Counted, WithinSnapshots
  <1>7. QED
    BY <1>5, <1>6 DEF Counted

LEMMA GenesisBuyCounted ==
    ASSUME IInv, Counted, NEW u \in Users, NEW paid \in PaidAmounts, GenesisBuy(u, paid)
    PROVE  Counted'
  <1> DEFINE r == R + Percent99(paid)
  <1>1. /\ phase = "GENESIS" /\ TypeOK /\ UNCHANGED <<lpBalance, outcomeVars>>
    BY DEF GenesisBuy, GenesisOpen, IInv
  <1>2. PICK next \in (S + 1)..((r * CurveScale) \div K) :
          /\ shares' = [shares EXCEPT ![u] = @ + (next - S)]
          /\ Reserve(r, next, ReachesTarget(r))
    BY DEF GenesisBuy
  <1>3. /\ S' = next
        /\ \/ phase' = "GENESIS"
           \/ phase' = "FORMAL" /\ unmaterializedLP' = next /\ liquiditySupply' = next
    BY <1>1, <1>2 DEF Reserve, Graduate
  <1> HIDE DEF r
  <1>4. S \in Nat /\ shares[u] \in Nat
    BY <1>1 DEF TypeOK, GenesisOK
  <1>5. next \in Nat /\ shares[u] + (next - S) \in Nat
    BY <1>2, <1>4
  <1>6. next + shares[u] = S + (shares[u] + (next - S))
    BY <1>4, <1>5
  <1>7. QED
    BY <1>1, <1>2, <1>3, <1>5, <1>6, GenesisTradeCounted

LEMMA GenesisSellCounted ==
    ASSUME IInv, Counted, NEW u \in Users, NEW q \in Nat, GenesisSell(u, q)
    PROVE  Counted'
  <1>1. /\ phase = "GENESIS" /\ TypeOK /\ UNCHANGED <<lpBalance, outcomeVars>>
        /\ q <= S /\ q <= shares[u] /\ shares' = [shares EXCEPT ![u] = @ - q]
    BY DEF GenesisSell, GenesisOpen, IInv
  <1>2. /\ S' = S - q
        /\ \/ phase' = "GENESIS"
           \/ phase' = "FORMAL" /\ unmaterializedLP' = S - q /\ liquiditySupply' = S - q
    BY <1>1 DEF GenesisSell, Reserve, Graduate
  <1>3. S \in Nat /\ shares[u] \in Nat
    BY <1>1 DEF TypeOK, GenesisOK
  <1>4. /\ S - q \in Nat /\ shares[u] - q \in Nat
        /\ (S - q) + shares[u] = S + (shares[u] - q)
    BY <1>1, <1>3
  <1>5. QED
    BY <1>1, <1>2, <1>4, GenesisTradeCounted

\* Outcomes are bought, sold, redeemed or claimed by one holder.
LEMMA OutcomesCounted ==
    ASSUME IInv, IInv', Counted, NEW u \in Users, HoldingMoves(u),
           UNCHANGED <<phase, S, shares, lpVars, lpSnapshot, failedSupply>>
    PROVE  Counted'
  <1>1. TokensCounted'
    BY TokensFollow DEF IInv, Counted
  <1>2. RightsCounted' /\ WithinSnapshots'
    BY RightsStay DEF Counted, WithinSnapshots, IsFormalMarket, lpVars
  <1>3. QED
    BY <1>1, <1>2 DEF Counted

LEMMA TradesMove ==
    ASSUME TypeOK, NEW u \in Users,
           \/ \E s \in Side, a \in TradeAmounts : FormalBuy(u, s, a) \/ FormalSell(u, s, a)
           \/ \E a \in PairAmounts : RedeemPairs(u, a)
    PROVE  HoldingMoves(u) /\ UNCHANGED <<phase, S, shares, lpVars, lpSnapshot, failedSupply>>
  <1>1. /\ \A v \in Users, s \in Side : tokens[v][s] \in Nat
        /\ \A s \in Side : supply[s] \in Nat
        /\ tokens \in [Users -> [Side -> Nat]] /\ supply \in [Side -> Nat]
    BY DEF TypeOK, TradeOK
  <1>2. ASSUME NEW s \in Side, NEW d \in Int,
               supply' = [supply EXCEPT ![s] = @ + d], tokens' = [tokens EXCEPT ![u][s] = @ + d]
        PROVE  HoldingMoves(u)
    <2>1. ASSUME NEW r \in Side
          PROVE  supply'[r] + tokens[u][r] = supply[r] + tokens'[u][r]
      <3>1. CASE r = s
        <4>1. supply'[r] = supply[s] + d /\ tokens'[u][r] = tokens[u][s] + d
          BY <1>1, <1>2, <3>1
        <4>2. QED
          BY <1>1, <3>1, <4>1
      <3>2. CASE r # s
        <4>1. supply'[r] = supply[r] /\ tokens'[u][r] = tokens[u][r]
          BY <1>1, <1>2, <3>2
        <4>2. QED
          BY <4>1
      <3>3. QED
        BY <3>1, <3>2
    <2>2. \A v \in Users \ {u} : tokens'[v] = tokens[v]
      BY <1>1, <1>2
    <2>3. QED
      BY <2>1, <2>2 DEF HoldingMoves
  <1>3. ASSUME NEW s \in Side, NEW a \in TradeAmounts, FormalBuy(u, s, a) \/ FormalSell(u, s, a)
        PROVE  HoldingMoves(u)
    <2>1. a \in Nat /\ -a \in Int
      BY AmountsAssumption
    <2>2. CASE FormalBuy(u, s, a)
      <3>1. /\ supply' = [supply EXCEPT ![s] = @ + a]
            /\ tokens' = [tokens EXCEPT ![u][s] = @ + a]
        BY <2>2 DEF FormalBuy, SupplyWith
      <3>2. a \in Int
        BY <2>1
      <3>3. QED
        BY <1>2, <3>1, <3>2
    <2>3. CASE FormalSell(u, s, a)
      <3>1. tokens[u][s] - a = tokens[u][s] + (-a)
        BY <1>1, <2>1
      <3>2. [tokens EXCEPT ![u][s] = @ - a] = [tokens EXCEPT ![u][s] = @ + (-a)]
        BY <1>1, <3>1
      <3>3. QED
        BY <1>2, <2>1, <2>3, <3>2 DEF FormalSell, SupplyWith
    <2>4. QED
      BY <1>3, <2>2, <2>3
  <1>4. ASSUME NEW a \in PairAmounts, RedeemPairs(u, a) PROVE HoldingMoves(u)
    <2>1. PICK burn : burn = a * Scale
      OBVIOUS
    <2>2. burn \in Nat
      BY <2>1, AmountsAssumption, CurveAssumption, Product
    <2>3. /\ tokens' = [tokens EXCEPT ![u] = [s \in Side |-> @[s] - burn]]
          /\ supply' = [s \in Side |-> supply[s] - burn]
      BY <1>4, <2>1 DEF RedeemPairs
    <2>4. ASSUME NEW s \in Side
          PROVE  supply'[s] + tokens[u][s] = supply[s] + tokens'[u][s]
      <3>1. supply'[s] = supply[s] - burn /\ tokens'[u][s] = tokens[u][s] - burn
        BY <1>1, <2>3
      <3>2. QED
        BY <1>1, <2>2, <3>1
    <2>5. \A v \in Users \ {u} : tokens'[v] = tokens[v]
      BY <1>1, <2>3
    <2>6. QED
      BY <2>4, <2>5 DEF HoldingMoves
  <1>5. UNCHANGED <<phase, S, shares, lpVars, lpSnapshot, failedSupply>>
    BY DEF FormalBuy, FormalSell, RedeemPairs, genesisVars, resultVars, failedVars
  <1>6. QED
    BY <1>3, <1>4, <1>5

\* An LP right is taken out of the market's keeping.
LEMMA MaterializeCounted ==
    ASSUME IInv, Counted, NEW u \in Users, MaterializeLP(u)
    PROVE  Counted'
  <1>1. /\ TypeOK /\ IsFormalMarket /\ IsFormalMarket'
        /\ shares' = [shares EXCEPT ![u] = 0]
        /\ unmaterializedLP' = unmaterializedLP - shares[u]
        /\ lpBalance' = [lpBalance EXCEPT ![u] = @ + shares[u]]
        /\ UNCHANGED <<phase, S, liquiditySupply, outcomeVars, lpSnapshot, failedSupply>>
    BY DEF MaterializeLP, EmptyEscrow, IInv, IsFormalMarket, resultVars, failedVars
  <1>2. /\ shares[u] \in Nat /\ lpBalance[u] + shares[u] \in Nat /\ lpBalance[u] \in Nat
        /\ shares \in [Users -> Nat] /\ lpBalance \in [Users -> Nat]
        /\ unmaterializedLP \in Nat /\ liquiditySupply \in Nat
    BY <1>1 DEF TypeOK, GenesisOK, LPOK
  <1>3. /\ InAll([shares EXCEPT ![u] = 0]) \in Nat
        /\ InAll([shares EXCEPT ![u] = 0]) + shares[u] = InAll(shares)
    BY <1>2, EmptyInAll
  <1>9. PICK n \in Nat : n = lpBalance[u] + shares[u]
    BY <1>2
  <1>4. /\ InAll(lpBalance) \in Nat /\ InAll([lpBalance EXCEPT ![u] = n]) \in Nat
        /\ InAll([lpBalance EXCEPT ![u] = n]) + lpBalance[u] = InAll(lpBalance) + n
    BY <1>2, SetInAll
  <1>5. InAll(shares) = unmaterializedLP /\ unmaterializedLP + InAll(lpBalance) = liquiditySupply
    BY <1>1 DEF Counted, RightsCounted
  <1>6. /\ InAll([shares EXCEPT ![u] = 0]) = unmaterializedLP - shares[u]
        /\ (unmaterializedLP - shares[u]) + InAll([lpBalance EXCEPT ![u] = n])
             = liquiditySupply
    BY <1>2, <1>9, <1>3, <1>4, <1>5
  <1>7. RightsCounted'
    <2>1. lpBalance' = [lpBalance EXCEPT ![u] = n]
      BY <1>1, <1>9
    <2>2. /\ InAll(shares)' = unmaterializedLP'
          /\ unmaterializedLP' + InAll(lpBalance)' = liquiditySupply'
      BY <1>1, <1>6, <2>1 DEF InAll
    <2>3. QED
      BY <1>1, <2>2 DEF RightsCounted
  <1>8. QED
    BY <1>1, <1>7, TokensStay DEF Counted, WithinSnapshots

LEMMA TransferCounted ==
    ASSUME IInv, Counted, NEW u \in Users, NEW v \in Users, NEW a \in LPAmounts,
           TransferLP(u, v, a)
    PROVE  Counted'
  <1>1. /\ TypeOK /\ u # v /\ a \in Nat /\ a <= lpBalance[u]
        /\ lpBalance' = [lpBalance EXCEPT ![u] = @ - a, ![v] = @ + a]
        /\ UNCHANGED <<phase, S, shares, unmaterializedLP, liquiditySupply, outcomeVars,
                       lpSnapshot, failedSupply>>
    BY AmountsAssumption DEF TransferLP, IInv, genesisVars, resultVars, failedVars
  <1>2. /\ lpBalance \in [Users -> Nat] /\ lpBalance[u] \in Nat /\ lpBalance[v] \in Nat
        /\ lpBalance[u] - a \in Nat /\ lpBalance[v] + a \in Nat
    BY <1>1 DEF TypeOK, LPOK
  <1>3. PICK f : f = [lpBalance EXCEPT ![u] = lpBalance[u] - a]
    OBVIOUS
  <1>4. f \in [Users -> Nat] /\ f[v] = lpBalance[v]
    BY <1>1, <1>2, <1>3
  <1>5. lpBalance' = [f EXCEPT ![v] = lpBalance[v] + a]
    BY <1>1, <1>2, <1>3
  <1>6. /\ InAll(lpBalance) \in Nat /\ InAll(f) \in Nat
        /\ InAll(f) + lpBalance[u] = InAll(lpBalance) + (lpBalance[u] - a)
    <2>1. PICK m \in Nat : m = lpBalance[u] - a
      BY <1>2
    <2>2. /\ InAll(lpBalance) \in Nat /\ InAll([lpBalance EXCEPT ![u] = m]) \in Nat
          /\ InAll([lpBalance EXCEPT ![u] = m]) + lpBalance[u] = InAll(lpBalance) + m
      BY <1>2, SetInAll
    <2>3. QED
      BY <1>3, <2>1, <2>2
  <1>7. PICK n \in Nat : n = lpBalance[v] + a
    BY <1>2
  <1>8. InAll([f EXCEPT ![v] = n]) = InAll(lpBalance)
    <2>1. /\ InAll([f EXCEPT ![v] = n]) \in Nat
          /\ InAll([f EXCEPT ![v] = n]) + f[v] = InAll(f) + n
      BY <1>4, SetInAll
    <2>2. QED
      BY <1>1, <1>2, <1>4, <1>6, <1>7, <2>1
  <1>9. InAll(lpBalance)' = InAll(lpBalance)
    BY <1>5, <1>7, <1>8 DEF InAll
  <1>10. RightsCounted'
    BY <1>1, <1>9 DEF Counted, RightsCounted, InAll, IsFormalMarket
  <1>11. QED
    BY <1>1, <1>10, TokensStay DEF Counted, WithinSnapshots

\* A claim of a LP rights of u, materialized first.
LEMMA PayLPCounted ==
    ASSUME TypeOK, Counted, IsFormalMarket, NEW u \in Users, NEW a \in Nat, PayLP(u, a)
    PROVE  /\ InAll(shares)' = unmaterializedLP'
           /\ unmaterializedLP' + InAll(lpBalance)' = liquiditySupply'
           /\ liquiditySupply' <= liquiditySupply
  <1>1. /\ shares' = [shares EXCEPT ![u] = 0] /\ a <= shares[u] + lpBalance[u]
        /\ unmaterializedLP' = unmaterializedLP - shares[u]
        /\ lpBalance' = [lpBalance EXCEPT ![u] = (shares[u] + lpBalance[u]) - a]
        /\ liquiditySupply' = liquiditySupply - a
    BY DEF PayLP, LPPayable, LPRights
  <1>2. /\ shares[u] \in Nat /\ lpBalance[u] \in Nat
        /\ shares \in [Users -> Nat] /\ lpBalance \in [Users -> Nat]
        /\ unmaterializedLP \in Nat /\ liquiditySupply \in Nat
    BY DEF TypeOK, GenesisOK, LPOK
  <1>3. PICK n \in Nat : n = (shares[u] + lpBalance[u]) - a
    BY <1>1, <1>2
  <1>4. /\ InAll([shares EXCEPT ![u] = 0]) \in Nat
        /\ InAll([shares EXCEPT ![u] = 0]) + shares[u] = InAll(shares)
    BY <1>2, EmptyInAll
  <1>5. /\ InAll(lpBalance) \in Nat /\ InAll([lpBalance EXCEPT ![u] = n]) \in Nat
        /\ InAll([lpBalance EXCEPT ![u] = n]) + lpBalance[u] = InAll(lpBalance) + n
    BY <1>2, SetInAll
  <1>6. InAll(shares) = unmaterializedLP /\ unmaterializedLP + InAll(lpBalance) = liquiditySupply
    BY DEF Counted, RightsCounted
  <1>7. /\ InAll([shares EXCEPT ![u] = 0]) = unmaterializedLP - shares[u]
        /\ (unmaterializedLP - shares[u]) + InAll([lpBalance EXCEPT ![u] = n])
             = liquiditySupply - a
        /\ liquiditySupply - a <= liquiditySupply
    BY <1>2, <1>3, <1>4, <1>5, <1>6
  <1>8. lpBalance' = [lpBalance EXCEPT ![u] = n]
    BY <1>1, <1>3
  <1>9. QED
    BY <1>1, <1>7, <1>8 DEF InAll

LEMMA PayOutcomeMoves ==
    ASSUME TypeOK, NEW u \in Users, PayOutcome(u)
    PROVE  HoldingMoves(u)
  <1>1. /\ tokens' = [tokens EXCEPT ![u] = [s \in Side |-> 0]]
        /\ supply' = [s \in Side |-> supply[s] - tokens[u][s]]
        /\ tokens \in [Users -> [Side -> Nat]] /\ supply \in [Side -> Nat]
    BY DEF PayOutcome, TypeOK, TradeOK
  <1>2. ASSUME NEW s \in Side
        PROVE  supply'[s] + tokens[u][s] = supply[s] + tokens'[u][s]
    <2>1. supply'[s] = supply[s] - tokens[u][s] /\ tokens'[u][s] = 0
      BY <1>1
    <2>2. supply[s] \in Nat /\ tokens[u][s] \in Nat
      BY <1>1
    <2>3. QED
      BY <2>1, <2>2
  <1>3. \A v \in Users \ {u} : tokens'[v] = tokens[v]
    BY <1>1
  <1>4. QED
    BY <1>2, <1>3 DEF HoldingMoves

\* A claim pays LP rights or leaves them, and outcomes likewise.
LEMMA SettledCounted ==
    ASSUME IInv, IInv', Counted, phase = "SETTLED", NEW u \in Users,
           UNCHANGED <<phase, S, lpSnapshot, failedSupply>>,
           \/ UNCHANGED <<shares, lpVars>>
           \/ \E a \in Nat : PayLP(u, a),
           UNCHANGED outcomeVars \/ PayOutcome(u)
    PROVE  Counted'
  <1>1. TypeOK /\ TypeOK' /\ IsFormalMarket /\ IsFormalMarket'
    BY DEF IInv, IsFormalMarket
  <1>2. TokensCounted'
    BY <1>1, TokensStay, PayOutcomeMoves, TokensFollow DEF Counted
  <1>3. RightsCounted' /\ liquiditySupply' <= liquiditySupply
    <2>1. CASE UNCHANGED <<shares, lpVars>>
      <3>1. liquiditySupply \in Nat
        BY <1>1 DEF TypeOK, LPOK
      <3>2. QED
        BY <1>1, <2>1, <3>1, RightsStay DEF Counted, lpVars
    <2>2. ASSUME NEW a \in Nat, PayLP(u, a)
          PROVE  RightsCounted' /\ liquiditySupply' <= liquiditySupply
      <3>1. /\ InAll(shares)' = unmaterializedLP'
            /\ unmaterializedLP' + InAll(lpBalance)' = liquiditySupply'
            /\ liquiditySupply' <= liquiditySupply
        BY <1>1, <2>2, PayLPCounted
      <3>2. QED
        BY <1>1, <3>1 DEF RightsCounted
    <2>3. QED
      BY <2>1, <2>2
  <1>4. WithinSnapshots'
    <2>1. liquiditySupply <= lpSnapshot
      BY DEF Counted, WithinSnapshots
    <2>2. /\ liquiditySupply \in Nat /\ lpSnapshot \in Nat
          /\ liquiditySupply' \in Nat /\ lpSnapshot' = lpSnapshot
      BY <1>1 DEF TypeOK, LPOK, ResultOK
    <2>3. liquiditySupply' <= lpSnapshot'
      BY <1>3, <2>1, <2>2
    <2>4. QED
      BY <2>3 DEF WithinSnapshots
  <1>5. QED
    BY <1>2, <1>3, <1>4 DEF Counted

LEMMA ClaimFailedCounted ==
    ASSUME IInv, Counted, NEW u \in Users, ClaimFailed(u)
    PROVE  Counted'
  <1>1. /\ TypeOK /\ phase = "FAILED" /\ phase' = "FAILED" /\ ~IsFormalMarket /\ ~IsFormalMarket'
        /\ shares' = [shares EXCEPT ![u] = 0] /\ S' = S - shares[u] /\ shares[u] <= S
        /\ UNCHANGED <<lpVars, outcomeVars, failedSupply>>
    BY DEF ClaimFailed, FailedPayable, IInv, IsFormalMarket
  <1>2. /\ shares \in [Users -> Nat] /\ shares[u] \in Nat /\ S \in Nat /\ failedSupply \in Nat
    BY <1>1 DEF TypeOK, GenesisOK, ResultOK
  <1>3. InAll(shares) = S /\ InAll(lpBalance) = 0 /\ S <= failedSupply
    BY <1>1 DEF Counted, RightsCounted, WithinSnapshots
  <1>4. /\ InAll([shares EXCEPT ![u] = 0]) \in Nat
        /\ InAll([shares EXCEPT ![u] = 0]) + shares[u] = InAll(shares)
    BY <1>2, EmptyInAll
  <1>5. InAll([shares EXCEPT ![u] = 0]) = S - shares[u] /\ S - shares[u] <= failedSupply
    BY <1>2, <1>3, <1>4
  <1>6. InAll(shares)' = S' /\ InAll(lpBalance)' = 0 /\ S' <= failedSupply'
    BY <1>1, <1>3, <1>5 DEF InAll, lpVars
  <1>7. QED
    BY <1>1, <1>6, TokensStay DEF Counted, RightsCounted, WithinSnapshots

LEMMA PhaseMovesCounted ==
    ASSUME IInv, Counted,
           \/ \E c, p \in BOOLEAN : CloseGenesis(c, p) \/ Finalize(c, p)
           \/ CloseFormal
    PROVE  Counted'
  <1>1. /\ TypeOK /\ Dormant /\ UNCHANGED <<S, shares, lpVars, outcomeVars>>
    BY DEF IInv, CloseGenesis, Finalize, CloseFormal, genesisVars
  <1>2. S \in Nat /\ liquiditySupply \in Nat
    BY <1>1 DEF TypeOK, GenesisOK, LPOK
  <1>3. IsFormalMarket' = IsFormalMarket
    BY DEF CloseGenesis, GenesisExpired, Finalize, CloseFormal, IsFormalMarket
  <1>4. WithinSnapshots'
    <2>1. CASE \E c, p \in BOOLEAN : CloseGenesis(c, p)
      BY <1>1, <1>2, <2>1 DEF CloseGenesis, WithinSnapshots
    <2>2. CASE \E c, p \in BOOLEAN : Finalize(c, p)
      BY <1>1, <1>2, <2>2 DEF Finalize, SnapshotSupply, WithinSnapshots, Dormant, Trading, lpVars
    <2>3. CASE CloseFormal
      BY <2>3 DEF CloseFormal, WithinSnapshots
    <2>4. QED
      BY <2>1, <2>2, <2>3
  <1>5. QED
    BY <1>1, <1>3, <1>4, RightsStay, TokensStay DEF Counted

LEMMA QuietCounted ==
    ASSUME Counted,
           \/ \E c, p \in BOOLEAN : ClaimFees(c, p)
           \/ Core \/ Tick \/ \E a \in GiftAmounts : Gift(a)
           \/ UNCHANGED vars
    PROVE  Counted'
  <1>1. UNCHANGED <<phase, S, shares, lpVars, outcomeVars, lpSnapshot, failedSupply>>
    BY DEF ClaimFees, Core, CoreFallsDue, CoreRefuses, CoreResolves, Tick, Gift, vars,
           genesisVars, resultVars, failedVars
  <1>2. QED
    BY <1>1, HoldingsStay

LEMMA CollectDustCounted ==
    ASSUME Counted, \E c, p \in BOOLEAN : CollectDust(c, p)
    PROVE  Counted'
  <1>1. UNCHANGED <<phase, S, shares, lpVars, outcomeVars, lpSnapshot, failedSupply>>
    BY DEF CollectDust, resultVars
  <1>2. QED
    BY <1>1, HoldingsStay

LEMMA ClaimsCounted ==
    ASSUME IInv, IInv', Counted, NEW u \in Users,
           \/ ClaimOutcome(u)
           \/ \E a \in LPAmounts \cup {LPRights(u)} : ClaimLP(u, a)
           \/ ClaimAllSettled(u)
    PROVE  Counted'
  <1>1. /\ phase = "SETTLED" /\ UNCHANGED <<phase, S, lpSnapshot, failedSupply>>
    BY DEF ClaimOutcome, ClaimLP, ClaimAllSettled, genesisVars, resultVars, failedVars
  <1>2. LPRights(u) \in Nat /\ LPAmounts \cup {LPRights(u)} \subseteq Nat
    <2>1. LPRights(u) \in Nat
      BY DEF LPRights, IInv, TypeOK, GenesisOK, LPOK
    <2>2. QED
      BY <2>1, AmountsAssumption
  <1>3. UNCHANGED <<shares, lpVars>> \/ \E a \in Nat : PayLP(u, a)
    BY <1>2 DEF ClaimOutcome, ClaimLP, ClaimAllSettled, genesisVars
  <1>4. UNCHANGED outcomeVars \/ PayOutcome(u)
    BY DEF ClaimOutcome, ClaimLP, ClaimAllSettled
  <1>5. QED
    BY <1>1, <1>3, <1>4, SettledCounted

LEMMA StepCounted == IInv /\ Counted /\ [Next]_vars => Counted'
  <1> SUFFICES ASSUME IInv, Counted, [Next]_vars PROVE Counted'
    OBVIOUS
  <1>1. IInv'
    BY StepInvariant
  <1>2. ASSUME NEW u \in Users, NEW a \in PaidAmounts, GenesisBuy(u, a) PROVE Counted'
    BY <1>2, GenesisBuyCounted
  <1>3. ASSUME NEW u \in Users, NEW q \in ShareAmounts \cup {shares[u]}, GenesisSell(u, q)
        PROVE  Counted'
    <2>1. q \in Nat
      BY AmountsAssumption DEF IInv, TypeOK, GenesisOK
    <2>2. QED
      BY <1>3, <2>1, GenesisSellCounted
  <1>4. ASSUME NEW u \in Users,
               \/ \E s \in Side, a \in TradeAmounts : FormalBuy(u, s, a) \/ FormalSell(u, s, a)
               \/ \E a \in PairAmounts : RedeemPairs(u, a)
        PROVE  Counted'
    <2>1. HoldingMoves(u) /\ UNCHANGED <<phase, S, shares, lpVars, lpSnapshot, failedSupply>>
      BY <1>4, TradesMove DEF IInv
    <2>2. QED
      BY <1>1, <2>1, OutcomesCounted
  <1>5. ASSUME NEW u \in Users,
               MaterializeLP(u) \/ \E v \in Users, a \in LPAmounts : TransferLP(u, v, a)
        PROVE  Counted'
    BY <1>5, MaterializeCounted, TransferCounted
  <1>6. CASE (\E c, p \in BOOLEAN : CloseGenesis(c, p) \/ Finalize(c, p)) \/ CloseFormal
    BY <1>6, PhaseMovesCounted
  <1>7. ASSUME NEW u \in Users,
               \/ ClaimOutcome(u) \/ ClaimAllSettled(u)
               \/ \E a \in LPAmounts \cup {LPRights(u)} : ClaimLP(u, a)
        PROVE  Counted'
    BY <1>1, <1>7, ClaimsCounted
  <1>8. ASSUME NEW u \in Users, ClaimFailed(u) PROVE Counted'
    BY <1>8, ClaimFailedCounted
  <1>9. CASE \E c, p \in BOOLEAN : CollectDust(c, p)
    BY <1>9, CollectDustCounted
  <1>10. CASE \/ \E c, p \in BOOLEAN : ClaimFees(c, p)
              \/ Core \/ Tick \/ \E a \in GiftAmounts : Gift(a)
              \/ UNCHANGED vars
    BY <1>10, QuietCounted
  <1>11. QED
    BY <1>2, <1>3, <1>4, <1>5, <1>6, <1>7, <1>8, <1>9, <1>10 DEF Next, ClaimAll
------------------------------------------------------------------------------
\* Nobody holds more than there is, and no market is worth less than its books.
LEMMA HoldingsWithin ==
    ASSUME TypeOK, Counted, NEW u \in Users
    PROVE  /\ ~IsFormalMarket => shares[u] <= S
           /\ IsFormalMarket => shares[u] <= unmaterializedLP /\ LPRights(u) <= liquiditySupply
           /\ \A s \in Side : tokens[u][s] <= supply[s]
  <1>1. /\ \A v \in Users : shares[v] \in Nat /\ lpBalance[v] \in Nat
        /\ \A v \in Users, s \in Side : tokens[v][s] \in Nat
        /\ S \in Nat /\ unmaterializedLP \in Nat /\ liquiditySupply \in Nat
    BY DEF TypeOK, GenesisOK, LPOK, TradeOK
  <1>2. /\ InAll(shares) \in Nat /\ shares[u] <= InAll(shares)
        /\ InAll(lpBalance) \in Nat /\ lpBalance[u] <= InAll(lpBalance)
    BY <1>1, TermInAll
  <1>3. ASSUME NEW s \in Side PROVE tokens[u][s] <= supply[s]
    <2>1. PICK f : f = TokensOn(s)
      OBVIOUS
    <2>2. /\ \A v \in Users : f[v] \in Nat
          /\ f[u] = tokens[u][s] /\ InAll(f) = supply[s]
      BY <1>1, <2>1 DEF TokensOn, Counted, TokensCounted
    <2>3. f[u] <= InAll(f)
      BY <2>2, TermInAll
    <2>4. QED
      BY <2>2, <2>3
  <1>4. QED
    BY <1>1, <1>2, <1>3 DEF Counted, RightsCounted, LPRights

LEMMA BooksWithin ==
    ASSUME IInv
    PROVE  /\ R <= balance /\ cash <= balance /\ failedRRemaining <= balance
           /\ collateralCash + lpBudgetRemaining <= balance
  BY DEF IInv, BooksCoverBalance, Accounted, TypeOK, TimeOK, GenesisOK, TradeOK, ResultOK

LEMMA GenesisExits ==
    ASSUME IInv, Counted, GenesisOpen, NEW u \in Users, NEW q \in 1..shares[u]
    PROVE  q <= S /\ GenesisGross(q) <= R /\ Percent99(GenesisGross(q)) <= balance
  <1>1. /\ TypeOK /\ phase = "GENESIS" /\ ~IsFormalMarket
        /\ S \in Nat /\ R \in Nat /\ balance \in Nat /\ shares[u] \in Nat
        /\ K * S * S <= R * CurveScale
    BY DEF GenesisOpen, IsFormalMarket, IInv, TypeOK, TimeOK, GenesisOK, CurveBacked
  <1>2. q \in Nat /\ q <= S
    BY <1>1, HoldingsWithin
  <1>3. GenesisGross(q) \in Nat /\ GenesisGross(q) <= R
    BY <1>1, <1>2, GrossLeavesCurve
  <1>4. PICK g \in Nat : g = GenesisGross(q)
    BY <1>3
  <1>5. Percent99(g) \in Nat /\ Percent99(g) <= g
    BY DEF Percent99
  <1>6. R <= balance
    BY BooksWithin
  <1>7. QED
    BY <1>1, <1>2, <1>3, <1>4, <1>5, <1>6

LEMMA FloorAtMost ==
    ASSUME NEW x \in Int, NEW d \in Nat, d > 0, NEW c \in Nat, x <= c * d
    PROVE  x \div d \in Int /\ x \div d <= c
  <1>1. CASE x \in Nat
    <2>1. PICK q \in Nat : q = x \div d /\ q * d <= x
      BY <1>1, Division
    <2>2. q * d < (c + 1) * d
      <3>1. (c + 1) * d = c * d + d /\ c * d \in Nat /\ q * d \in Nat
        BY Product
      <3>2. QED
        BY <2>1, <3>1, <1>1
    <2>3. q < c + 1
      BY <2>2, Cancel
    <2>4. QED
      BY <2>1, <2>3
  <1>2. CASE x < 0
    BY <1>2
  <1>3. QED
    BY <1>1, <1>2

LEMMA FormalExits ==
    ASSUME IInv, Counted, FormalOpen, NEW u \in Users, NEW s \in Side, NEW a \in TradeAmounts,
           a <= tokens[u][s]
    PROVE  /\ a <= supply[s] /\ SellGross(s, a) <= cash
           /\ CoreFee(SellGross(s, a)) + Percent98(SellGross(s, a)) <= balance
  <1>1. /\ TypeOK /\ Trading /\ a \in Nat /\ tokens[u][s] \in Nat /\ supply[s] \in Nat
        /\ supply \in [Side -> Nat] /\ cash \in Nat /\ balance \in Nat
    BY AmountsAssumption DEF FormalOpen, Trading, IInv, TypeOK, TimeOK, TradeOK
  <1>2. a <= supply[s]
    BY <1>1, HoldingsWithin
  <1>3. /\ initialCollateral > 0 /\ bWad \in Nat /\ bWad > 0 /\ FormalGuard \in Nat
        /\ Cost(0, 0, bWad) \in Nat /\ Cost(0, 0, bWad) <= bWad /\ CostOf(supply) \in Nat
        /\ cash * Scale + Cost(0, 0, bWad) >= bWad + CostOf(supply)
    BY <1>1, TradingFacts, DepthType, CostStart
  <1>4. CostOf(supply) <= cash * Scale /\ cash * Scale \in Nat
    BY <1>1, <1>3, Product, CurveAssumption
  <1>5. SupplyWith(s, -a) \in [Side -> Nat]
    BY <1>1, <1>2 DEF SupplyWith
  <1>6. PICK left \in Nat : left = CostOf(SupplyWith(s, -a))
    BY <1>1, <1>3, <1>5, CostOfType
  <1>7. PICK x \in Int : x = CostOf(supply) - left /\ x <= cash * Scale
    BY <1>3, <1>4
  <1>8. x \div Scale \in Int /\ x \div Scale <= cash
    BY <1>1, <1>7, FloorAtMost, CurveAssumption
  <1>9. PICK g \in Int : g = SellGross(s, a) /\ g <= cash
    BY <1>1, <1>3, <1>6, <1>7, <1>8 DEF SellGross, SellRaw
  <1>10. CoreFee(g) + Percent98(g) <= cash
    BY <1>1, <1>9 DEF CoreFee, Percent98
  <1>11. CoreFee(g) + Percent98(g) \in Int
    BY DEF CoreFee, Percent98
  <1>12. QED
    BY <1>1, <1>2, <1>9, <1>10, <1>11, BooksWithin

LEMMA PairExits ==
    ASSUME IInv, Counted, RedeemOpen, NEW u \in Users, NEW a \in PairAmounts,
           HoldsPairs(u, a * Scale)
    PROVE  a <= cash /\ a <= balance /\ \A s \in Side : a * Scale <= supply[s]
  <1>1. /\ TypeOK /\ Trading /\ a \in Nat /\ cash \in Nat /\ balance \in Nat
        /\ supply \in [Side -> Nat] /\ tokens[u] \in [Side -> Nat]
    BY AmountsAssumption DEF RedeemOpen, Trading, IInv, TypeOK, TimeOK, TradeOK
  <1>2. PICK burn \in Nat : burn = a * Scale
    BY <1>1, CurveAssumption, Product
  <1>3. \A s \in Side : burn <= tokens[u][s] /\ tokens[u][s] <= supply[s]
    BY <1>1, <1>2, HoldingsWithin DEF HoldsPairs
  <1>4. \A s \in Side : burn <= supply[s]
    BY <1>1, <1>3
  <1>5. supply["YES"] <= cash * Scale
    <2>1. /\ initialCollateral > 0 /\ bWad \in Nat /\ bWad > 0
          /\ Cost(0, 0, bWad) \in Nat /\ Cost(0, 0, bWad) <= bWad /\ CostOf(supply) \in Nat
          /\ cash * Scale + Cost(0, 0, bWad) >= bWad + CostOf(supply)
      BY <1>1, TradingFacts, DepthType, CostStart
    <2>2. cash * Scale \in Nat /\ CostOf(supply) <= cash * Scale
      BY <1>1, <2>1, Product, CurveAssumption
    <2>3. supply["YES"] <= CostOf(supply) /\ supply["YES"] \in Nat
      BY <1>1, <2>1, CostOfType DEF Side
    <2>4. QED
      BY <2>1, <2>2, <2>3
  <1>6. a <= cash
    <2>1. burn <= cash * Scale /\ cash * Scale \in Nat
      BY <1>1, <1>4, <1>5, Product, CurveAssumption DEF Side
    <2>2. (cash + 1) * Scale = cash * Scale + Scale
      BY <1>1, CurveAssumption
    <2>3. a * Scale < (cash + 1) * Scale
      BY <1>2, <2>1, <2>2, CurveAssumption
    <2>4. a < cash + 1
      BY <1>1, <2>3, Cancel, CurveAssumption
    <2>5. QED
      BY <1>1, <2>4
  <1>7. QED
    BY <1>1, <1>2, <1>4, <1>6, BooksWithin

LEMMA LPExits ==
    ASSUME IInv, Counted, phase = "SETTLED", NEW u \in Users, NEW a \in 1..LPRights(u)
    PROVE  LPPayable(u, a) /\ LPPay(a) \in Nat
  <1>1. /\ TypeOK /\ IsFormalMarket /\ liquiditySupply <= lpSnapshot
        /\ lpBudgetInitial * liquiditySupply <= lpBudgetRemaining * lpSnapshot
    BY DEF IInv, IsFormalMarket, Counted, WithinSnapshots, BudgetsKeepTheirShare
  <1>2. /\ liquiditySupply \in Nat /\ lpSnapshot \in Nat /\ LPRights(u) \in Nat
        /\ lpBudgetInitial \in Nat /\ lpBudgetRemaining \in Nat
    BY <1>1 DEF TypeOK, GenesisOK, LPOK, ResultOK, LPRights
  <1>3. shares[u] <= unmaterializedLP /\ LPRights(u) <= liquiditySupply
    BY <1>1, HoldingsWithin
  <1>4. a \in Nat /\ a <= liquiditySupply /\ lpSnapshot > 0
    BY <1>1, <1>2, <1>3
  <1>5. LPPay(a) \in Nat /\ LPPay(a) <= lpBudgetRemaining
    BY <1>1, <1>2, <1>4, ProRata DEF LPPay
  <1>6. QED
    BY <1>3, <1>4, <1>5 DEF LPPayable

LEMMA OutcomeExits ==
    ASSUME IInv, Counted, phase = "SETTLED", NEW u \in Users
    PROVE  OutcomePayable(u) /\ OutcomePay(u) \in Nat
  <1>1. /\ TypeOK /\ outcome \in Result /\ collateralCash \in Nat
        /\ supply \in [Side -> Nat] /\ tokens[u] \in [Side -> Nat]
        /\ Value(supply["YES"], supply["NO"], outcome) <= collateralCash
    BY DEF IInv, TypeOK, TradeOK, ResultOK, Dormant, SettledBacked
  <1>2. \A s \in Side : tokens[u][s] <= supply[s]
    BY <1>1, HoldingsWithin
  <1>3. PICK y, n, v, w \in Nat :
          y = supply["YES"] /\ n = supply["NO"] /\ v = tokens[u]["YES"] /\ w = tokens[u]["NO"]
    BY <1>1 DEF Side
  <1>4. v <= y /\ w <= n
    BY <1>2, <1>3 DEF Side
  <1>5. /\ Value(y, n, outcome) \in Nat /\ Value(v, w, outcome) \in Nat
        /\ Value(v, w, outcome) <= Value(y, n, outcome)
    BY <1>1, <1>4, ValueSplit
  <1>6. OutcomePay(u) \in Nat /\ OutcomePay(u) <= collateralCash
    BY <1>1, <1>3, <1>5 DEF OutcomePay
  <1>7. QED
    BY <1>2, <1>6 DEF OutcomePayable

LEMMA SettledExits ==
    ASSUME IInv, Counted, phase = "SETTLED", NEW u \in Users
    PROVE  SettledPay(u) <= balance
  <1>1. /\ TypeOK /\ LPRights(u) \in Nat /\ collateralCash \in Nat /\ lpBudgetRemaining \in Nat
        /\ balance \in Nat /\ collateralCash + lpBudgetRemaining <= balance
    BY BooksWithin DEF IInv, TypeOK, TimeOK, GenesisOK, LPOK, ResultOK, LPRights
  <1>2. PICK lp \in Nat : /\ lp = IF LPRights(u) > 0 THEN LPPay(LPRights(u)) ELSE 0
                          /\ lp <= lpBudgetRemaining
    BY <1>1, LPExits DEF LPPayable
  <1>3. PICK op \in Nat : /\ op = IF HoldsOutcome(u) THEN OutcomePay(u) ELSE 0
                          /\ op <= collateralCash
    BY <1>1, OutcomeExits DEF OutcomePayable
  <1>4. QED
    BY <1>1, <1>2, <1>3 DEF SettledPay

LEMMA FailedExits ==
    ASSUME IInv, Counted, phase = "FAILED", NEW u \in Users, shares[u] > 0
    PROVE  FailedPayable(u)
  <1>1. /\ TypeOK /\ ~IsFormalMarket /\ S <= failedSupply
        /\ failedRInitial * S <= failedRRemaining * failedSupply
    BY DEF IInv, IsFormalMarket, Counted, WithinSnapshots, BudgetsKeepTheirShare
  <1>2. /\ S \in Nat /\ failedSupply \in Nat /\ shares[u] \in Nat /\ balance \in Nat
        /\ failedRInitial \in Nat /\ failedRRemaining \in Nat
    BY <1>1 DEF TypeOK, TimeOK, GenesisOK, ResultOK
  <1>3. shares[u] <= S /\ failedSupply > 0
    BY <1>1, <1>2, HoldingsWithin
  <1>4. FailedPay(u) \in Nat /\ FailedPay(u) <= failedRRemaining
    BY <1>1, <1>2, <1>3, ProRata DEF FailedPay
  <1>5. FailedPay(u) <= balance
    BY <1>2, <1>4, BooksWithin
  <1>6. QED
    BY <1>3, <1>4, <1>5 DEF FailedPayable

\* Whatever the others did, and whichever claims were paid before: while shares are sold, the
\* market trades, pairs are redeemed, LP rights are taken out, and every settled or failed
\* claim is paid, no subtraction of the contract refuses a holder who leaves.
THEOREM ExitsAreServed == Spec => []NoExitRefused
  <1>1. Spec => [](IInv /\ Counted)
    <2>1. Init => IInv /\ Counted
      BY InitInvariant, InitCounted
    <2>2. (IInv /\ Counted) /\ [Next]_vars => (IInv /\ Counted)'
      BY StepInvariant, StepCounted
    <2>3. QED
      BY <2>1, <2>2, PTL DEF Spec
  <1>2. IInv /\ Counted => NoExitRefused
    <2> SUFFICES ASSUME IInv, Counted PROVE NoExitRefused
      OBVIOUS
    <2>1. GenesisOpen => \A u \in Users : \A q \in 1..shares[u] :
            q <= S /\ GenesisGross(q) <= R /\ Percent99(GenesisGross(q)) <= balance
      BY GenesisExits
    <2>2. FormalOpen => \A u \in Users, s \in Side, a \in TradeAmounts :
            a <= tokens[u][s] =>
              /\ a <= supply[s] /\ SellGross(s, a) <= cash
              /\ CoreFee(SellGross(s, a)) + Percent98(SellGross(s, a)) <= balance
      BY FormalExits
    <2>3. RedeemOpen => \A u \in Users, a \in PairAmounts :
            HoldsPairs(u, a * Scale) =>
              a <= cash /\ a <= balance /\ \A s \in Side : a * Scale <= supply[s]
      BY PairExits
    <2>4. IsFormalMarket => \A u \in Users : shares[u] <= unmaterializedLP
      BY HoldingsWithin DEF IInv
    <2>5. phase = "SETTLED" => \A u \in Users :
            /\ \A a \in 1..LPRights(u) : LPPayable(u, a)
            /\ OutcomePayable(u) /\ SettledPay(u) <= balance
      BY LPExits, OutcomeExits, SettledExits
    <2>6. phase = "FAILED" => \A u \in Users : shares[u] > 0 => FailedPayable(u)
      BY FailedExits
    <2>7. QED
      BY <2>1, <2>2, <2>3, <2>4, <2>5, <2>6 DEF NoExitRefused
  <1>3. QED
    BY <1>1, <1>2, PTL
==============================================================================

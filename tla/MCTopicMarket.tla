---------------------------- MODULE MCTopicMarket ----------------------------
\* TopicMarket on small instances.  It starts three hours before the end, as
\* no earlier instant differs from that one, and makes at most MaxTrades trades.
EXTENDS TopicMarket, TLC

CONSTANT MaxTrades
VARIABLE trades

CountTrades ==
    /\ trades' = trades + (IF /\ phase' \in {"GENESIS", "FORMAL"}
                             /\ (S' # S \/ supply' # supply)
                            THEN 1 ELSE 0)
    /\ trades' <= MaxTrades

BoundedInit == now = CoreEnd - 3 * Hour /\ NewMarket /\ trades = 0
BoundedNext == Next /\ CountTrades
BoundedSpec == BoundedInit /\ [][BoundedNext]_<<vars, trades>>
FairBoundedSpec == BoundedSpec /\ Fairness

UserSymmetry == Permutations(Users)

\* ln(1 + e^-x) in thousandths: e^-x from its whole and broken part, the
\* logarithm by its fast series in z = e^-x / (2 + e^-x).
ExpMinusWhole == [i \in 0..7 |-> <<1000, 368, 135, 50, 18, 7, 2, 1>>[i + 1]]
ExpMinus(x) ==
    LET f == x % 1000
        broken == 1000 - f + (f * f) \div 2000 - (((f * f) * f) \div 1000) \div 6000
                    + (((f * f) \div 1000) * ((f * f) \div 1000)) \div 24000
    IN  IF x >= 8000 THEN 0 ELSE (ExpMinusWhole[x \div 1000] * broken) \div 1000
MCLnOnePlusExp(x) ==
    LET u == ExpMinus(x)
        z == (1000 * u) \div (2000 + u)
        cube == ((z * z) * z) \div 1000000
        fifth == (((z * z) \div 1000) * cube) \div 1000
    IN  2 * (z + cube \div 3 + fifth \div 5)

==============================================================================

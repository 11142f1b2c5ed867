----------------------------- MODULE MCProtocol -----------------------------
(***************************************************************************)
(* Small instances of Protocol.  One unit of debt is one USDD and one      *)
(* hundredth of a percent is the precision of a ratio, so that the reserve *)
(* of 200, the minimum debt of 1800, the ratios 110% and 150% and the 0.5% *)
(* gas compensation have the proportions of the deployed contracts.        *)
(***************************************************************************)
EXTENDS Protocol

CONSTANTS b1, b2, b3, keeper

\* Coin prices: 1.60 opens troves, 1.00 makes some of them liquidatable.
TwoPrices == {10000, 16000}

\* Collateral of a trove with the minimum debt.  At the lower price the
\* ratio is below 100%, between 100% and MCR, between MCR and CCR, or sound;
\* with FourColls the whole system is above or below CCR, too.
FourColls == {2000, 2150, 2500, 3500}
ThreeColls == {2000, 2500, 5000}
TwoColls == {2000, 5000}

Empty == {}

\* One or two troves in any order, and all three in any order
AllBatches ==
    {<<b>> : b \in Borrowers}
        \cup {<<c, d>> : c, d \in Borrowers}
        \cup {s \in [1..3 -> Borrowers] : Cardinality(Borrowers) = 3
                                            /\ ToSet(s) = Borrowers}

\* Borrow more, repay, add and withdraw collateral, and both at once
SomeAdjustments ==
    {[collIn |-> 0, collOut |-> 0, usdd |-> 400, increase |-> TRUE],
     [collIn |-> 0, collOut |-> 0, usdd |-> 400, increase |-> FALSE],
     [collIn |-> 700, collOut |-> 0, usdd |-> 0, increase |-> FALSE],
     [collIn |-> 0, collOut |-> 700, usdd |-> 0, increase |-> FALSE],
     [collIn |-> 700, collOut |-> 0, usdd |-> 400, increase |-> TRUE]}

Symmetry == Permutations(Borrowers)
=============================================================================

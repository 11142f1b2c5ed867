------------------------------- MODULE DecPow -------------------------------
(***************************************************************************)
(* The exponentiation of Dependencies/LiquityMath.sol with which the base  *)
(* rate decays and DEFT is issued.                                         *)
(***************************************************************************)
EXTENDS Integers

CONSTANTS
    DECIMAL_PRECISION,      \* one, as a fixed-point number (1e18)
    MAX_MINUTES             \* the cap of the exponent, 1000 years

ASSUME DecPowAssumption ==
    /\ DECIMAL_PRECISION \in Nat \ {0}
    /\ MAX_MINUTES \in Nat \ {0}

decMul(x, y) == (x * y + DECIMAL_PRECISION \div 2) \div DECIMAL_PRECISION

\* The loop of _decPow: n halves, and y collects the factors of odd n.
squaring[n \in Nat] ==
    [x \in Nat |-> [y \in Nat |->
        IF n <= 1 THEN decMul(x, y)
        ELSE IF n % 2 = 0 THEN squaring[n \div 2][decMul(x, x)][y]
        ELSE squaring[(n - 1) \div 2][decMul(x, x)][decMul(x, y)]]]

decPow(base, minutes) ==
    LET n == IF minutes > MAX_MINUTES THEN MAX_MINUTES ELSE minutes
    IN  IF n = 0 THEN DECIMAL_PRECISION
        ELSE squaring[n][base][DECIMAL_PRECISION]

\* What decPow stands for: base multiplied by itself, once for every minute
power[base \in Nat, n \in Nat] ==
    IF n = 0 THEN DECIMAL_PRECISION ELSE decMul(power[base, n - 1], base)
=============================================================================

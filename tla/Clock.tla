------------------------------- MODULE Clock -------------------------------
(***************************************************************************)
(* Time as the contracts see it, the timestamp of the current block, and   *)
(* the number of transactions so far.  Both are bounded.                   *)
(***************************************************************************)
EXTENDS Naturals

CONSTANTS
    MaxTime,                \* bound: the last timestamp
    MaxOps                  \* bound: transactions in a behaviour

ASSUME ClockAssumption == MaxTime \in Nat /\ MaxOps \in Nat

VARIABLES
    now,                    \* block.timestamp
    ops                     \* transactions so far

secondPasses ==
    /\ now < MaxTime
    /\ now' = now + 1
    /\ ops' = ops

transaction == ops < MaxOps /\ ops' = ops + 1
=============================================================================

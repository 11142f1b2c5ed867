----------------------------- MODULE MCFrontEnd -----------------------------
(***************************************************************************)
(* A small instance of FrontEnd: a user without a trove and one with a     *)
(* trove.                                                                  *)
(***************************************************************************)
EXTENDS FrontEnd

MCFirstBlocks ==
    {[status |-> "nonExistent", trove |-> 0, surplus |-> FALSE, stake |-> 0],
     [status |-> "open", trove |-> 1, surplus |-> FALSE, stake |-> 0]}
=============================================================================

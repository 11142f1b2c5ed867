---------------------------- MODULE MCProviders ----------------------------
(***************************************************************************)
(* A small instance of Providers.                                          *)
(***************************************************************************)
EXTENDS Providers
=============================================================================

------------------------------ MODULE MCSignIn ------------------------------
(***************************************************************************)
(* Values of the constants of SignIn for TLC.                              *)
(***************************************************************************)
EXTENDS SignIn
=============================================================================

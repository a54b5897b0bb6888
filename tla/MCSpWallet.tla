----------------------------- MODULE MCSpWallet -----------------------------
(***************************************************************************)
(* Small wallets for TLC.                                                  *)
(***************************************************************************)
EXTENDS SpWallet

\* An operator takes paid SP away or gives bonus SP.
MCAdjustments == {<<"paid", -2>>, <<"bonus", 1>>}
=============================================================================

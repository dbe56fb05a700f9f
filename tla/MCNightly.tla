------------------------------ MODULE MCNightly ------------------------------
(* Nightly for TLC: every constant is a number, given by the cfg.           *)
EXTENDS Nightly, TLC
=============================================================================

------------------------------- MODULE MCProxy -------------------------------
(* Proxy for TLC: every constant is a number, given by the cfg.             *)
EXTENDS Proxy, TLC
=============================================================================

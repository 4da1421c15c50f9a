----------------------------- MODULE MCAddress ------------------------------
(***************************************************************************)
(* Small instances of ClientAddress for TLC: two proxies, one of which is  *)
(* also written in its mapped form.                                        *)
(***************************************************************************)
EXTENDS ClientAddress, TLC

CONSTANTS x1, x2, m1

MCUnmap == m1 :> x1
=============================================================================

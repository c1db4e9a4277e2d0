---------------------------- MODULE MCCVVLifetime ----------------------------
(* Small instances of CVVLifetime. *)
EXTENDS CVVLifetime, TLC
===============================================================================

----------------------------- MODULE MCManagement -----------------------------
(* Small instances of Management. *)
EXTENDS ManagementInvariants, TLC

\* Requests and tenants are interchangeable.
Symmetry ==
  Permutations(Requests) \cup Permutations(Tenants)
===============================================================================

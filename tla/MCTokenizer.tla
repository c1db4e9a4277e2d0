----------------------------- MODULE MCTokenizer -----------------------------
(* Small instances of Tokenizer, of the invariants used in its proofs and of *)
(* its refinement of VaultContract.                                          *)
EXTENDS TokenizerInvariants, TokenizerRefinement, TLC

\* Requests, PANs and CVVs are interchangeable; so are the tenants.
Symmetry ==
  Permutations(Requests) \cup Permutations(PANs) \cup Permutations(CVVs)
    \cup Permutations(Tenants)
===============================================================================

------------------------------- MODULE MCProxy -------------------------------
(* Small instances of Proxy.  One tick of the clock is ten seconds. *)
EXTENDS ProxyInvariants, TLC

\* Requests, the places of a payload and the tokens are interchangeable.
Symmetry == Permutations(Forwards) \cup Permutations(Positions) \cup Permutations(TokenIDs)

\* All tokens have been issued.  One that has not been is refused, as any call may be.
InitAllIssued ==
  /\ Init
  /\ \A k \in TokenIDs : Vault!Bound(k) \/ cvvs[k] # Nil

SpecAllIssued == InitAllIssued /\ [][Next]_vars
===============================================================================

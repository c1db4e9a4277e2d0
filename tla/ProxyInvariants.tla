--------------------------- MODULE ProxyInvariants ---------------------------
(***************************************************************************)
(* The inductive invariant behind the safety properties of Proxy: what a   *)
(* call to the tokenizer is about, what each place of a payload holds,     *)
(* what a destination has got, and how much time is left.                  *)
(***************************************************************************)
EXTENDS Proxy

VaultOK ==
  /\ cvvs \in [TokenIDs -> Vault!LiveCVVs \cup {Nil}]
  /\ spent \subseteq TokenIDs
  /\ asked \in [Calls -> Vault!Asks \cup {Nil}]
  /\ revealed \in [Calls -> Values]

\* The calls of a request are for the tokens its client sent, in its name.
CallsOK ==
  \A f \in Forwards, i \in Positions :
    LET q == <<f, i>>
    IN  /\ q \in sent => fwd[f] # Nil /\ fwd[f].payload[i] \in TokenIDs
        /\ asked[q] # Nil => /\ q \in sent
                             /\ asked[q].tenant = fwd[f].tenant
                             /\ asked[q].token = fwd[f].payload[i]
        /\ revealed[q] # Nil => asked[q] # Nil /\ asked[q].usable

\* A CVV goes to one call, and is gone then.
ConsumedOnce ==
  \A q \in Calls : revealed[q] \in CVVs =>
    /\ cvvs[asked[q].token] = Nil
    /\ \A r \in Calls :
         revealed[r] \in CVVs /\ asked[r].token = asked[q].token => r = q

\* What the tokenizer may have answered to the call for place i.
Answers(f, i, value) ==
  LET q == <<f, i>>
  IN  /\ asked[q] # Nil /\ asked[q].usable
      /\ \/ value # Nil /\ revealed[q] = value
         \/ value = Nil /\ \E p \in PANs : directory[<<asked[q].tenant, p>>] = asked[q].token

\* The handler of f has the client's payload.
Received(f) == pc[f] \in {"reveal", "detokenize", "forward"}

\* In the payload of a handler some tokens have been replaced; it waits for the call
\* of a token that has not.
HandlerOK(f) ==
  /\ pc[f] \in {"idle", "decode"} => fwd[f] = Nil
  /\ Received(f) =>
       /\ fwd[f] # Nil
       /\ \A i \in Positions :
            payload[f][i] = fwd[f].payload[i] \/ Answers(f, i, payload[f][i])
  /\ pc[f] = "detokenize" => at[f] \in TokenPositions(payload[f]) /\ <<f, at[f]>> \in sent
  /\ status[f] # 0 => pc[f] = "done"

\* A payload is posted as it is when no token is left, by the last call.
PostedOK(f) ==
  /\ pc[f] \in {"idle", "decode", "reveal", "detokenize"} \/ status[f] = 404 => posted[f] = Nil
  /\ pc[f] = "forward" => posted[f] = payload[f] /\ TokenPositions(payload[f]) = {}
  /\ posted[f] # Nil =>
       /\ fwd[f] # Nil
       /\ \A i \in Positions :
            \/ fwd[f].payload[i] = Plain /\ posted[f][i] = Plain
            \/ Answers(f, i, posted[f][i])
            \/ posted[f][i] = Zeros /\ status[f] = 200

\* A token that was dead when the body was read stays in its place.
LateOK(f) ==
  late[f] =>
    /\ fwd[f] # Nil /\ posted[f] = Nil
    /\ \E i \in Positions : /\ fwd[f].payload[i] \in spent
                            /\ asked[<<f, i>>] # Nil => ~asked[<<f, i>>].usable

\* The body has cost no more than its deadline; every token that is left may cost one
\* timeout more, and those that have been replaced have cost no more than one each.
ClocksOK(f) ==
  /\ pc[f] \notin Pending => waited[f] = 0
  /\ pc[f] \in Pending => waited[f] <= Timeout(f)
  /\ ~Running(f) => elapsed[f] = 0
  /\ pc[f] = "decode" => elapsed[f] <= waited[f]
  /\ Received(f) =>
       elapsed[f] + DetokenizeTimeout * Cardinality(TokenPositions(payload[f]))
         <= ReadTimeout + DetokenizeTimeout * Cardinality(TokenPositions(fwd[f].payload))
              + waited[f]

\* All of this for request f.
ForwardOK(f) == HandlerOK(f) /\ PostedOK(f) /\ LateOK(f) /\ ClocksOK(f)

\* The inductive invariant.
ProxyInv ==
  /\ TypeOK /\ VaultOK /\ CallsOK /\ ConsumedOnce
  /\ \A f \in Forwards : ForwardOK(f)
===============================================================================

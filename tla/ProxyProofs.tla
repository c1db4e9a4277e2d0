------------------------------ MODULE ProxyProofs ------------------------------
(***************************************************************************)
(* What leaves the proxy, and when: for any requests, payloads, tokens,    *)
(* timeouts and failures.                                                  *)
(***************************************************************************)
EXTENDS ProxyInvariants, FiniteSetTheorems, TLAPS

-----------------------------------------------------------------------------
(* Tokens of a payload and their timeouts *)

\* A payload has finitely many tokens.
LEMMA TokenCount ==
  ASSUME NEW body
  PROVE  /\ IsFiniteSet(TokenPositions(body))
         /\ Cardinality(TokenPositions(body)) \in Nat
  BY PositionsAssumption, FS_Subset, FS_CardinalityType DEF TokenPositions

\* Replacing a token by something else leaves one token less.
LEMMA ReplaceCount ==
  ASSUME NEW body, NEW i \in TokenPositions(body), NEW value, value \notin TokenIDs,
         NEW body2, \A j \in Positions : body2[j] = IF j = i THEN value ELSE body[j]
  PROVE  Cardinality(TokenPositions(body2)) = Cardinality(TokenPositions(body)) - 1
PROOF
  <1>1. TokenPositions(body2) = TokenPositions(body) \ {i}
    BY DEF TokenPositions
  <1> QED
    BY <1>1, TokenCount, FS_RemoveElement

\* The timeouts of one token less.
LEMMA OneTimeoutLess ==
  ASSUME NEW n \in Nat, n # 0
  PROVE  DetokenizeTimeout * (n - 1) = DetokenizeTimeout * n - DetokenizeTimeout
PROOF
  <1>1. DetokenizeTimeout \in Nat
    BY TimeoutsAssumption
  <1> QED
    BY <1>1

-----------------------------------------------------------------------------
(* Answers *)

\* An answer replaces a token by a value of the vault.
LEMMA AnswersAreValues ==
  ASSUME VaultOK, NEW f \in Forwards, NEW i \in Positions, NEW value, Answers(f, i, value)
  PROVE  value \in Values /\ value \notin TokenIDs
  BY StringsAssumption DEF VaultOK, Answers, Calls, Values

\* A request with a token that was dead when its body was read has a token left as
\* long as its handler runs: nothing is answered to the call for it.
LEMMA LateKeepsToken ==
  ASSUME VaultOK, NEW f \in Forwards, ForwardOK(f), late[f], Received(f)
  PROVE  TokenPositions(payload[f]) # {} /\ pc[f] # "forward"
PROOF
  <1>1. PICK i \in Positions : /\ fwd[f].payload[i] \in spent
                               /\ asked[<<f, i>>] # Nil => ~asked[<<f, i>>].usable
    BY DEF ForwardOK, LateOK
  <1>2. ~Answers(f, i, payload[f][i])
    BY <1>1 DEF Answers
  <1>3. payload[f][i] \in TokenIDs
    BY <1>1, <1>2 DEF ForwardOK, HandlerOK, VaultOK
  <1> QED
    BY <1>3 DEF TokenPositions, ForwardOK, PostedOK

\* When no token is left, every place holds a plain string of the client or an answer.
LEMMA AllReplaced ==
  ASSUME ProxyInv, NEW f \in Forwards, Received(f), TokenPositions(payload[f]) = {}
  PROVE  \A i \in Positions : \/ fwd[f].payload[i] = Plain /\ payload[f][i] = Plain
                              \/ Answers(f, i, payload[f][i])
PROOF
  <1>1. HandlerOK(f)
    BY DEF ProxyInv, ForwardOK
  <1>2. fwd[f] \in ForwardInputs
    BY <1>1 DEF ProxyInv, TypeOK, HandlerOK
  <1>3. \A i \in Positions : payload[f][i] \notin TokenIDs /\ fwd[f].payload[i] \in Strings
    BY <1>2 DEF TokenPositions, ForwardInputs
  <1> QED
    BY <1>1, <1>3 DEF HandlerOK, Strings

-----------------------------------------------------------------------------
(* Requests that a step does not serve *)

\* What the proxy knows of a request when the tokenizer takes up or answers a
\* call, or another request is served.
LEMMA OtherForwards ==
  ASSUME NEW g \in Forwards, ForwardOK(g),
         pc'[g] = pc[g], fwd'[g] = fwd[g], payload'[g] = payload[g], at'[g] = at[g],
         posted'[g] = posted[g], status'[g] = status[g], elapsed'[g] = elapsed[g],
         waited'[g] = waited[g], late'[g] = late[g],
         sent \subseteq sent', spent \subseteq spent', UNCHANGED directory,
         \A i \in Positions :
           LET q == <<g, i>>
           IN  /\ asked[q] # Nil => asked'[q] = asked[q]
               /\ revealed[q] # Nil => revealed'[q] = revealed[q]
               /\ asked[q] = Nil /\ asked'[q] # Nil /\ fwd[g].payload[i] \in spent
                    => ~asked'[q].usable
  PROVE  ForwardOK(g)'
PROOF
  <1>1. \A i \in Positions : \A value : Answers(g, i, value) => Answers(g, i, value)'
    BY DEF Answers
  <1>2. HandlerOK(g)'
    BY <1>1 DEF ForwardOK, HandlerOK, Received, TokenPositions
  <1>3. PostedOK(g)'
    BY <1>1 DEF ForwardOK, PostedOK, TokenPositions
  <1>4. LateOK(g)'
    BY DEF ForwardOK, LateOK
  <1>5. ClocksOK(g)'
    BY DEF ForwardOK, ClocksOK, Running, Received, Pending, Timeout, TokenPositions
  <1> QED
    BY <1>2, <1>3, <1>4, <1>5 DEF ForwardOK

-----------------------------------------------------------------------------
(* Steps of a request *)

\* A step of f leaves the other requests alone.
Serves(f) ==
  \A g \in Forwards : g # f =>
    /\ pc'[g] = pc[g] /\ fwd'[g] = fwd[g] /\ payload'[g] = payload[g] /\ at'[g] = at[g]
    /\ posted'[g] = posted[g] /\ status'[g] = status[g] /\ elapsed'[g] = elapsed[g]
    /\ waited'[g] = waited[g] /\ late'[g] = late[g]

\* A step that serves f keeps the invariant if it keeps what concerns f, and only
\* calls the tokenizer for tokens of f's client.
LEMMA ServeStep ==
  ASSUME ProxyInv, TypeOK', NEW f \in Forwards, Serves(f), ForwardOK(f)', UNCHANGED vaultVars,
         fwd[f] = Nil \/ fwd'[f] = fwd[f], sent \subseteq sent',
         \A g \in Forwards, j \in Positions : <<g, j>> \in sent' =>
           \/ <<g, j>> \in sent
           \/ g = f /\ fwd'[f] # Nil /\ fwd'[f].payload[j] \in TokenIDs
  PROVE  ProxyInv'
PROOF
  <1> USE DEF vaultVars
  <1>1. VaultOK' /\ ConsumedOnce'
    BY DEF ProxyInv, VaultOK, ConsumedOnce
  <1>2. CallsOK'
    <2>1. \A g \in Forwards : fwd[g] = Nil \/ fwd'[g] = fwd[g]
      BY DEF Serves
    <2> SUFFICES ASSUME NEW g \in Forwards, NEW j \in Positions
                 PROVE  /\ <<g, j>> \in sent' => fwd'[g] # Nil /\ fwd'[g].payload[j] \in TokenIDs
                        /\ asked[<<g, j>>] # Nil =>
                             /\ <<g, j>> \in sent'
                             /\ asked[<<g, j>>].tenant = fwd'[g].tenant
                             /\ asked[<<g, j>>].token = fwd'[g].payload[j]
                        /\ revealed[<<g, j>>] # Nil =>
                             asked[<<g, j>>] # Nil /\ asked[<<g, j>>].usable
      BY DEF CallsOK
    <2> QED
      BY <2>1 DEF ProxyInv, CallsOK
  <1>3. ASSUME NEW g \in Forwards, g # f
        PROVE  ForwardOK(g)'
    BY <1>3, OtherForwards DEF ProxyInv, Serves
  <1> QED
    BY <1>1, <1>2, <1>3 DEF ProxyInv

-----------------------------------------------------------------------------
(* The handler returns *)

\* Nothing has been posted for an answer 404, and an answer 200 may wipe what the
\* destination has not read yet.
PostedAtReturn(f) ==
  /\ status'[f] = 404 => pc[f] # "forward"
  /\ \/ posted'[f] = posted[f]
     \/ /\ status'[f] = 200 /\ pc[f] = "forward"
        /\ \E unread \in SUBSET Positions : posted'[f] = Wipe(posted[f], unread)

\* Whichever way a handler returns, with whatever has been posted.
LEMMA ReturnStep ==
  ASSUME ProxyInv, TypeOK', NEW f \in Forwards, Running(f) \/ pc[f] = "idle",
         Serves(f), UNCHANGED <<vaultVars, fwd, sent, late>>,
         pc'[f] \in {"done", "gone"}, status'[f] # 0 => pc'[f] = "done",
         elapsed'[f] = 0, waited'[f] = 0, PostedAtReturn(f)
  PROVE  ProxyInv'
PROOF
  <1> USE DEF vaultVars
  <1>1. ForwardOK(f) /\ ~Running(f)' /\ ~Received(f)'
    BY DEF ProxyInv, Running, Received, Pending
  <1>2. HandlerOK(f)'
    BY <1>1 DEF HandlerOK
  <1>3. PostedOK(f)'
    <2> DEFINE Fits(i, value) == \/ fwd[f].payload[i] = Plain /\ value = Plain
                                 \/ Answers(f, i, value)
    <2>1. \A i \in Positions : \A value : Answers(f, i, value)' = Answers(f, i, value)
      BY DEF Answers
    <2>2. posted[f] # Nil => fwd[f] # Nil /\ \A i \in Positions : Fits(i, posted[f][i])
      BY <1>1 DEF ForwardOK, PostedOK, HandlerOK, Running, Pending
    <2>3. CASE posted'[f] = posted[f]
      BY <1>1, <2>1, <2>2, <2>3
      DEF ForwardOK, PostedOK, PostedAtReturn, Running, Pending
    <2>4. CASE posted'[f] # posted[f]
      <3>1. PICK unread \in SUBSET Positions : posted'[f] = Wipe(posted[f], unread)
        BY <2>4 DEF PostedAtReturn
      <3>2. status'[f] = 200 /\ pc[f] = "forward"
        BY <2>4 DEF PostedAtReturn
      <3>3. posted[f] = payload[f] /\ TokenPositions(payload[f]) = {} /\ fwd[f] # Nil
        BY <1>1, <3>2 DEF ForwardOK, PostedOK, HandlerOK, Received
      <3>4. \A i \in Positions : Fits(i, posted[f][i])
        BY <3>2, <3>3, AllReplaced DEF Received
      <3> QED
        BY <1>1, <2>1, <3>1, <3>2, <3>3, <3>4 DEF PostedOK, Wipe, Running, Pending
    <2> QED
      BY <2>3, <2>4
  <1>4. LateOK(f)'
    <2>1. late[f] => posted'[f] = posted[f]
      BY <1>1, LateKeepsToken DEF ProxyInv, Received, PostedAtReturn
    <2> QED
      BY <1>1, <2>1 DEF ForwardOK, LateOK
  <1>5. ClocksOK(f)'
    BY <1>1 DEF ClocksOK, Running, Pending
  <1>6. ForwardOK(f)'
    BY <1>2, <1>3, <1>4, <1>5 DEF ForwardOK
  <1> QED
    BY <1>6, ServeStep

\* What Return sets.
LEMMA ReturnSets ==
  ASSUME TypeOK, NEW f \in Forwards, NEW end \in {"done", "gone"}, Return(f, end),
         UNCHANGED <<fwd, sent, late>>,
         posted' \in [Forwards -> [Positions -> Strings \cup Values \cup {Zeros}] \cup {Nil}],
         status' \in [Forwards -> {0, 200, 400, 404, 502}], heard' \in [Forwards -> BOOLEAN],
         \A g \in Forwards : g # f => posted'[g] = posted[g] /\ status'[g] = status[g]
  PROVE  TypeOK' /\ Serves(f) /\ pc'[f] = end /\ elapsed'[f] = 0 /\ waited'[f] = 0
PROOF
  <1>1. 0 \in 0 .. ReadTimeout + DetokenizeTimeout + ForwardTimeout
    BY TimeoutsAssumption
  <1>2. NoPayload \in [Positions -> Strings \cup Values]
    BY DEF NoPayload, Strings
  <1>3. TypeOK'
    BY <1>1, <1>2 DEF TypeOK, Return
  <1> QED
    BY <1>3 DEF TypeOK, Return, Serves

\* And Reply.
LEMMA ReplySets ==
  ASSUME TypeOK, NEW f \in Forwards, NEW c \in {200, 400, 404, 502}, Reply(f, c),
         UNCHANGED <<fwd, sent, late>>,
         posted' \in [Forwards -> [Positions -> Strings \cup Values \cup {Zeros}] \cup {Nil}],
         \A g \in Forwards : g # f => posted'[g] = posted[g]
  PROVE  /\ TypeOK' /\ Serves(f) /\ pc'[f] = "done" /\ status'[f] = c
         /\ elapsed'[f] = 0 /\ waited'[f] = 0
PROOF
  <1>1. /\ status' \in [Forwards -> {0, 200, 400, 404, 502}] /\ status'[f] = c
        /\ \A g \in Forwards : g # f => status'[g] = status[g]
        /\ heard' \in [Forwards -> BOOLEAN] /\ Return(f, "done")
    BY DEF Reply, TypeOK
  <1> QED
    BY <1>1, ReturnSets

\* The ways out of the handler.
LEMMA ReturnSteps ==
  ASSUME ProxyInv, NEW f \in Forwards,
         \/ Reject(f) \/ DecodeFails(f) \/ DetokenizeFails(f) \/ ForwardAnswered(f)
         \/ ForwardFails(f) \/ Crash(f) \/ (Forward(f) /\ Reply(f, 502))
  PROVE  ProxyInv'
PROOF
  <1>1. /\ TypeOK
        /\ posted \in [Forwards -> [Positions -> Strings \cup Values \cup {Zeros}] \cup {Nil}]
    BY DEF ProxyInv, TypeOK
  <1>2. ASSUME NEW c \in {200, 400, 404, 502}, Reply(f, c), UNCHANGED posted,
               Running(f) \/ pc[f] = "idle", c = 404 => pc[f] # "forward",
               UNCHANGED <<vaultVars, fwd, sent, late>>
        PROVE  ProxyInv'
    <2>1. /\ TypeOK' /\ Serves(f) /\ pc'[f] = "done" /\ status'[f] = c
          /\ elapsed'[f] = 0 /\ waited'[f] = 0
      BY <1>1, <1>2, ReplySets
    <2>2. PostedAtReturn(f)
      BY <1>2, <2>1 DEF PostedAtReturn
    <2> QED
      BY <1>2, <2>1, <2>2, ReturnStep
  <1>3. CASE Reject(f)
    BY <1>2, <1>3 DEF Reject
  <1>4. CASE DecodeFails(f) \/ DetokenizeFails(f)
    BY <1>2, <1>4 DEF DecodeFails, DetokenizeFails, DetokenizeError, Running, Pending
  <1>5. CASE ForwardFails(f)
    BY <1>2, <1>5 DEF ForwardFails, Running, Pending
  <1>6. CASE Forward(f) /\ Reply(f, 502)
    <2>1. pc[f] = "reveal" /\ pc' = [pc EXCEPT ![f] = "done"] /\ pc'[f] = "done"
      BY <1>6 DEF Forward, Reply, Return, ProxyInv, TypeOK
    <2>2. UNCHANGED posted
      BY <1>1, <2>1, <1>6 DEF Forward, Goto, TypeOK
    <2> QED
      BY <1>2, <1>6, <2>1, <2>2 DEF Forward, Running, Pending
  <1>7. CASE ForwardAnswered(f)
    <2>1. PICK unread \in SUBSET Positions :
            posted' = [posted EXCEPT ![f] = Wipe(posted[f], unread)]
      BY <1>7 DEF ForwardAnswered
    <2>2. pc[f] = "forward" /\ Reply(f, 200) /\ UNCHANGED <<vaultVars, fwd, sent, late>>
      BY <1>7 DEF ForwardAnswered
    <2>3. posted[f] \in [Positions -> Strings \cup Values]
      BY <2>2 DEF ProxyInv, TypeOK, ForwardOK, PostedOK
    <2>4. Wipe(posted[f], unread) \in [Positions -> Strings \cup Values \cup {Zeros}]
      BY <2>3 DEF Wipe
    <2>5. posted' \in [Forwards -> [Positions -> Strings \cup Values \cup {Zeros}] \cup {Nil}]
      BY <1>1, <2>1, <2>4
    <2>6. /\ posted'[f] = Wipe(posted[f], unread)
          /\ \A g \in Forwards : g # f => posted'[g] = posted[g]
      BY <1>1, <2>1
    <2>7. /\ TypeOK' /\ Serves(f) /\ pc'[f] = "done" /\ status'[f] = 200
          /\ elapsed'[f] = 0 /\ waited'[f] = 0
      BY <1>1, <2>2, <2>5, <2>6, ReplySets
    <2>8. PostedAtReturn(f)
      BY <2>2, <2>6, <2>7 DEF PostedAtReturn
    <2> QED
      BY <2>2, <2>7, <2>8, ReturnStep DEF Running, Pending
  <1>8. CASE Crash(f)
    <2>1. status[f] = 0 /\ Running(f)
      BY <1>8 DEF Crash, Running, Pending, ProxyInv, ForwardOK, HandlerOK
    <2>2. /\ Return(f, "gone") /\ UNCHANGED <<vaultVars, fwd, sent, posted, status, heard, late>>
      BY <1>8 DEF Crash, answerVars
    <2>3. /\ TypeOK' /\ Serves(f) /\ pc'[f] = "gone" /\ elapsed'[f] = 0 /\ waited'[f] = 0
      <3>1. status \in [Forwards -> {0, 200, 400, 404, 502}] /\ heard \in [Forwards -> BOOLEAN]
        BY <1>1 DEF TypeOK
      <3> QED
        BY <1>1, <2>2, <3>1, ReturnSets
    <2>4. PostedAtReturn(f)
      BY <2>1, <2>2 DEF PostedAtReturn
    <2> QED
      BY <2>1, <2>2, <2>3, <2>4, ReturnStep
  <1> QED
    BY <1>3, <1>4, <1>5, <1>6, <1>7, <1>8

-----------------------------------------------------------------------------
(* The handler goes on *)

\* The wait for the body begins.
LEMMA ArriveStep ==
  ASSUME ProxyInv, NEW f \in Forwards, Arrive(f)
  PROVE  ProxyInv'
PROOF
  <1> USE DEF Goto, vaultVars, callVars, answerVars, clockVars
  <1>1. /\ pc[f] = "idle" /\ pc'[f] = "decode"
        /\ UNCHANGED <<fwd, payload, at, sent, posted, status, elapsed, waited, late, spent, asked,
                       revealed, directory>>
    BY DEF Arrive, ProxyInv, TypeOK
  <1>2. ForwardOK(f)
    BY DEF ProxyInv
  <1>3. HandlerOK(f)' /\ PostedOK(f)' /\ LateOK(f)'
    BY <1>1, <1>2 DEF ForwardOK, HandlerOK, PostedOK, LateOK, Received, Answers
  <1>4. ClocksOK(f)'
    <2>1. elapsed[f] = 0 /\ waited[f] = 0
      BY <1>1, <1>2 DEF ForwardOK, ClocksOK, Running, Pending
    <2>2. 0 <= ReadTimeout
      BY TimeoutsAssumption
    <2> QED
      BY <1>1, <2>1, <2>2 DEF ClocksOK, Running, Received, Pending, Timeout
  <1>5. ForwardOK(f)'
    BY <1>3, <1>4 DEF ForwardOK
  <1>6. TypeOK'
    BY DEF ProxyInv, TypeOK, Arrive, Pending
  <1>7. Serves(f) /\ UNCHANGED vaultVars
    BY DEF Serves, ProxyInv, TypeOK, Arrive
  <1> QED
    BY <1>1, <1>5, <1>6, <1>7, ServeStep

\* A payload that has been read has nothing replaced yet, and has cost no more time
\* than the read deadline.
LEMMA ReceiveStep ==
  ASSUME ProxyInv, NEW f \in Forwards, NEW a \in ForwardInputs, Receive(f, a)
  PROVE  ProxyInv'
PROOF
  <1> USE DEF Goto, vaultVars, answerVars
  <1>1. ForwardOK(f) /\ pc[f] = "decode" /\ fwd[f] = Nil /\ posted[f] = Nil /\ status[f] = 0
    BY DEF ProxyInv, ForwardOK, HandlerOK, PostedOK, Receive
  <1>2. /\ pc'[f] = "reveal" /\ fwd'[f] = a /\ payload'[f] = a.payload
        /\ late'[f] = (\E i \in Positions : a.payload[i] \in spent) /\ a # Nil
        /\ elapsed'[f] = elapsed[f] /\ waited'[f] = 0
    BY NilAssumption DEF ProxyInv, TypeOK, Receive
  <1>3. \A i \in Positions : asked[<<f, i>>] = Nil
    BY <1>1 DEF ProxyInv, CallsOK
  <1>4. UNCHANGED <<at, sent, posted, status, asked, revealed, spent, directory>>
    BY DEF Receive
  <1>5. HandlerOK(f)'
    BY <1>1, <1>2, <1>4 DEF HandlerOK, Received
  <1>6. PostedOK(f)'
    BY <1>1, <1>2, <1>4 DEF PostedOK
  <1>7. LateOK(f)'
    BY <1>1, <1>2, <1>3, <1>4 DEF LateOK
  <1>8. ClocksOK(f)'
    <2>1. DetokenizeTimeout * Cardinality(TokenPositions(a.payload)) \in Nat
      BY TokenCount, TimeoutsAssumption
    <2>2. elapsed[f] <= waited[f] /\ waited[f] <= ReadTimeout
      BY <1>1 DEF ForwardOK, ClocksOK, Pending, Timeout
    <2>3. elapsed[f] \in Nat /\ waited[f] \in Nat /\ ReadTimeout \in Nat
      BY TimeoutsAssumption DEF ProxyInv, TypeOK
    <2>4. elapsed[f] <= ReadTimeout
      BY <2>2, <2>3
    <2> DEFINE n == DetokenizeTimeout * Cardinality(TokenPositions(a.payload))
    <2> HIDE DEF n
    <2>5. n \in Nat
      BY <2>1 DEF n
    <2>6. elapsed'[f] + n <= ReadTimeout + n + waited'[f]
      BY <1>2, <2>3, <2>4, <2>5
    <2> QED
      BY <1>2, <2>6 DEF ClocksOK, Running, Received, Pending, TokenPositions, n
  <1>9. ForwardOK(f)'
    BY <1>5, <1>6, <1>7, <1>8 DEF ForwardOK
  <1>10. TypeOK'
    <2>1. waited' \in [Forwards -> 0 .. ReadTimeout + DetokenizeTimeout + ForwardTimeout]
      BY TimeoutsAssumption DEF Receive, ProxyInv, TypeOK
    <2> QED
      BY <2>1 DEF ProxyInv, TypeOK, Receive, ForwardInputs
  <1>11. Serves(f) /\ UNCHANGED vaultVars
    BY DEF Serves, ProxyInv, TypeOK, Receive
  <1> QED
    BY <1>1, <1>4, <1>9, <1>10, <1>11, ServeStep

\* The next call: its token is one that the client sent.
LEMMA DetokenizeStep ==
  ASSUME ProxyInv, NEW f \in Forwards, Detokenize(f)
  PROVE  ProxyInv'
PROOF
  <1> USE DEF Goto, clockVars, vaultVars, answerVars
  <1>1. PICK i \in TokenPositions(payload[f]) :
          at' = [at EXCEPT ![f] = i] /\ sent' = sent \cup {<<f, i>>}
    BY DEF Detokenize
  <1>2. payload[f][i] = fwd[f].payload[i] /\ payload[f][i] \in TokenIDs /\ i \in Positions
    BY <1>1, AnswersAreValues
    DEF ProxyInv, ForwardOK, HandlerOK, Detokenize, Received, TokenPositions
  <1>3. /\ pc[f] = "reveal" /\ pc'[f] = "detokenize" /\ at'[f] = i
        /\ UNCHANGED <<fwd, payload, posted, status, elapsed, waited, late, spent, asked,
                       revealed, directory>>
    BY <1>1 DEF Detokenize, ProxyInv, TypeOK
  <1>4. ForwardOK(f)
    BY DEF ProxyInv
  <1>5. HandlerOK(f)' /\ PostedOK(f)' /\ LateOK(f)'
    BY <1>1, <1>3, <1>4
    DEF ForwardOK, HandlerOK, PostedOK, LateOK, Received, TokenPositions, Answers
  <1>6. ClocksOK(f)'
    BY <1>3, <1>4, TimeoutsAssumption
    DEF ForwardOK, ClocksOK, Running, Received, Pending, Timeout, TokenPositions
  <1>7. ForwardOK(f)'
    BY <1>5, <1>6 DEF ForwardOK
  <1>8. TypeOK'
    BY <1>1, <1>2 DEF ProxyInv, TypeOK, Detokenize, Calls, Pending
  <1>9. Serves(f) /\ UNCHANGED vaultVars
    BY <1>1 DEF Serves, ProxyInv, TypeOK, Detokenize
  <1>10. fwd[f] # Nil
    BY <1>3, <1>4 DEF ForwardOK, HandlerOK, Received
  <1> QED
    BY <1>1, <1>2, <1>3, <1>7, <1>8, <1>9, <1>10, ServeStep

\* The answer replaces the token, and one timeout less may have to be waited for.
LEMMA DetokenizeAnsweredStep ==
  ASSUME ProxyInv, NEW f \in Forwards, DetokenizeAnswered(f)
  PROVE  ProxyInv'
PROOF
  <1> USE DEF Goto, clockVars, vaultVars, answerVars
  <1> DEFINE i == at[f]
  <1>1. ForwardOK(f) /\ pc[f] = "detokenize" /\ Received(f) /\ VaultOK
    BY DEF ProxyInv, DetokenizeAnswered, Received
  <1>2. i \in TokenPositions(payload[f]) /\ i \in Positions
    BY <1>1 DEF ForwardOK, HandlerOK, TokenPositions
  <1>3. PICK value : Replace(f, value) /\ Answers(f, i, value)
    <2>1. asked[<<f, i>>] # Nil /\ (revealed[<<f, i>>] # Nil => asked[<<f, i>>].usable)
      BY <1>2 DEF ProxyInv, CallsOK, DetokenizeAnswered
    <2> QED
      BY <2>1 DEF DetokenizeAnswered, Answers
  <1>4. value \in Values /\ value \notin TokenIDs
    BY <1>1, <1>2, <1>3, AnswersAreValues
  <1>5. /\ pc'[f] = "reveal" /\ waited'[f] = 0
        /\ \A j \in Positions : payload'[f][j] = IF j = i THEN value ELSE payload[f][j]
        /\ UNCHANGED <<fwd, sent, posted, status, elapsed, late, spent, asked, revealed, directory>>
    BY <1>2, <1>3 DEF Replace, DetokenizeAnswered, ProxyInv, TypeOK
  <1>6. HandlerOK(f)'
    BY <1>1, <1>3, <1>5 DEF ForwardOK, HandlerOK, Received, Answers
  <1>7. PostedOK(f)' /\ LateOK(f)'
    BY <1>1, <1>5 DEF ForwardOK, PostedOK, LateOK
  <1>8. ClocksOK(f)'
    <2> DEFINE n == Cardinality(TokenPositions(payload[f]))
               m == DetokenizeTimeout * Cardinality(TokenPositions(fwd[f].payload))
    <2>1. Cardinality(TokenPositions(payload'[f])) = n - 1
      BY <1>2, <1>4, <1>5, ReplaceCount
    <2>2. n \in Nat /\ n # 0
      BY <1>2, TokenCount, FS_EmptySet
    <2>3. DetokenizeTimeout * (n - 1) = DetokenizeTimeout * n - DetokenizeTimeout
      BY <2>2, OneTimeoutLess
    <2>4. /\ elapsed[f] + DetokenizeTimeout * n <= ReadTimeout + m + waited[f]
          /\ waited[f] <= DetokenizeTimeout
      BY <1>1 DEF ForwardOK, ClocksOK, Timeout, Pending
    <2>5. /\ m \in Nat /\ DetokenizeTimeout * n \in Nat /\ DetokenizeTimeout \in Nat
          /\ elapsed[f] \in Nat /\ waited[f] \in Nat /\ ReadTimeout \in Nat
      BY <2>2, TokenCount, TimeoutsAssumption DEF ProxyInv, TypeOK
    <2> HIDE DEF n, m
    <2>6. elapsed[f] + DetokenizeTimeout * (n - 1) <= ReadTimeout + m + 0
      BY <2>3, <2>4, <2>5
    <2> QED
      BY <1>5, <2>1, <2>6 DEF ClocksOK, Running, Received, Pending, TokenPositions, m
  <1>9. ForwardOK(f)'
    BY <1>6, <1>7, <1>8 DEF ForwardOK
  <1>10. TypeOK'
    <2>1. payload' \in [Forwards -> [Positions -> Strings \cup Values]]
      BY <1>2, <1>3, <1>4 DEF Replace, ProxyInv, TypeOK
    <2>2. waited' \in [Forwards -> 0 .. ReadTimeout + DetokenizeTimeout + ForwardTimeout]
      BY <1>3, TimeoutsAssumption DEF Replace, ProxyInv, TypeOK
    <2> QED
      BY <1>3, <2>1, <2>2 DEF Replace, ProxyInv, TypeOK, DetokenizeAnswered
  <1>11. Serves(f) /\ UNCHANGED vaultVars
    BY <1>3 DEF Serves, Replace, ProxyInv, TypeOK, DetokenizeAnswered
  <1> QED
    BY <1>5, <1>9, <1>10, <1>11, ServeStep

\* No token is left in what is handed to the transport.
LEMMA ForwardStep ==
  ASSUME ProxyInv, NEW f \in Forwards, Forward(f)
  PROVE  ProxyInv'
PROOF
  <1> USE DEF Goto, clockVars, vaultVars, answerVars
  <1>1. ForwardOK(f) /\ pc[f] = "reveal" /\ Received(f) /\ TokenPositions(payload[f]) = {}
    BY DEF ProxyInv, Forward, Received
  <1>2. CASE Reply(f, 502)
    BY <1>2, ReturnSteps
  <1>3. CASE /\ posted' = [posted EXCEPT ![f] = payload[f]]
             /\ Goto(f, "forward") /\ UNCHANGED <<payload, at, clockVars>>
    <2>1. /\ pc'[f] = "forward" /\ posted'[f] = payload[f]
          /\ UNCHANGED <<fwd, payload, sent, status, elapsed, waited, late, spent, asked, revealed,
                         directory>>
      BY <1>3 DEF Forward, ProxyInv, TypeOK
    <2>2. fwd[f] # Nil /\ status[f] = 0 /\ ~late[f]
      BY <1>1, LateKeepsToken DEF ProxyInv, ForwardOK, HandlerOK
    <2>3. HandlerOK(f)'
      BY <1>1, <2>1, <2>2 DEF ForwardOK, HandlerOK, Received, Answers
    <2>4. PostedOK(f)'
      BY <1>1, <2>1, <2>2, AllReplaced DEF PostedOK, Answers, TokenPositions
    <2>5. LateOK(f)'
      BY <2>1, <2>2 DEF LateOK
    <2>6. ClocksOK(f)'
      BY <1>1, <2>1, TimeoutsAssumption
      DEF ForwardOK, ClocksOK, Running, Received, Pending, Timeout, TokenPositions
    <2>7. ForwardOK(f)'
      BY <2>3, <2>4, <2>5, <2>6 DEF ForwardOK
    <2>8. TypeOK'
      BY <1>3 DEF ProxyInv, TypeOK, Forward, Pending
    <2>9. Serves(f) /\ UNCHANGED vaultVars
      BY <1>3 DEF Serves, ProxyInv, TypeOK, Forward
    <2> QED
      BY <2>1, <2>7, <2>8, <2>9, ServeStep
  <1> QED
    BY <1>2, <1>3 DEF Forward

-----------------------------------------------------------------------------
(* The tokenizer *)

\* What the tokenizer may do to its calls: take one up, judging it by the tokens
\* that are dead by now, or answer it.
VaultSteps ==
  /\ spent \subseteq spent' /\ UNCHANGED directory
  /\ \A f \in Forwards, i \in Positions :
       LET q == <<f, i>>
       IN  /\ asked[q] # Nil => asked'[q] = asked[q]
           /\ revealed[q] # Nil => revealed'[q] = revealed[q]
           /\ asked[q] = Nil /\ asked'[q] # Nil =>
                /\ q \in sent /\ revealed'[q] = Nil
                /\ asked'[q].tenant = fwd[f].tenant
                /\ asked'[q].token = fwd[f].payload[i]
                /\ fwd[f].payload[i] \in spent => ~asked'[q].usable
           /\ revealed[q] = Nil /\ revealed'[q] # Nil => asked[q] # Nil /\ asked[q].usable

\* The requests of the proxy see no more of a step of the tokenizer.
LEMMA VaultStepsKeep ==
  ASSUME ProxyInv, VaultSteps, Unchanged, VaultOK', ConsumedOnce'
  PROVE  ProxyInv'
PROOF
  <1> USE DEF Unchanged, callVars, answerVars, clockVars
  <1>1. TypeOK'
    BY DEF ProxyInv, TypeOK
  <1>2. CallsOK'
    <2> SUFFICES ASSUME NEW f \in Forwards, NEW i \in Positions
                 PROVE  LET q == <<f, i>>
                        IN  /\ q \in sent => fwd[f] # Nil /\ fwd[f].payload[i] \in TokenIDs
                            /\ asked'[q] # Nil => /\ q \in sent
                                                  /\ asked'[q].tenant = fwd[f].tenant
                                                  /\ asked'[q].token = fwd[f].payload[i]
                            /\ revealed'[q] # Nil => asked'[q] # Nil /\ asked'[q].usable
      BY DEF CallsOK
    <2> DEFINE q == <<f, i>>
    <2>1. /\ q \in sent => fwd[f] # Nil /\ fwd[f].payload[i] \in TokenIDs
          /\ asked[q] # Nil => /\ q \in sent
                               /\ asked[q].tenant = fwd[f].tenant
                               /\ asked[q].token = fwd[f].payload[i]
          /\ revealed[q] # Nil => asked[q] # Nil /\ asked[q].usable
      BY DEF ProxyInv, CallsOK
    <2>2. CASE asked[q] # Nil
      BY <2>1, <2>2 DEF VaultSteps
    <2>3. CASE asked[q] = Nil
      BY <2>1, <2>3 DEF VaultSteps
    <2> QED
      BY <2>2, <2>3
  <1>3. ASSUME NEW f \in Forwards
        PROVE  ForwardOK(f)'
    BY OtherForwards DEF ProxyInv, VaultSteps
  <1> QED
    BY <1>1, <1>2, <1>3 DEF ProxyInv

\* A call is taken up once, and what is judged is its client's token.
LEMMA VaultAskStep ==
  ASSUME ProxyInv, NEW f \in Forwards, NEW i \in Positions, VaultAsk(f, i)
  PROVE  ProxyInv'
PROOF
  <1> DEFINE q == <<f, i>>
             ask == [tenant |-> fwd[f].tenant, token |-> fwd[f].payload[i],
                     usable |-> fwd[f].payload[i] \notin spent]
  <1>1. /\ q \in Calls /\ q \in sent /\ asked[q] = Nil /\ Unchanged
        /\ asked' = [asked EXCEPT ![q] = ask]
        /\ UNCHANGED <<directory, cvvs, spent, revealed>>
    BY DEF VaultAsk, Vault!Ask, Calls
  <1>2. fwd[f] \in ForwardInputs /\ fwd[f].payload[i] \in TokenIDs
    BY <1>1 DEF ProxyInv, TypeOK, CallsOK
  <1>3. ask \in Vault!Asks /\ ask # Nil /\ revealed[q] = Nil
    <2>1. ask \in Vault!Asks
      BY <1>2 DEF Vault!Asks, ForwardInputs
    <2>2. revealed[q] = Nil
      BY <1>1 DEF ProxyInv, CallsOK
    <2> QED
      BY <2>1, <2>2, NilAssumption
  <1>4. asked'[q] = ask /\ \A r \in Calls : r # q => asked'[r] = asked[r]
    BY <1>1 DEF ProxyInv, VaultOK
  <1>5. VaultOK'
    BY <1>1, <1>3 DEF ProxyInv, VaultOK
  <1>6. Nil \notin CVVs
    BY StringsAssumption
  <1>7. ConsumedOnce'
    BY <1>1, <1>3, <1>4, <1>6 DEF ProxyInv, ConsumedOnce
  <1>8. VaultSteps
    <2>1. /\ ask.tenant = fwd[f].tenant /\ ask.token = fwd[f].payload[i]
          /\ fwd[f].payload[i] \in spent => ~ask.usable
      OBVIOUS
    <2> HIDE DEF ask
    <2>2. ASSUME NEW g \in Forwards, NEW j \in Positions, <<g, j>> # q
          PROVE  asked'[<<g, j>>] = asked[<<g, j>>]
      BY <1>4, <2>2 DEF Calls
    <2>3. ASSUME NEW g \in Forwards, NEW j \in Positions, <<g, j>> = q
          PROVE  g = f /\ j = i
      BY <2>3
    <2> HIDE DEF q
    <2> QED
      BY <1>1, <1>3, <1>4, <2>1, <2>2, <2>3 DEF VaultSteps
  <1> QED
    BY <1>1, <1>5, <1>7, <1>8, VaultStepsKeep

\* A PAN is revealed to any number of calls.
LEMMA RevealPANStep ==
  ASSUME ProxyInv, NEW f \in Forwards, NEW i \in Positions, NEW p \in PANs,
         Vault!RevealPAN(<<f, i>>, p), Unchanged
  PROVE  ProxyInv'
PROOF
  <1> DEFINE q == <<f, i>>
  <1>1. /\ q \in Calls /\ asked[q] # Nil /\ asked[q].usable /\ revealed[q] = Nil
        /\ revealed' = [revealed EXCEPT ![q] = p]
        /\ UNCHANGED <<directory, cvvs, spent, asked>>
    BY DEF Vault!RevealPAN, Calls
  <1>2. revealed'[q] = p /\ \A r \in Calls : r # q => revealed'[r] = revealed[r]
    BY <1>1 DEF ProxyInv, VaultOK
  <1>3. p \notin CVVs
    BY StringsAssumption
  <1>4. VaultOK'
    BY <1>1 DEF ProxyInv, VaultOK, Values
  <1>5. ConsumedOnce'
    BY <1>1, <1>2, <1>3 DEF ProxyInv, ConsumedOnce
  <1>6. VaultSteps
    BY <1>1, <1>2 DEF VaultSteps, Calls
  <1> QED
    BY <1>4, <1>5, <1>6, VaultStepsKeep

\* Only a call that was taken up has been answered.
LEMMA RevealedForTokens ==
  ASSUME ProxyInv
  PROVE  \A r \in Calls : revealed[r] \in CVVs => asked[r].token \in TokenIDs
PROOF
  <1> SUFFICES ASSUME NEW r \in Calls, revealed[r] \in CVVs
               PROVE  asked[r].token \in TokenIDs
    OBVIOUS
  <1>1. asked[r] # Nil
    BY StringsAssumption DEF ProxyInv, CallsOK, Calls
  <1> QED
    BY <1>1 DEF ProxyInv, VaultOK, Vault!Asks

\* A CVV is revealed to the call that takes it away, which no other has done before.
LEMMA RevealCVVStep ==
  ASSUME ProxyInv, NEW f \in Forwards, NEW i \in Positions, NEW c \in CVVs,
         Vault!RevealCVV(<<f, i>>, c), Unchanged
  PROVE  ProxyInv'
PROOF
  <1> DEFINE q == <<f, i>>
             k == asked[q].token
  <1>1. /\ q \in Calls /\ asked[q] # Nil /\ asked[q].usable /\ revealed[q] = Nil
        /\ cvvs[k] = [tenant |-> asked[q].tenant, cvv |-> c]
        /\ cvvs' = [cvvs EXCEPT ![k] = Nil] /\ spent' = spent \cup {k}
        /\ revealed' = [revealed EXCEPT ![q] = c]
        /\ UNCHANGED <<directory, asked>>
    BY DEF Vault!RevealCVV, Calls
  <1>2. asked[q] \in Vault!Asks /\ k \in TokenIDs
    BY <1>1 DEF ProxyInv, VaultOK, Vault!Asks
  <1>3. cvvs[k] # Nil
    BY <1>1, <1>2, NilAssumption DEF Vault!Asks, Vault!LiveCVVs
  <1>4. revealed'[q] = c /\ \A r \in Calls : r # q => revealed'[r] = revealed[r]
    BY <1>1 DEF ProxyInv, VaultOK
  <1>5. cvvs'[k] = Nil /\ \A j \in TokenIDs : j # k => cvvs'[j] = cvvs[j]
    BY <1>1, <1>2 DEF ProxyInv, VaultOK
  <1>6. \A r \in Calls : revealed[r] \in CVVs => asked[r].token # k
    BY <1>3 DEF ProxyInv, ConsumedOnce
  <1>7. \A r \in Calls : revealed[r] \in CVVs => asked[r].token \in TokenIDs
    BY RevealedForTokens
  <1>8. VaultOK'
    BY <1>1, <1>2 DEF ProxyInv, VaultOK, Values
  <1>9. ConsumedOnce'
    BY <1>1, <1>4, <1>5, <1>6, <1>7 DEF ProxyInv, ConsumedOnce
  <1>10. VaultSteps
    BY <1>1, <1>4 DEF VaultSteps, Calls
  <1> QED
    BY <1>8, <1>9, <1>10, VaultStepsKeep

\* A token that dies takes its CVV with it.
LEMMA VaultTokenDiesStep ==
  ASSUME ProxyInv, NEW k \in TokenIDs, VaultTokenDies(k)
  PROVE  ProxyInv'
PROOF
  <1>1. /\ Unchanged /\ spent' = spent \cup {k} /\ UNCHANGED <<directory, asked, revealed>>
        /\ UNCHANGED cvvs \/ cvvs' = [cvvs EXCEPT ![k] = Nil]
    BY DEF VaultTokenDies, Vault!Retire, Vault!DropCVV
  <1>2. \A j \in TokenIDs : cvvs[j] = Nil => cvvs'[j] = Nil
    BY <1>1 DEF ProxyInv, VaultOK
  <1>3. VaultOK'
    BY <1>1 DEF ProxyInv, VaultOK
  <1>4. ConsumedOnce'
    BY <1>1, <1>2, RevealedForTokens DEF ProxyInv, ConsumedOnce
  <1>5. VaultSteps
    BY <1>1 DEF VaultSteps
  <1> QED
    BY <1>1, <1>3, <1>4, <1>5, VaultStepsKeep

-----------------------------------------------------------------------------
(* Time *)

\* A tick is paid for by the call that is waited for.
LEMMA TickStep ==
  ASSUME ProxyInv, Tick
  PROVE  ProxyInv'
PROOF
  <1>1. UNCHANGED <<directory, cvvs, spent, asked, revealed, pc, fwd, payload, at, sent, posted,
                    status, heard, late>>
    BY DEF Tick, vaultVars, callVars, answerVars
  <1>2. ASSUME NEW f \in Forwards, Running(f)
        PROVE  /\ pc[f] \in Pending /\ waited[f] < Timeout(f)
               /\ elapsed'[f] = elapsed[f] + 1 /\ waited'[f] = waited[f] + 1
    BY <1>2 DEF Tick
  <1>3. ASSUME NEW f \in Forwards, ~Running(f)
        PROVE  elapsed'[f] = elapsed[f] /\ waited'[f] = waited[f]
    BY <1>3 DEF Tick, ProxyInv, TypeOK
  <1>4. ASSUME NEW f \in Forwards
        PROVE  /\ elapsed[f] \in Nat /\ elapsed'[f] \in Nat
               /\ waited[f] \in Nat
               /\ waited'[f] \in 0 .. ReadTimeout + DetokenizeTimeout + ForwardTimeout
    <2>1. elapsed[f] \in Nat /\ waited[f] \in 0 .. ReadTimeout + DetokenizeTimeout + ForwardTimeout
      BY DEF ProxyInv, TypeOK
    <2>2. Running(f) =>
            /\ waited[f] < Timeout(f)
            /\ Timeout(f) \in 0 .. ReadTimeout + DetokenizeTimeout + ForwardTimeout
      BY <1>2, TimeoutsAssumption DEF Timeout, Pending
    <2> QED
      BY <1>2, <1>3, <2>1, <2>2, TimeoutsAssumption
  <1>5. TypeOK'
    <2>1. /\ elapsed' = [f \in Forwards |-> elapsed'[f]]
          /\ waited' = [f \in Forwards |-> waited'[f]]
      BY DEF Tick
    <2> QED
      BY <1>1, <1>4, <2>1 DEF ProxyInv, TypeOK
  <1>6. VaultOK' /\ CallsOK' /\ ConsumedOnce'
    BY <1>1 DEF ProxyInv, VaultOK, CallsOK, ConsumedOnce
  <1>7. ASSUME NEW f \in Forwards
        PROVE  ForwardOK(f)'
    <2>1. HandlerOK(f)' /\ PostedOK(f)' /\ LateOK(f)'
      <3>1. \A i \in Positions : \A value : Answers(f, i, value)' = Answers(f, i, value)
        BY <1>1 DEF Answers
      <3>2. HandlerOK(f)'
        BY <1>1, <3>1 DEF ProxyInv, ForwardOK, HandlerOK, Received, TokenPositions
      <3>3. PostedOK(f)'
        BY <1>1, <3>1 DEF ProxyInv, ForwardOK, PostedOK, TokenPositions
      <3>4. LateOK(f)'
        BY <1>1 DEF ProxyInv, ForwardOK, LateOK
      <3> QED
        BY <3>2, <3>3, <3>4
    <2>2. ClocksOK(f)'
      <3>1. ClocksOK(f)
        BY DEF ProxyInv, ForwardOK
      <3>2. CASE ~Running(f)
        BY <1>1, <1>3, <3>1, <3>2 DEF ClocksOK, Running, Received, Pending
      <3>3. ASSUME Running(f)
            PROVE  waited'[f] <= Timeout(f) /\ Timeout(f)' = Timeout(f)
        BY <1>1, <1>2, <1>4, <3>3, TimeoutsAssumption DEF Timeout, Pending
      <3>4. CASE pc[f] = "decode"
        <4>1. elapsed'[f] <= waited'[f]
          BY <1>2, <1>4, <3>1, <3>4 DEF ClocksOK, Running, Pending
        <4> QED
          BY <1>1, <3>3, <3>4, <4>1 DEF ClocksOK, Running, Received, Pending
      <3>5. CASE Received(f)
        <4> DEFINE n == DetokenizeTimeout * Cardinality(TokenPositions(payload[f]))
                   m == DetokenizeTimeout * Cardinality(TokenPositions(fwd[f].payload))
        <4>1. n \in Nat /\ m \in Nat /\ ReadTimeout \in Nat
          BY TokenCount, TimeoutsAssumption
        <4>2. elapsed[f] + n <= ReadTimeout + m + waited[f]
          BY <3>1, <3>5 DEF ClocksOK
        <4>3. Running(f)
          BY <3>5 DEF Running, Received, Pending
        <4>4. /\ elapsed'[f] = elapsed[f] + 1 /\ waited'[f] = waited[f] + 1
              /\ elapsed[f] \in Nat /\ waited[f] \in Nat
          BY <1>2, <1>4, <4>3
        <4> HIDE DEF n, m
        <4>5. elapsed'[f] + n <= ReadTimeout + m + waited'[f]
          BY <4>1, <4>2, <4>4
        <4> QED
          BY <1>1, <1>2, <3>3, <3>5, <4>3, <4>5
          DEF ClocksOK, Running, Received, Pending, n, m
      <3> QED
        BY <3>2, <3>4, <3>5 DEF Running, Received, Pending
    <2> QED
      BY <2>1, <2>2 DEF ForwardOK
  <1> QED
    BY <1>5, <1>6, <1>7 DEF ProxyInv

-----------------------------------------------------------------------------
(* The theorems *)

\* Nothing has been received, asked or posted at the start.
LEMMA ProxyInit == Init => ProxyInv
PROOF
  <1> SUFFICES ASSUME Init PROVE ProxyInv
    OBVIOUS
  <1>1. TypeOK
    BY TimeoutsAssumption DEF Init, TypeOK, NoPayload, Strings
  <1>2. VaultOK /\ CallsOK /\ ConsumedOnce
    BY StringsAssumption DEF Init, VaultInit, VaultOK, CallsOK, ConsumedOnce, Values, Calls
  <1>3. ASSUME NEW f \in Forwards PROVE ForwardOK(f)
    BY DEF Init, VaultInit, ForwardOK, HandlerOK, PostedOK, LateOK, ClocksOK, Running, Received,
           Pending
  <1> QED
    BY <1>1, <1>2, <1>3 DEF ProxyInv

\* Every step keeps the invariant.
LEMMA ProxyNext == ProxyInv /\ [Next]_vars => ProxyInv'
PROOF
  <1> SUFFICES ASSUME ProxyInv, [Next]_vars PROVE ProxyInv'
    OBVIOUS
  <1>1. CASE UNCHANGED vars
    <2>1. UNCHANGED <<directory, cvvs, spent, asked, revealed, pc, fwd, payload, at, sent, posted,
                      status, heard, elapsed, waited, late>>
      BY <1>1 DEF vars, vaultVars, callVars, answerVars, clockVars
    <2>2. TypeOK'
      BY <2>1 DEF ProxyInv, TypeOK
    <2>3. VaultOK' /\ CallsOK' /\ ConsumedOnce'
      BY <2>1 DEF ProxyInv, VaultOK, CallsOK, ConsumedOnce
    <2>4. ASSUME NEW f \in Forwards PROVE ForwardOK(f)'
      BY <2>1, OtherForwards DEF ProxyInv
    <2> QED
      BY <2>2, <2>3, <2>4 DEF ProxyInv
  <1>2. ASSUME NEW f \in Forwards, Reject(f) \/ Arrive(f) \/ Serve(f) \/ Crash(f)
        PROVE  ProxyInv'
    BY <1>2, ArriveStep, DetokenizeStep, DetokenizeAnsweredStep, ForwardStep, ReturnSteps
    DEF Serve
  <1>3. ASSUME NEW f \in Forwards, NEW i \in Positions, VaultAsk(f, i) \/ VaultReveal(f, i)
        PROVE  ProxyInv'
    BY <1>3, VaultAskStep, RevealPANStep, RevealCVVStep DEF VaultReveal
  <1> QED
    BY <1>1, <1>2, <1>3, ReceiveStep, VaultTokenDiesStep, TickStep DEF Next

\* The inductive invariant holds of every behaviour.
THEOREM ProxyInvariant == Spec => []ProxyInv
PROOF
  <1> QED
    BY ProxyInit, ProxyNext, PTL DEF Spec

\* All variables of the proxy keep their types.
THEOREM ProxyTypes == Spec => []TypeOK
PROOF
  <1>1. ProxyInv => TypeOK
    BY DEF ProxyInv
  <1> QED
    BY <1>1, ProxyInvariant, PTL

\* ScanAndReveal replaces every token before Forward, each by what was revealed for
\* it to the client's tenant, and the first error ends the request (forward.go).
THEOREM OnlyRevealedIsPosted == Spec => []PostsRevealedValues
PROOF
  <1>1. ProxyInv => PostsRevealedValues
    <2> SUFFICES ASSUME ProxyInv, NEW f \in Forwards, posted[f] # Nil, NEW i \in Positions,
                        Answers(f, i, posted[f][i])
                 PROVE  \/ /\ posted[f][i] # Nil
                           /\ \E q \in Calls : /\ asked[q] # Nil /\ revealed[q] = posted[f][i]
                                               /\ asked[q].token = fwd[f].payload[i]
                                               /\ asked[q].tenant = fwd[f].tenant
                        \/ /\ posted[f][i] = Nil
                           /\ \E p \in PANs :
                                directory[<<fwd[f].tenant, p>>] = fwd[f].payload[i]
      BY DEF PostsRevealedValues, ProxyInv, ForwardOK, PostedOK
    <2>1. /\ <<f, i>> \in Calls
          /\ asked[<<f, i>>] # Nil
          /\ asked[<<f, i>>].token = fwd[f].payload[i]
          /\ asked[<<f, i>>].tenant = fwd[f].tenant
      BY DEF ProxyInv, CallsOK, Answers, Calls
    <2> QED
      BY <2>1 DEF Answers
  <1> QED
    BY <1>1, ProxyInvariant, PTL

\* A CVV that has been posted was revealed to the call of that place, and GETDEL
\* gives it to one call only: it cannot be posted from anywhere else.
THEOREM CVVsArePostedOnce == Spec => []CVVPostedOnce
PROOF
  <1>1. ProxyInv => CVVPostedOnce
    <2>1. ASSUME ProxyInv, NEW f \in Forwards, NEW i \in Positions,
                 posted[f] # Nil, posted[f][i] \in CVVs
          PROVE  /\ <<f, i>> \in Calls /\ revealed[<<f, i>>] \in CVVs
                 /\ asked[<<f, i>>].token = fwd[f].payload[i]
      <3>1. Answers(f, i, posted[f][i])
        BY <2>1, StringsAssumption DEF ProxyInv, ForwardOK, PostedOK
      <3> QED
        BY <2>1, <3>1, StringsAssumption DEF Answers, ProxyInv, CallsOK, Calls
    <2> SUFFICES ASSUME ProxyInv, NEW f \in Forwards, NEW g \in Forwards,
                        NEW i \in Positions, NEW j \in Positions,
                        posted[f] # Nil, posted[f][i] \in CVVs,
                        posted[g] # Nil, posted[g][j] \in CVVs,
                        fwd[f].payload[i] = fwd[g].payload[j]
                 PROVE  f = g /\ i = j
      BY DEF CVVPostedOnce
    <2>2. <<f, i>> = <<g, j>>
      <3>1. /\ <<f, i>> \in Calls /\ revealed[<<f, i>>] \in CVVs
            /\ asked[<<f, i>>].token = fwd[f].payload[i]
        BY <2>1
      <3>2. /\ <<g, j>> \in Calls /\ revealed[<<g, j>>] \in CVVs
            /\ asked[<<g, j>>].token = fwd[g].payload[j]
        BY <2>1
      <3> QED
        BY <3>1, <3>2 DEF ProxyInv, ConsumedOnce
    <2> QED
      BY <2>2
  <1> QED
    BY <1>1, ProxyInvariant, PTL

\* A 404 comes from the walk, before anything is sent, and the handler returns.
THEOREM FailedRequestsPostNothing == Spec => []NothingPostedOnFailure
PROOF
  <1>1. ProxyInv => NothingPostedOnFailure
    BY DEF ProxyInv, ForwardOK, PostedOK, NothingPostedOnFailure
  <1> QED
    BY <1>1, ProxyInvariant, PTL

\* The call for a token that was dead when the body was read finds it dead, whenever
\* it is taken up, and the walk gets no further.
THEOREM DeadTokensAreNeverPosted == Spec => []DeadTokensStayHome
PROOF
  <1>1. ProxyInv => DeadTokensStayHome
    BY DEF ProxyInv, ForwardOK, LateOK, DeadTokensStayHome
  <1> QED
    BY <1>1, ProxyInvariant, PTL

\* The handler answers in time: the body is read by the read deadline (server.go), and
\* each call ends by the timeout of tokenizer_client or forwarder.
THEOREM RequestsAreServedInTime == Spec => []ServedInTime
PROOF
  <1>1. ProxyInv => ServedInTime
    <2> SUFFICES ASSUME ProxyInv, NEW f \in Forwards
                 PROVE  elapsed[f] <= ReadTimeout +
                          (IF fwd[f] = Nil THEN 0
                           ELSE DetokenizeTimeout * Cardinality(TokenPositions(fwd[f].payload))
                                  + ForwardTimeout)
      BY DEF ServedInTime
    <2> DEFINE n == Cardinality(TokenPositions(payload[f]))
               m == DetokenizeTimeout * Cardinality(TokenPositions(fwd[f].payload))
    <2>1. HandlerOK(f) /\ ClocksOK(f) /\ elapsed[f] \in Nat /\ waited[f] \in Nat
      BY DEF ProxyInv, TypeOK, ForwardOK
    <2>2. /\ n \in Nat /\ m \in Nat /\ DetokenizeTimeout * n \in Nat /\ ReadTimeout \in Nat
          /\ DetokenizeTimeout \in Nat /\ ForwardTimeout \in Nat
      BY TokenCount, TimeoutsAssumption
    <2>3. CASE ~Received(f)
      <3>1. elapsed[f] <= ReadTimeout
        <4>1. CASE pc[f] = "decode"
          <5>1. elapsed[f] <= waited[f] /\ waited[f] <= ReadTimeout
            BY <2>1, <4>1 DEF ClocksOK, Pending, Timeout
          <5> QED
            BY <2>1, <2>2, <5>1
        <4>2. CASE pc[f] # "decode"
          BY <2>1, <2>2, <2>3, <4>2 DEF ClocksOK, Running, Received, Pending
        <4> QED
          BY <4>1, <4>2
      <3> HIDE DEF m
      <3> QED
        BY <2>1, <2>2, <3>1 DEF m
    <2>4. CASE Received(f)
      <3>1. fwd[f] # Nil /\ elapsed[f] + DetokenizeTimeout * n <= ReadTimeout + m + waited[f]
        BY <2>1, <2>4 DEF HandlerOK, ClocksOK
      <3>2. CASE pc[f] = "detokenize"
        <4>1. n # 0
          BY <2>1, <3>2, TokenCount, FS_EmptySet DEF HandlerOK
        <4>2. DetokenizeTimeout * (n - 1) = DetokenizeTimeout * n - DetokenizeTimeout
          BY <2>2, <4>1, OneTimeoutLess
        <4>3. waited[f] <= DetokenizeTimeout
          BY <2>1, <3>2 DEF ClocksOK, Pending, Timeout
        <4>4. n - 1 \in Nat
          BY <2>2, <4>1
        <4> HIDE DEF n, m
        <4>5. DetokenizeTimeout * (n - 1) \in Nat
          BY <2>2, <4>4
        <4>6. elapsed[f] <= ReadTimeout + m
          BY <2>1, <2>2, <3>1, <4>2, <4>3, <4>5
        <4> QED
          BY <2>1, <2>2, <3>1, <4>6 DEF m
      <3>3. CASE pc[f] # "detokenize"
        <4>1. waited[f] <= ForwardTimeout
          BY <2>1, <2>2, <2>4, <3>3 DEF ClocksOK, Received, Pending, Timeout
        <4> HIDE DEF n, m
        <4>2. elapsed[f] <= ReadTimeout + m + ForwardTimeout
          BY <2>1, <2>2, <3>1, <4>1
        <4> QED
          BY <2>1, <2>2, <3>1, <4>2 DEF m
      <3> QED
        BY <3>2, <3>3
    <2> QED
      BY <2>3, <2>4
  <1> QED
    BY <1>1, ProxyInvariant, PTL
===============================================================================

-------------------------------- MODULE Proxy --------------------------------
(***************************************************************************)
(* The proxy: any number of concurrent forward requests.  Each one has the *)
(* tokenizer reveal the tokens of its payload one after the other, then    *)
(* sends the payload to the destination.  The tokenizer is VaultContract,  *)
(* which Tokenizer implements; between the two services are HTTP calls     *)
(* that may be lost before or after they took effect, and timeouts.        *)
(***************************************************************************)
EXTENDS Integers, FiniteSets

CONSTANTS
  Forwards,      \* requests to POST /proxy/forward; each one is served once
  Positions,     \* the places of a payload that hold strings
  Tenants, PANs, CVVs, TokenIDs, Nil,
  Plain,         \* a string that does not match tokenPattern
  Zeros,         \* what wiping leaves of a string
  Faults,        \* a subset of AllFaults
  \* In ticks of the clock: the deadlines of the server for the body and for the
  \* answer, from the headers on, and the timeouts of its two clients.
  ReadTimeout, WriteTimeout, DetokenizeTimeout, ForwardTimeout

AllFaults == {"network", "crash"}

ASSUME FaultsAssumption == Faults \subseteq AllFaults
ASSUME TimeoutsAssumption ==
  {ReadTimeout, WriteTimeout, DetokenizeTimeout, ForwardTimeout} \subseteq Nat \ {0}
\* The body of a request is finite.
ASSUME PositionsAssumption == IsFiniteSet(Positions)
\* A PAN has 13 to 19 digits, a CVV 3 or 4, a token starts with "tok_", and wiping
\* leaves zero bytes.
ASSUME StringsAssumption ==
  /\ PANs \cap CVVs = {}
  /\ TokenIDs \cap (PANs \cup CVVs \cup {Nil, Plain}) = {}
  /\ {Nil, Plain, Zeros} \cap (PANs \cup CVVs) = {}

VARIABLES
  directory, cvvs, spent, asked, revealed,   \* the tokenizer, see VaultContract
  pc,        \* pc[f]: what the handler of f does next or waits for
  fwd,       \* fwd[f]: tenant and payload of f, Nil before its body has been read
  payload,   \* payload[f]: the payload, in which tokens are replaced in place
  at,        \* at[f]: the position being revealed, or Nil
  sent,      \* detokenize calls that have been handed to the network
  posted,    \* posted[f]: what the destination of f may have read by now, or Nil
  status,    \* status[f]: the HTTP status of the answer, 0 before that
  heard,     \* heard[f]: the answer was written before the write deadline
  elapsed,   \* elapsed[f]: time since the headers of f were read, 0 after the answer
  waited,    \* waited[f]: how long f has been waiting for what it waits for
  late       \* history: one of f's tokens was already dead when its body was read

vaultVars == <<directory, cvvs, spent, asked, revealed>>
callVars == <<fwd, payload, at, sent, posted>>
answerVars == <<status, heard>>
clockVars == <<elapsed, waited>>
vars == <<vaultVars, pc, callVars, answerVars, clockVars, late>>

\* A position is revealed by one call, which is never repeated.
Calls == Forwards \X Positions
Vault == INSTANCE VaultContract WITH Clients <- Calls

Strings == TokenIDs \cup {Plain}
Values == PANs \cup CVVs \cup {Nil}     \* Nil is the empty string
ForwardInputs == [tenant : Tenants, payload : [Positions -> Strings]]

ASSUME NilAssumption == Nil \notin ForwardInputs \cup Vault!Asks \cup Vault!LiveCVVs

Pending == {"decode", "detokenize", "forward"}  \* waiting for the client or a service
Running(f) == pc[f] \in {"reveal"} \cup Pending
NoPayload == [i \in Positions |-> Plain]
TokenPositions(body) == {i \in Positions : body[i] \in TokenIDs}

TypeOK ==
  /\ pc \in [Forwards -> {"idle", "reveal", "done", "gone"} \cup Pending]
  /\ fwd \in [Forwards -> ForwardInputs \cup {Nil}]
  /\ payload \in [Forwards -> [Positions -> Strings \cup Values]]
  /\ at \in [Forwards -> Positions \cup {Nil}]
  /\ sent \subseteq Calls
  /\ posted \in [Forwards -> [Positions -> Strings \cup Values \cup {Zeros}] \cup {Nil}]
  /\ status \in [Forwards -> {0, 200, 400, 404, 502}]
  /\ heard \in [Forwards -> BOOLEAN]
  /\ elapsed \in [Forwards -> Nat]
  /\ waited \in [Forwards -> 0 .. ReadTimeout + DetokenizeTimeout + ForwardTimeout]
  /\ late \in [Forwards -> BOOLEAN]

\* The tokens that clients are going to use have been issued: one issued later
\* is a token that is not used until then.  A token nobody has been given is in
\* neither place.
VaultInit ==
  /\ directory \in [Vault!Cards -> TokenIDs \cup {Nil}]
  /\ \A x, y \in Vault!Cards : directory[x] = directory[y] => x = y \/ directory[x] = Nil
  /\ cvvs \in [TokenIDs -> Vault!LiveCVVs \cup {Nil}]
  /\ \A k \in TokenIDs : Vault!Bound(k) => cvvs[k] = Nil
  /\ spent = {}
  /\ asked = [q \in Calls |-> Nil]
  /\ revealed = [q \in Calls |-> Nil]

Init ==
  /\ VaultInit
  /\ pc = [f \in Forwards |-> "idle"]
  /\ fwd = [f \in Forwards |-> Nil]
  /\ payload = [f \in Forwards |-> NoPayload]
  /\ at = [f \in Forwards |-> Nil]
  /\ sent = {}
  /\ posted = [f \in Forwards |-> Nil]
  /\ status = [f \in Forwards |-> 0]
  /\ heard = [f \in Forwards |-> FALSE]
  /\ elapsed = [f \in Forwards |-> 0]
  /\ waited = [f \in Forwards |-> 0]
  /\ late = [f \in Forwards |-> FALSE]

Goto(f, step) ==
  /\ pc' = [pc EXCEPT ![f] = step]
  /\ UNCHANGED answerVars

\* The handler returns: its variables and timers are gone.
Return(f, end) ==
  /\ pc' = [pc EXCEPT ![f] = end]
  /\ payload' = [payload EXCEPT ![f] = NoPayload]
  /\ at' = [at EXCEPT ![f] = Nil]
  /\ elapsed' = [elapsed EXCEPT ![f] = 0]
  /\ waited' = [waited EXCEPT ![f] = 0]

\* The answer reaches the client unless the write deadline of the server, set
\* when the headers were read, has passed; the handler does not notice.
Reply(f, c) ==
  /\ Return(f, "done")
  /\ status' = [status EXCEPT ![f] = c]
  /\ heard' = [heard EXCEPT ![f] = elapsed[f] < WriteTimeout]

-----------------------------------------------------------------------------
(* Arrival: the headers, then the decoding of the body *)

\* BearerAuth or ExtractTenantHeader refuses the headers.
Reject(f) ==
  /\ pc[f] = "idle"
  /\ Reply(f, 400)
  /\ UNCHANGED <<vaultVars, fwd, sent, posted, late>>

\* They pass, and the handler waits for the body to decode it.
Arrive(f) ==
  /\ pc[f] = "idle"
  /\ Goto(f, "decode")
  /\ UNCHANGED <<vaultVars, callVars, clockVars, late>>

\* The body is no JSON, has no destination, breaks off, or is not complete at the
\* read deadline, which was set before the headers were read.
DecodeFails(f) ==
  /\ pc[f] = "decode"
  /\ Reply(f, 400)
  /\ UNCHANGED <<vaultVars, fwd, sent, posted, late>>

\* The proxy takes the tenant from the header without looking it up.
Receive(f, a) ==
  /\ pc[f] = "decode"
  /\ fwd' = [fwd EXCEPT ![f] = a]
  /\ payload' = [payload EXCEPT ![f] = a.payload]
  /\ waited' = [waited EXCEPT ![f] = 0]
  /\ late' = [late EXCEPT ![f] = \E i \in Positions : a.payload[i] \in spent]
  /\ Goto(f, "reveal")
  /\ UNCHANGED <<vaultVars, at, sent, posted, elapsed>>

-----------------------------------------------------------------------------
(* Revealer.ScanAndReveal *)

\* The walk visits a JSON object in random order, so any token may be next.
Detokenize(f) ==
  /\ pc[f] = "reveal"
  /\ \E i \in TokenPositions(payload[f]) :
       /\ at' = [at EXCEPT ![f] = i]
       /\ sent' = sent \cup {<<f, i>>}
  /\ Goto(f, "detokenize")
  /\ UNCHANGED <<vaultVars, fwd, payload, posted, clockVars, late>>

Replace(f, value) ==
  /\ payload' = [payload EXCEPT ![f][at[f]] = value]
  /\ at' = [at EXCEPT ![f] = Nil]
  /\ waited' = [waited EXCEPT ![f] = 0]
  /\ Goto(f, "reveal")

\* Mutant: the empty answer is taken for a missing one and nulls the payload.
DetokenizeAnsweredNull(f) ==
  /\ pc[f] = "detokenize" /\ asked[<<f, at[f]>>] # Nil
  /\ payload' = [payload EXCEPT ![f] = Nil]
  /\ UNCHANGED <<at, waited>>
  /\ Goto(f, "reveal")
  /\ UNCHANGED <<vaultVars, fwd, sent, posted, elapsed, late>>

\* Mutant: values are cached by token across requests.
DetokenizeAnsweredCached(f) ==
  /\ pc[f] = "detokenize"
  /\ LET k == payload[f][at[f]]
     IN  \E q \in Calls :
           /\ asked[q] # Nil /\ asked[q].token = k /\ revealed[q] # Nil
           /\ Replace(f, revealed[q])
  /\ UNCHANGED <<vaultVars, fwd, sent, posted, elapsed, late>>

\* The tokenizer answers 200 with the value; or with an empty value when the
\* vault entry of a PAN token is not there, which passes for a value.
DetokenizeAnswered(f) ==
  /\ pc[f] = "detokenize"
  /\ LET q == <<f, at[f]>>
     IN  /\ asked[q] # Nil
         /\ \/ revealed[q] # Nil /\ Replace(f, revealed[q])
            \/ /\ revealed[q] = Nil /\ asked[q].usable
               /\ \E p \in PANs : directory[<<asked[q].tenant, p>>] = asked[q].token
               /\ Replace(f, Nil)
  /\ UNCHANGED <<vaultVars, fwd, sent, posted, elapsed, late>>

\* The connection fails at any stage of the call, the client's timeout is over,
\* or else the tokenizer refuses with 404 or fails with 500.
DetokenizeError(f) ==
  /\ pc[f] = "detokenize"
  /\ "network" \notin Faults /\ waited[f] < DetokenizeTimeout =>
       asked[<<f, at[f]>>] # Nil /\ revealed[<<f, at[f]>>] = Nil

\* Mutant: a token that cannot be revealed stays where it is.
DetokenizeFailsKeep(f) ==
  /\ DetokenizeError(f)
  /\ posted' = [posted EXCEPT ![f] = payload[f]]
  /\ waited' = [waited EXCEPT ![f] = 0]
  /\ Goto(f, "forward")
  /\ UNCHANGED <<vaultVars, fwd, payload, at, sent, elapsed, late>>

\* Mutant: the handler goes on after it has answered.
DetokenizeFailsNoReturn(f) ==
  /\ DetokenizeError(f)
  /\ posted' = [posted EXCEPT ![f] = payload[f]]
  /\ Reply(f, 404)
  /\ UNCHANGED <<vaultVars, fwd, sent, late>>

\* Mutant: a call that timed out is tried again.
DetokenizeFailsRetry(f) ==
  /\ DetokenizeError(f)
  /\ waited' = [waited EXCEPT ![f] = 0]
  /\ UNCHANGED <<vaultVars, pc, callVars, answerVars, elapsed, late>>

\* The first error ends the walk: tokens already revealed are not given back.
DetokenizeFails(f) ==
  /\ DetokenizeError(f)
  /\ Reply(f, 404)
  /\ UNCHANGED <<vaultVars, fwd, sent, posted, late>>

-----------------------------------------------------------------------------
(* Forwarder.Forward *)

Wipe(body, unread) == [i \in Positions |-> IF i \in unread THEN Zeros ELSE body[i]]

\* Mutant: the payload is wiped as soon as it has been handed over.
ForwardWipesFirst(f) ==
  /\ pc[f] = "reveal"
  /\ TokenPositions(payload[f]) = {}
  /\ \E unread \in SUBSET Positions :
       posted' = [posted EXCEPT ![f] = Wipe(payload[f], unread)]
  /\ Goto(f, "forward")
  /\ UNCHANGED <<vaultVars, fwd, payload, at, sent, clockVars, late>>

\* A destination or method no request can be made of is found out only here,
\* after the tokens have been revealed.
Forward(f) ==
  /\ pc[f] = "reveal"
  /\ TokenPositions(payload[f]) = {}
  /\ \/ /\ posted' = [posted EXCEPT ![f] = payload[f]]
        /\ Goto(f, "forward")
        /\ UNCHANGED <<payload, at, clockVars>>
     \/ UNCHANGED posted /\ Reply(f, 502)
  /\ UNCHANGED <<vaultVars, fwd, sent, late>>

\* Whatever status the destination gives travels in the body of a 200.  Then the
\* payload is wiped.  A destination may answer before it has read all of it: the
\* transport is still sending from that buffer, and what it reads now are zeros.
ForwardAnswered(f) ==
  /\ pc[f] = "forward"
  /\ \E unread \in SUBSET Positions :
       posted' = [posted EXCEPT ![f] = Wipe(posted[f], unread)]
  /\ Reply(f, 200)
  /\ UNCHANGED <<vaultVars, fwd, sent, late>>

\* The destination cannot be reached, its answer not be read, or it is too late:
\* the payload may have arrived all the same.
ForwardFails(f) ==
  /\ pc[f] = "forward"
  /\ waited[f] < ForwardTimeout => "network" \in Faults
  /\ Reply(f, 502)
  /\ UNCHANGED <<vaultVars, fwd, sent, posted, late>>

-----------------------------------------------------------------------------
(* The tokenizer, the clients and time *)

Unchanged == UNCHANGED <<pc, callVars, answerVars, clockVars, late>>

\* The tokenizer takes up a call whether or not the proxy still waits for it.
VaultAsk(f, i) ==
  /\ <<f, i>> \in sent
  /\ Vault!Ask(<<f, i>>, fwd[f].tenant, fwd[f].payload[i])
  /\ Unchanged

VaultReveal(f, i) ==
  /\ \/ \E p \in PANs : Vault!RevealPAN(<<f, i>>, p)
     \/ \E c \in CVVs : Vault!RevealCVV(<<f, i>>, c)
  /\ Unchanged

\* A token is deactivated, or its CVV expires or is replaced.
VaultTokenDies(k) ==
  /\ k \notin spent
  /\ Vault!Retire(k) \/ Vault!DropCVV(k)
  /\ Unchanged

\* The proxy dies, or the client goes away and the context of f is cancelled.
Crash(f) ==
  /\ "crash" \in Faults
  /\ Running(f)
  /\ Return(f, "gone")
  /\ UNCHANGED <<vaultVars, fwd, sent, posted, answerVars, late>>

\* What bounds a wait.
Timeout(f) ==
  CASE pc[f] = "decode"     -> ReadTimeout
    [] pc[f] = "detokenize" -> DetokenizeTimeout
    [] pc[f] = "forward"    -> ForwardTimeout

\* Time passes only while handlers wait, and never beyond a timeout: what the
\* proxy does itself takes next to no time.
Tick ==
  /\ {f \in Forwards : pc[f] \in Pending} # {}
  /\ \A f \in Forwards : Running(f) => pc[f] \in Pending /\ waited[f] < Timeout(f)
  /\ elapsed' = [f \in Forwards |-> elapsed[f] + (IF Running(f) THEN 1 ELSE 0)]
  /\ waited' = [f \in Forwards |-> waited[f] + (IF Running(f) THEN 1 ELSE 0)]
  /\ UNCHANGED <<vaultVars, pc, callVars, answerVars, late>>

Serve(f) ==
  \/ DecodeFails(f)
  \/ Detokenize(f)
  \/ DetokenizeAnswered(f)
  \/ DetokenizeFails(f)
  \/ Forward(f)
  \/ ForwardAnswered(f)
  \/ ForwardFails(f)

Next ==
  \/ \E f \in Forwards : Reject(f) \/ Arrive(f) \/ Serve(f) \/ Crash(f)
  \/ \E f \in Forwards, a \in ForwardInputs : Receive(f, a)
  \/ \E f \in Forwards, i \in Positions : VaultAsk(f, i) \/ VaultReveal(f, i)
  \/ \E k \in TokenIDs : VaultTokenDies(k)
  \/ Tick

Spec == Init /\ [][Next]_vars

-----------------------------------------------------------------------------
(* Safety *)

\* Whatever leaves for the destination has every token replaced, by what the
\* tokenizer revealed for that very token to the client's own tenant; only a PAN
\* token whose vault entry is missing may be replaced by an empty string, and
\* zeros may be read only by a destination that has answered already.
PostsRevealedValues ==
  \A f \in Forwards : posted[f] # Nil =>
    \A i \in Positions :
      LET k == fwd[f].payload[i]
          value == posted[f][i]
      IN  \/ k = Plain /\ value = Plain
          \/ /\ value # Nil
             /\ \E q \in Calls : /\ asked[q] # Nil /\ revealed[q] = value
                                 /\ asked[q].token = k
                                 /\ asked[q].tenant = fwd[f].tenant
          \/ value = Nil /\ \E p \in PANs : directory[<<fwd[f].tenant, p>>] = k
          \/ value = Zeros /\ status[f] = 200

\* The CVV behind a token leaves for a destination once at most, however often
\* clients send the token again after a failure, and even if one payload holds
\* it twice.
CVVPostedOnce ==
  \A f, g \in Forwards : \A i, j \in Positions :
    /\ posted[f] # Nil /\ posted[f][i] \in CVVs
    /\ posted[g] # Nil /\ posted[g][j] \in CVVs
    /\ fwd[f].payload[i] = fwd[g].payload[j]
    => f = g /\ i = j

\* A client told that a token could not be revealed knows that nothing has been
\* sent to the destination, and nothing will (001 spec.md:93-96).
NothingPostedOnFailure ==
  \A f \in Forwards : status[f] = 404 => posted[f] = Nil

\* A forward request with a token that is deactivated, used, expired or replaced
\* by the time its body has been read never gets to the destination.
DeadTokensStayHome ==
  \A f \in Forwards : late[f] => posted[f] = Nil

\* The read deadline and the two client timeouts bound how long a handler works
\* on a request before it answers: the reading of the body, one call to the
\* tokenizer for each token and one to the destination.  All of it counts against
\* the write deadline.
ServedInTime ==
  \A f \in Forwards :
    LET callTimes == IF fwd[f] = Nil THEN 0
                     ELSE DetokenizeTimeout * Cardinality(TokenPositions(fwd[f].payload))
                            + ForwardTimeout
    IN  elapsed[f] <= ReadTimeout + callTimes

-----------------------------------------------------------------------------
(* A statement of the documents under specs/ that the code does not keep *)

\* When the destination does not answer the client is told so (001 spec.md:175).
ProviderErrorHeard ==
  \A f \in Forwards : status[f] = 502 => heard[f]
===============================================================================

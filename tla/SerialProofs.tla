----------------------------- MODULE SerialProofs -----------------------------
(***************************************************************************)
(* What holds when requests are served one at a time (MaxInFlight = 1):    *)
(* minting succeeds, a detokenize call finds the vault entry of every      *)
(* token, and one CVV token of a PAN token stays in Redis.  Each theorem   *)
(* names the services that may not fail for it; the others may.            *)
(***************************************************************************)
EXTENDS AnswerProofs, FiniteSetTheorems

Act(r) == Tokenize(r) \/ UseToken(r) \/ Crash(r)

\* What no handler changes: the background of tenants, expiries and stuttering.
Background ==
  \/ \E t \in Tenants : TenantDeactivated(t)
  \/ \E t \in Tenants, k \in TokenIDs : RedisExpiry(t, k)
  \/ UNCHANGED vars

-----------------------------------------------------------------------------
(* One request at a time *)

\* A handler that takes a step is being served.
LEMMA ActorsAreInFlight ==
  ASSUME NEW r \in Requests, Act(r)
  PROVE  r \in InFlight
PROOF
  BY DEF Act, InFlight, Tokenize, UseToken, Crash, TokenizeFindByBlindIndex, TokenizeEncryptPAN,
         TokenizeTokenCreate, TokenizeVaultCreate, TokenizeAuditPAN, TokenizeStoreCVVToken,
         TokenizeGetOwner, TokenizeDelPrevious, TokenizeSetOwner, TokenizeAuditCVV,
         DetokenizeFindByTokenID, DetokenizeDecryptPAN, DetokenizeUpdateLastUsed,
         DetokenizeRetrieveCVVToken, StatusFindByTokenID, StatusExistsCVVToken,
         DeactivateFindByTokenID, DeactivateUpdateStatus, AuditAndAnswer,
         Steps, TokenizeSteps, TokenSteps

\* A step that is not one of an arriving request or of a handler.
LEMMA BackgroundSteps ==
  ASSUME Background
  PROVE  /\ UNCHANGED <<tokens, vault, handlerVars>>
         /\ TypeOK => \A t \in Tenants : tenants'[t] = "absent" <=> tenants[t] = "absent"
PROOF
  BY DEF Background, TenantDeactivated, DeactivateTenant, RedisExpiry, vars, dbVars, TypeOK,
         DbTypeOK

\* The next request is taken up when no other one is being served.
LEMMA ArrivalAlone ==
  ASSUME OneAtATime, MaxInFlight = 1, NEW r \in Requests, Receive(r)
  PROVE  InFlight = {}
PROOF
  <1>1. Cardinality(InFlight) < 1
    BY DEF Receive, Begin
  <1>2. ASSUME NEW s \in InFlight
        PROVE  FALSE
    <2>1. InFlight = {s}
      BY DEF OneAtATime
    <2>2. Cardinality({s}) = 1
      BY FS_Singleton
    <2> QED
      BY <1>1, <2>1, <2>2
  <1> QED
    BY <1>2

\* While s is being served, its own handler or the background takes the step, or
\* a request is rejected.
LEMMA Alone ==
  ASSUME OneAtATime, MaxInFlight = 1, [Next]_vars, NEW s \in InFlight
  PROVE  Act(s) \/ Background \/ \E r \in Requests : Reject(r)
PROOF
  <1>1. ASSUME NEW r \in Requests, Act(r)
        PROVE  Act(s)
    BY <1>1, ActorsAreInFlight DEF OneAtATime
  <1>2. \A r \in Requests : ~ Receive(r)
    BY ArrivalAlone
  <1> QED
    BY <1>1, <1>2 DEF Next, Act, Background

\* A handler that is being served was so before, or has just been taken up.
LEMMA InFlightStep ==
  ASSUME TypeOK, [Next]_vars, NEW s \in Requests, s \in InFlight'
  PROVE  s \in InFlight \/ Receive(s)
PROOF
  <1>1. ASSUME NEW r \in Requests, Reject(r) \/ Receive(r) \/ Act(r)
        PROVE  s \in InFlight \/ Receive(s)
    <2>1. CASE s # r
      BY <1>1, <2>1, OthersStay DEF InFlight, Act
    <2>2. CASE s = r
      <3>1. ~ Reject(r)
        BY <2>2 DEF Reject, Reply, InFlight, TypeOK, Steps, TokenizeSteps, TokenSteps
      <3> QED
        BY <1>1, <2>2, <3>1, ActorsAreInFlight
    <2> QED
      BY <2>1, <2>2
  <1>2. CASE Background
    BY <1>2, BackgroundSteps DEF handlerVars, InFlight
  <1> QED
    BY <1>1, <1>2 DEF Next, Act, Background

\* Every step leaves one request at most being served.
LEMMA OneAtATimeStep ==
  ASSUME TypeOK, OneAtATime, MaxInFlight = 1, [Next]_vars
  PROVE  OneAtATime'
PROOF
  <1> SUFFICES ASSUME NEW r \in InFlight', NEW s \in InFlight'
               PROVE  r = s
    BY DEF OneAtATime
  <1>1. r \in Requests /\ s \in Requests
    BY DEF InFlight
  <1>2. CASE r \in InFlight /\ s \in InFlight
    BY <1>2 DEF OneAtATime
  <1>3. CASE Receive(r) \/ Receive(s)
    <2>1. InFlight = {}
      BY <1>1, <1>3, ArrivalAlone
    <2>2. Receive(r) /\ Receive(s)
      BY <1>1, <2>1, InFlightStep
    <2>3. r # s => pc'[s] = pc[s] /\ pc[s] = "idle"
      BY <1>1, <2>2, OthersStay DEF Receive, Begin
    <2> QED
      BY <2>3 DEF InFlight, Steps, TokenizeSteps, TokenSteps
  <1> QED
    BY <1>1, <1>2, <1>3, InFlightStep

\* While s is being served and its handler does not move, nothing it relies on in
\* PostgreSQL does, and Redis only expires.
LEMMA Still ==
  ASSUME TypeOK, OneAtATime, MaxInFlight = 1, [Next]_vars, NEW s \in InFlight, ~ Act(s)
  PROVE  /\ UNCHANGED <<tokens, vault, req, panTok, prev, val>>
         /\ pc'[s] = pc[s] /\ code'[s] = code[s]
         /\ \A t \in Tenants : tenants'[t] = "absent" <=> tenants[t] = "absent"
         /\ UNCHANGED redisVars \/ \E t \in Tenants, k \in TokenIDs : RedisExpiry(t, k)
PROOF
  <1>1. CASE Background
    <2>1. UNCHANGED redisVars \/ \E t \in Tenants, k \in TokenIDs : RedisExpiry(t, k)
      BY <1>1 DEF Background, TenantDeactivated, vars
    <2> QED
      BY <1>1, <2>1, BackgroundSteps DEF handlerVars
  <1>2. ASSUME NEW r \in Requests, Reject(r)
        PROVE  /\ UNCHANGED <<dbVars, redisVars, req, panTok, prev, val>>
               /\ pc'[s] = pc[s] /\ code'[s] = code[s]
    <2>1. s # r
      BY <1>2 DEF Reject, InFlight, Steps, TokenizeSteps, TokenSteps
    <2> QED
      BY <1>2, <2>1 DEF Reject, Reply, TypeOK
  <1>3. CASE \E r \in Requests : Reject(r)
    BY <1>2, <1>3 DEF dbVars
  <1> QED
    BY <1>1, <1>3, Alone

-----------------------------------------------------------------------------
(* Minting a PAN token *)

MintSteps == {"findIndex", "encrypt", "tokenCreate"}

\* A handler is in the minting steps because it was, or because it has just begun.
LEMMA MintersCome ==
  ASSUME Inv, [Next]_vars, NEW s \in Requests, pc'[s] \in {"idle", "vaultCreate"} \cup MintSteps
  PROVE  /\ pc[s] \in {"idle", "vaultCreate"} \cup MintSteps
         /\ pc'[s] \in {"idle"} \cup MintSteps => pc[s] \in {"idle"} \cup MintSteps
         /\ pc[s] # "idle" => req'[s] = req[s]
         /\ pc'[s] \in {"encrypt", "tokenCreate"} =>
              \/ pc[s] \in {"encrypt", "tokenCreate"}
              \/ TokenizeFindByBlindIndex(s)
                   /\ FindByBlindIndex(req[s].tenant,
                                       ComputeBlindIndex(req[s].tenant, req[s].pan)) = {}
         /\ pc'[s] = "vaultCreate" =>
              \/ pc[s] = "vaultCreate"
              \/ TokenizeTokenCreate(s) /\ tokens'[PanTok(s)] # Nil
PROOF
  <1> USE DEF Goto, Reply, Fail, MintSteps, Inv, TypeOK
  <1>1. ASSUME NEW r \in Requests,
               Reject(r) \/ Receive(r) \/ Crash(r) \/ Tokenize(r) \/ UseToken(r)
        PROVE  /\ pc'[s] = pc[s] \/ r = s
               /\ pc[s] # "idle" => req'[s] = req[s]
    BY <1>1, OthersStay, RequestsStay
  <1>2. CASE pc'[s] = pc[s]
    BY <1>2, RequestsStay
  <1>3. CASE Reject(s) \/ Receive(s) \/ Crash(s)
    BY <1>3, RequestsStay DEF Reject, Receive, Begin, BeginTokenize, BeginCVV, Crash
  <1>4. CASE UseToken(s)
    BY <1>4
    DEF UseToken, DetokenizeFindByTokenID, DetokenizeDecryptPAN, DetokenizeUpdateLastUsed,
        DetokenizeRetrieveCVVToken, StatusFindByTokenID, StatusExistsCVVToken,
        DeactivateFindByTokenID, DeactivateUpdateStatus, AuditAndAnswer
  <1>5. CASE TokenizeTokenCreate(s)
    <2>1. PanTok(s) \in TokenIDs
      BY PanToks
    <2>2. HandlerOK /\ pc[s] = "tokenCreate" /\ UNCHANGED req
      BY <1>5 DEF TokenizeTokenCreate
    <2>3. req[s].tenant \in Tenants /\ req[s].pan \in PANs
      BY <2>2 DEF HandlerOK, TokenizeSteps, TokenizeInputs
    <2>4. pc'[s] = "vaultCreate" =>
            /\ TokenCreateAccepted(req[s].tenant, PanTok(s),
                                   ComputeBlindIndex(req[s].tenant, req[s].pan))
            /\ TokenCreate(req[s].tenant, PanTok(s),
                           ComputeBlindIndex(req[s].tenant, req[s].pan))
      BY <1>5 DEF TokenizeTokenCreate
    <2>5. pc'[s] = "vaultCreate" => tokens'[PanTok(s)] # Nil
      BY <2>1, <2>3, <2>4, InsertKeepsRows
    <2>6. pc'[s] \in {"vaultCreate", "done"}
      BY <1>5 DEF TokenizeTokenCreate
    <2> QED
      BY <1>5, <2>2, <2>5, <2>6
  <1>6. CASE Tokenize(s) /\ ~ TokenizeTokenCreate(s)
    BY <1>6
    DEF Tokenize, TokenizeFindByBlindIndex, TokenizeEncryptPAN, TokenizeVaultCreate,
        TokenizeAuditPAN, BeginCVV, TokenizeStoreCVVToken, TokenizeGetOwner,
        TokenizeDelPrevious, TokenizeSetOwner, TokenizeAuditCVV
  <1>7. CASE Background
    BY <1>2, <1>7, BackgroundSteps DEF handlerVars
  <1> QED
    BY <1>1, <1>2, <1>3, <1>4, <1>5, <1>6, <1>7 DEF Next, Background

\* No handler writes to the tenants table, and one that is about to insert its
\* PAN token has not written to any table yet.
LEMMA MintersWriteNothing ==
  ASSUME TypeOK, NEW s \in Requests, Act(s)
  PROVE  /\ UNCHANGED tenants
         /\ pc'[s] \in MintSteps => UNCHANGED <<tokens, vault>>
PROOF
  <1> USE DEF Goto, Reply, Fail, MintSteps, TypeOK, dbVars
  <1>1. CASE UseToken(s) \/ Crash(s)
    BY <1>1
    DEF Crash, UseToken, DetokenizeFindByTokenID, DetokenizeDecryptPAN, DetokenizeUpdateLastUsed,
        DetokenizeRetrieveCVVToken, StatusFindByTokenID, StatusExistsCVVToken,
        DeactivateFindByTokenID, DeactivateUpdateStatus, AuditAndAnswer
  <1>2. CASE Tokenize(s)
    BY <1>2
    DEF Tokenize, TokenizeFindByBlindIndex, TokenizeEncryptPAN, TokenizeTokenCreate,
        TokenizeVaultCreate, TokenizeAuditPAN, BeginCVV, TokenizeStoreCVVToken, TokenizeGetOwner,
        TokenizeDelPrevious, TokenizeSetOwner, TokenizeAuditCVV
  <1> QED
    BY <1>1, <1>2 DEF Act

\* A handler that is being served and its request, from one step to the next.
LEMMA ServedHandler ==
  ASSUME Inv, NEW s \in InFlight, [Next]_vars
  PROVE  /\ s \in Requests /\ pc[s] # "idle" /\ req'[s] = req[s]
         /\ req[s].tenant \in Tenants
PROOF
  <1>1. s \in Requests /\ pc[s] \in Steps
    BY DEF InFlight
  <1>2. pc[s] # "idle"
    BY <1>1 DEF Steps, TokenizeSteps, TokenSteps
  <1>3. req[s] \in TokenizeInputs \cup TokenInputs
    BY <1>1 DEF Inv, HandlerOK, Steps
  <1> QED
    BY <1>1, <1>2, <1>3, RequestsStay DEF Inv, TokenizeInputs, TokenInputs

\* Every step keeps what the minting of a PAN token relies on.
LEMMA MintingStep ==
  ASSUME Inv, OneAtATime, MaxInFlight = 1, MintingOK, [Next]_vars
  PROVE  MintingOK'
PROOF
  <1> SUFFICES ASSUME NEW s \in Requests, pc'[s] \in {"idle"} \cup MintSteps
               PROVE  /\ tokens'[PanTok(s)] = Nil
                      /\ pc'[s] \in MintSteps => tenants'[req'[s].tenant] # "absent"
                      /\ pc'[s] \in {"encrypt", "tokenCreate"} =>
                           FindByBlindIndex(req[s].tenant,
                             ComputeBlindIndex(req[s].tenant, req[s].pan))' = {}
    BY DEF MintingOK, MintSteps, ComputeBlindIndex
  <1>1. pc[s] \in {"idle"} \cup MintSteps
    BY MintersCome
  <1>2. tokens'[PanTok(s)] = Nil
    <2>1. tokens[PanTok(s)] = Nil /\ PanTok(s) \in TokenIDs
      BY <1>1, PanToks DEF MintingOK, MintSteps
    <2>2. ASSUME NEW r \in Requests, TokenizeTokenCreate(r), PanTok(s) = PanTok(r)
          PROVE  FALSE
      <3>1. r = s
        BY <2>2, PanToks
      <3> QED
        BY <2>2, <3>1 DEF TokenizeTokenCreate, Goto, Reply, Fail, Inv, TypeOK, MintSteps
    <2> QED
      BY <2>1, <2>2, RowsMade
  <1>3. CASE pc'[s] = "idle"
    BY <1>2, <1>3 DEF MintSteps
  <1>4. CASE pc'[s] \in MintSteps /\ s \notin InFlight
    <2>1. s \in InFlight'
      BY <1>4 DEF InFlight, Steps, TokenizeSteps, MintSteps
    <2>2. Receive(s)
      BY <1>4, <2>1, InFlightStep DEF Inv
    <2>3. PICK a \in TokenizeInputs \cup TokenInputs : Begin(s, a)
      BY <2>2 DEF Receive
    <2>4. req'[s] = a /\ UNCHANGED tenants
      BY <2>3 DEF Begin, dbVars, Inv, TypeOK
    <2>5. RequireTenant(a.tenant) = 0 /\ pc'[s] = "findIndex"
      BY <1>4, <2>3
      DEF Begin, BeginTokenize, BeginCVV, Goto, Reply, Fail, Inv, TypeOK, MintSteps
    <2>6. tenants[a.tenant] # "absent"
      BY <2>5 DEF RequireTenant
    <2> QED
      BY <1>2, <2>4, <2>5, <2>6
  <1>5. CASE pc'[s] \in MintSteps /\ s \in InFlight
    <2>1. req'[s] = req[s] /\ req[s].tenant \in Tenants /\ pc[s] \in MintSteps
      BY <1>1, <1>5, ServedHandler
    <2>2. tenants[req[s].tenant] # "absent"
      BY <2>1 DEF MintingOK, MintSteps
    <2>3. UNCHANGED tokens /\ tenants'[req[s].tenant] # "absent"
      <3>1. CASE Act(s)
        BY <1>5, <2>2, <3>1, MintersWriteNothing DEF Inv
      <3>2. CASE ~ Act(s)
        BY <1>5, <2>1, <2>2, <3>2, Still DEF Inv
      <3> QED
        BY <3>1, <3>2
    <2>4. pc'[s] \in {"encrypt", "tokenCreate"} =>
            FindByBlindIndex(req[s].tenant, ComputeBlindIndex(req[s].tenant, req[s].pan)) = {}
      BY MintersCome DEF MintingOK
    <2> QED
      BY <1>2, <2>1, <2>3, <2>4 DEF FindByBlindIndex, ComputeBlindIndex
  <1> QED
    BY <1>3, <1>4, <1>5

\* A vault entry is written by the handler that leaves the step that writes it.
LEMMA EntriesUnwrittenStep ==
  ASSUME Inv, EntriesUnwritten, [Next]_vars
  PROVE  EntriesUnwritten'
PROOF
  <1> SUFFICES ASSUME NEW s \in Requests, pc'[s] \in {"idle", "vaultCreate"} \cup MintSteps
               PROVE  vault'[PanTok(s)] = Nil
    BY DEF EntriesUnwritten, StepsBeforeVault, MintSteps
  <1>1. vault[PanTok(s)] = Nil /\ PanTok(s) \in TokenIDs
    BY MintersCome, PanToks DEF EntriesUnwritten, StepsBeforeVault, MintSteps
  <1>2. ASSUME NEW r \in Requests, TokenizeVaultCreate(r), PanTok(s) = PanTok(r)
        PROVE  FALSE
    <2>1. r = s
      BY <1>2, PanToks
    <2> QED
      BY <1>2, <2>1 DEF TokenizeVaultCreate, Goto, Reply, Fail, Inv, TypeOK, MintSteps
  <1> QED
    BY <1>1, <1>2, EntriesKept

\* When the row of a PAN token is inserted no index refuses it, and when its vault
\* entry is, there is none yet.
LEMMA InsertsAreAccepted ==
  ASSUME Inv, MintingOK, EntriesUnwritten, NEW r \in Requests
  PROVE  /\ pc[r] = "tokenCreate" =>
              TokenCreateAccepted(req[r].tenant, PanTok(r),
                                  ComputeBlindIndex(req[r].tenant, req[r].pan))
         /\ pc[r] = "vaultCreate" => VaultCreateAccepted(PanTok(r))
PROOF
  <1>1. ASSUME pc[r] = "tokenCreate"
        PROVE  TokenCreateAccepted(req[r].tenant, PanTok(r),
                                   ComputeBlindIndex(req[r].tenant, req[r].pan))
    <2>1. /\ tokens[PanTok(r)] = Nil /\ tenants[req[r].tenant] # "absent"
          /\ FindByBlindIndex(req[r].tenant, ComputeBlindIndex(req[r].tenant, req[r].pan)) = {}
      BY <1>1 DEF MintingOK
    <2> QED
      BY <2>1 DEF TokenCreateAccepted, FindByBlindIndex
  <1>2. pc[r] = "vaultCreate" => VaultCreateAccepted(PanTok(r))
    BY DEF VaultCreateAccepted, EntriesUnwritten, StepsBeforeVault, Inv, DirectoryOK, RowIsFor
  <1> QED
    BY <1>1, <1>2

\* No tokenize handler runs into an error of its own making.
LEMMA SucceedsStep ==
  ASSUME Inv, MintingOK, EntriesUnwritten, TokenizeSucceeds, [Next]_vars,
         "db" \notin Faults, "redis" \notin Faults
  PROVE  TokenizeSucceeds'
PROOF
  <1> SUFFICES ASSUME NEW r \in Requests, Answered(r)', req'[r].op = "tokenize",
                      Invalid \notin {req[r].pan, req[r].cvv}', code'[r] = 500
               PROVE  FALSE
    BY DEF TokenizeSucceeds
  <1> USE DEF Answered, Goto, Reply, Fail, Inv, TypeOK
  <1>1. ASSUME pc'[r] = pc[r], code'[r] = code[r]
        PROVE  FALSE
    BY <1>1, RequestsStay DEF TokenizeSucceeds
  <1>2. CASE Reject(r)
    BY <1>2 DEF Reject
  <1>3. CASE Receive(r)
    <2>1. PICK a \in TokenizeInputs \cup TokenInputs : Begin(r, a)
      BY <1>3 DEF Receive
    <2>2. req'[r] = a
      BY <2>1 DEF Begin
    <2>3. code'[r] \in {0, 200, 201, 400, 403, 404} \/ code'[r] = code[r]
      BY <2>1 DEF Begin, RequireTenant, BeginTokenize, BeginCVV, TokenizeStatus
    <2>4. pc'[r] = "done" => code'[r] \in {200, 201, 400, 403, 404}
      BY <2>1 DEF Begin, RequireTenant, BeginTokenize, BeginCVV, TokenizeStatus
    <2> QED
      BY <2>4
  <1>4. CASE UseToken(r)
    <2>1. pc[r] \in TokenSteps
      BY <1>4
      DEF UseToken, DetokenizeFindByTokenID, DetokenizeDecryptPAN, DetokenizeUpdateLastUsed,
          DetokenizeRetrieveCVVToken, StatusFindByTokenID, StatusExistsCVVToken,
          DeactivateFindByTokenID, DeactivateUpdateStatus, AuditAndAnswer, TokenSteps
    <2>2. req[r].op # "tokenize" /\ pc[r] # "idle"
      BY <2>1 DEF HandlerOK, TokenInputs, AllOps, TokenSteps
    <2> QED
      BY <2>2, RequestsStay
  <1>5. CASE Crash(r)
    BY <1>5 DEF Crash
  <1>6. CASE Tokenize(r)
    <2>1. ~ TokenizeTokenCreate(r)
      BY InsertsAreAccepted DEF TokenizeTokenCreate
    <2>2. ~ TokenizeVaultCreate(r)
      BY InsertsAreAccepted DEF TokenizeVaultCreate
    <2> QED
      BY <1>6, <2>1, <2>2
      DEF Tokenize, TokenizeFindByBlindIndex, TokenizeEncryptPAN, TokenizeAuditPAN, BeginCVV,
          TokenizeStoreCVVToken, TokenizeGetOwner, TokenizeDelPrevious, TokenizeSetOwner,
          TokenizeAuditCVV, TokenizeStatus, HandlerOK
  <1>7. ASSUME NEW q \in Requests, q # r,
               Reject(q) \/ Receive(q) \/ Crash(q) \/ Tokenize(q) \/ UseToken(q)
        PROVE  FALSE
    BY <1>1, <1>7, OthersStay
  <1>8. CASE Background
    BY <1>1, <1>8, BackgroundSteps DEF handlerVars
  <1> QED
    BY <1>2, <1>3, <1>4, <1>5, <1>6, <1>7, <1>8 DEF Next, Background

-----------------------------------------------------------------------------
(* Revealing a PAN token *)

\* The handler that has made a row goes on to write its vault entry, and nothing
\* stops it.
LEMMA EntriesStep ==
  ASSUME Inv, OneAtATime, MaxInFlight = 1, EntriesUnwritten, EntriesOK, [Next]_vars,
         "db" \notin Faults, "crash" \notin Faults
  PROVE  EntriesOK'
PROOF
  <1> SUFFICES ASSUME NEW k \in TokenIDs, tokens'[k] # Nil, pc'[k[2]] # "vaultCreate"
               PROVE  vault'[k] # Nil /\ vault'[k].tenant = tokens'[k].tenant
    BY DEF EntriesOK
  <1> DEFINE r == k[2]
  <1> USE DEF Goto, Reply, Fail, Inv, TypeOK
  <1>1. r \in Requests
    BY PanToks
  <1>2. tokens[k] # Nil
    <2> SUFFICES ASSUME tokens[k] = Nil
                 PROVE  FALSE
      OBVIOUS
    <2>1. PICK q \in Requests : TokenizeTokenCreate(q) /\ k = PanTok(q)
      BY RowsMade
    <2>2. q = r
      BY <2>1, PanToks
    <2> HIDE DEF r
    <2>3. pc'[r] = "vaultCreate" \/ UNCHANGED tokens
      BY <1>1, <2>1, <2>2 DEF TokenizeTokenCreate
    <2> QED
      BY <2>3 DEF r
  <1>3. k = PanTok(r) /\ tokens'[k].tenant = tokens[k].tenant
    BY <1>2, PanToks, RowsKept DEF CVVTokensOK
  <1>4. CASE pc[r] # "vaultCreate"
    <2>1. vault[k] # Nil /\ vault[k].tenant = tokens[k].tenant
      BY <1>2, <1>4 DEF EntriesOK
    <2>2. vault'[k] = vault[k]
      <3> SUFFICES ASSUME vault'[k] # vault[k]
                   PROVE  FALSE
        OBVIOUS
      <3>1. PICK q \in Requests : TokenizeVaultCreate(q) /\ k = PanTok(q)
        BY EntriesKept
      <3>2. q = r
        BY <3>1, PanToks
      <3> QED
        BY <1>4, <3>1, <3>2 DEF TokenizeVaultCreate
    <2> QED
      BY <1>3, <2>1, <2>2
  <1>5. CASE pc[r] = "vaultCreate"
    <2>1. r \in InFlight
      BY <1>1, <1>5 DEF InFlight, Steps, TokenizeSteps
    <2>2. Act(r)
      BY <1>5, <2>1, Still
    <2>3. TokenizeVaultCreate(r)
      BY <1>5, <2>2
      DEF Act, Crash, Tokenize, TokenizeFindByBlindIndex, TokenizeEncryptPAN,
          TokenizeTokenCreate, TokenizeAuditPAN, TokenizeStoreCVVToken, TokenizeGetOwner,
          TokenizeDelPrevious, TokenizeSetOwner, TokenizeAuditCVV, UseToken,
          DetokenizeFindByTokenID, DetokenizeDecryptPAN, DetokenizeUpdateLastUsed,
          DetokenizeRetrieveCVVToken, StatusFindByTokenID, StatusExistsCVVToken,
          DeactivateFindByTokenID, DeactivateUpdateStatus, AuditAndAnswer
    <2>4. vault[k] = Nil /\ RowIsFor(k, r)
      BY <1>1, <1>3, <1>5 DEF EntriesUnwritten, StepsBeforeVault, DirectoryOK
    <2>5. VaultCreate(req[r].tenant, k, Encrypt(req[r].pan, k), GenerateDataKey(req[r].tenant, k))
      BY <1>2, <1>3, <2>3, <2>4 DEF TokenizeVaultCreate, VaultCreateAccepted
    <2>6. vault'[k].tenant = req[r].tenant /\ vault'[k] # Nil
      <3> DEFINE row == [tenant |-> req[r].tenant, ciphertext |-> Encrypt(req[r].pan, k),
                         dekEncrypted |-> GenerateDataKey(req[r].tenant, k)]
      <3>1. req[r].tenant \in Tenants /\ req[r].pan \in PANs
        BY <1>1, <1>5 DEF HandlerOK, TokenizeSteps, TokenizeInputs
      <3>2. vault' = [vault EXCEPT ![k] = row] /\ row.tenant = req[r].tenant
        BY <2>5 DEF VaultCreate
      <3>3. row \in VaultRows
        BY <3>1 DEF VaultRows, SealedPANs, WrappedDEKs, DEKs, Encrypt, GenerateDataKey
      <3>4. row # Nil
        BY <3>3, NoRowAssumption
      <3> HIDE DEF row
      <3> QED
        BY <3>2, <3>4 DEF DbTypeOK
    <2> QED
      BY <1>3, <2>4, <2>6 DEF RowIsFor
  <1> QED
    BY <1>4, <1>5

\* Decrypting finds the vault entry of the row, and opens it.
LEMMA DecryptFindsEntry ==
  ASSUME Inv, StoredOK, OneAtATime, EntriesOK, RevealsOK, NEW r \in Requests,
         DetokenizeDecryptPAN(r), pc'[r] = "lastUsed"
  PROVE  val'[r] # Nil
PROOF
  <1> DEFINE k == req[r].token
  <1>1. pc[r] = "decrypt" /\ r \in InFlight
    BY DEF DetokenizeDecryptPAN, InFlight, Steps, TokenSteps
  <1>2. k \in TokenIDs /\ req[r].op = "detokenize" /\ tokens[k] # Nil
    BY <1>1 DEF Inv, HandlerOK, TokenSteps, TokenInputs, CVVTokensOK
  <1>3. tokens[k].tenant = req[r].tenant
    BY <1>1, <1>2 DEF RevealsOK
  <1>4. pc[k[2]] # "vaultCreate"
    <2> SUFFICES ASSUME pc[k[2]] = "vaultCreate"
                 PROVE  FALSE
      OBVIOUS
    <2>1. k[2] \in InFlight
      BY <1>2, PanToks DEF InFlight, Steps, TokenizeSteps
    <2> QED
      BY <1>1, <2>1 DEF OneAtATime
  <1>5. vault[k] # Nil /\ vault[k].tenant = req[r].tenant
    BY <1>2, <1>3, <1>4 DEF EntriesOK
  <1>6. vault[k].ciphertext.dek = k /\ vault[k].dekEncrypted.dek = k
    <2> HIDE DEF k
    <2>1. /\ vault[k].ciphertext = Encrypt(req[k[2]].pan, k)
          /\ vault[k].dekEncrypted.dek = k
      BY <1>2, <1>5 DEF StoredOK
    <2> QED
      BY <2>1 DEF Encrypt
  <1>7. vault[k].ciphertext.text # Nil
    BY <1>2, <1>5, NilAssumption DEF Inv, TypeOK, DbTypeOK, VaultRows, SealedPANs
  <1>8. /\ VaultFindByTokenID(req[r].tenant, k) = vault[k] /\ vault[k] # Nil
        /\ Decrypt(vault[k].ciphertext, UnwrapKey(vault[k].dekEncrypted)) # Nil
    BY <1>5, <1>6, <1>7 DEF VaultFindByTokenID, Decrypt, UnwrapKey
  <1> HIDE DEF k
  <1> QED
    BY <1>1, <1>8 DEF DetokenizeDecryptPAN, Goto, Reply, Fail, Inv, TypeOK, k

\* What GETDEL hands out is a CVV.
LEMMA RetrieveFindsCVV ==
  ASSUME Inv, StoredOK, NEW r \in Requests, DetokenizeRetrieveCVVToken(r), pc'[r] = "auditOp"
  PROVE  val'[r] # Nil
PROOF
  <1> DEFINE k == req[r].token
             t == req[r].tenant
             sealed == cvvtok[<<t, k>>]
  <1>1. k \in TokenIDs /\ t \in Tenants /\ <<t, k>> \in RedisKeys
    BY DEF DetokenizeRetrieveCVVToken, Inv, HandlerOK, TokenSteps, TokenInputs, RedisKeys
  <1>2. sealed # Nil /\ val' = [val EXCEPT ![r] = Decrypt(sealed, sealed.dek)]
    BY DEF DetokenizeRetrieveCVVToken, Goto, Reply, Fail, Inv, TypeOK
  <1>3. sealed \in SealedCVVs
    BY <1>1, <1>2 DEF Inv, TypeOK, RedisTypeOK
  <1>4. Decrypt(sealed, sealed.dek) # Nil
    BY <1>3, NilAssumption DEF Decrypt, SealedCVVs
  <1> HIDE DEF sealed
  <1> QED
    BY <1>2, <1>4 DEF Inv, TypeOK

\* A detokenize handler past its lookup holds the value of its token.
LEMMA RevealsStep ==
  ASSUME Inv, StoredOK, OneAtATime, EntriesOK, RevealsOK, [Next]_vars
  PROVE  RevealsOK'
PROOF
  <1> SUFFICES ASSUME NEW r \in Requests, req'[r].op = "detokenize"
               PROVE  /\ pc'[r] = "decrypt" => tokens'[req'[r].token].tenant = req'[r].tenant
                      /\ pc'[r] \in {"lastUsed", "auditOp"} \/ Succeeded(r)' => val'[r] # Nil
    BY DEF RevealsOK
  <1> USE DEF Succeeded, Answered, Goto, Reply, Fail, Inv, TypeOK
  <1>1. ASSUME pc[r] = "decrypt"
        PROVE  /\ req[r].token \in TokenIDs /\ tokens[req[r].token] # Nil
               /\ tokens'[req[r].token].tenant = tokens[req[r].token].tenant
    <2>1. req[r].token \in TokenIDs /\ tokens[req[r].token] # Nil
      BY <1>1 DEF HandlerOK, TokenSteps, TokenInputs, CVVTokensOK
    <2> QED
      BY <2>1, RowsKept
  <1>2. CASE pc'[r] = pc[r] /\ code'[r] = code[r] /\ req'[r] = req[r] /\ val'[r] = val[r]
    BY <1>1, <1>2 DEF RevealsOK
  <1>3. CASE Reject(r) \/ Crash(r)
    BY <1>3 DEF Reject, Crash
  <1>4. CASE Receive(r)
    <2>1. PICK a \in TokenizeInputs \cup TokenInputs : Begin(r, a)
      BY <1>4 DEF Receive
    <2>2. a.op = "detokenize"
      BY <2>1 DEF Begin
    <2> QED
      BY <2>1, <2>2 DEF Begin, RequireTenant
  <1>5. CASE Tokenize(r)
    <2>1. pc[r] \in TokenizeSteps
      BY <1>5
      DEF Tokenize, TokenizeFindByBlindIndex, TokenizeEncryptPAN, TokenizeTokenCreate,
          TokenizeVaultCreate, TokenizeAuditPAN, TokenizeStoreCVVToken, TokenizeGetOwner,
          TokenizeDelPrevious, TokenizeSetOwner, TokenizeAuditCVV, TokenizeSteps
    <2>2. req[r].op = "tokenize" /\ pc[r] # "idle"
      BY <2>1 DEF HandlerOK, TokenizeInputs, TokenizeSteps
    <2> QED
      BY <2>2, RequestsStay
  <1>6. CASE UseToken(r)
    <2>1. UNCHANGED req
      BY <1>6
      DEF UseToken, DetokenizeFindByTokenID, DetokenizeDecryptPAN, DetokenizeUpdateLastUsed,
          DetokenizeRetrieveCVVToken, StatusFindByTokenID, StatusExistsCVVToken,
          DeactivateFindByTokenID, DeactivateUpdateStatus, AuditAndAnswer
    <2>2. CASE DetokenizeFindByTokenID(r)
      BY <2>1, <2>2 DEF DetokenizeFindByTokenID, FindByTokenID, dbVars
    <2>3. CASE DetokenizeDecryptPAN(r)
      <3>1. pc'[r] \in {"lastUsed", "done"} /\ (pc'[r] = "done" => code'[r] = 500)
        BY <2>3 DEF DetokenizeDecryptPAN
      <3> QED
        BY <2>3, <3>1, DecryptFindsEntry
    <2>4. CASE DetokenizeUpdateLastUsed(r)
      BY <2>1, <2>4 DEF DetokenizeUpdateLastUsed, RevealsOK
    <2>5. CASE DetokenizeRetrieveCVVToken(r)
      <3>1. pc'[r] \in {"auditOp", "done"} /\ (pc'[r] = "done" => code'[r] = 404)
        BY <2>5 DEF DetokenizeRetrieveCVVToken
      <3> QED
        BY <2>5, <3>1, RetrieveFindsCVV
    <2>6. CASE AuditAndAnswer(r)
      BY <2>1, <2>6 DEF AuditAndAnswer, RevealsOK
    <2>7. req[r].op = "detokenize" =>
            /\ ~ StatusFindByTokenID(r) /\ ~ StatusExistsCVVToken(r)
            /\ ~ DeactivateFindByTokenID(r) /\ ~ DeactivateUpdateStatus(r)
      BY DEF StatusFindByTokenID, StatusExistsCVVToken, DeactivateFindByTokenID,
             DeactivateUpdateStatus, HandlerOK
    <2> QED
      BY <1>6, <2>1, <2>2, <2>3, <2>4, <2>5, <2>6, <2>7 DEF UseToken
  <1>7. ASSUME NEW q \in Requests, q # r,
               Reject(q) \/ Receive(q) \/ Crash(q) \/ Tokenize(q) \/ UseToken(q)
        PROVE  pc'[r] = pc[r] /\ code'[r] = code[r] /\ req'[r] = req[r] /\ val'[r] = val[r]
    BY <1>7, OthersStay
  <1>8. CASE Background
    BY <1>2, <1>8, BackgroundSteps DEF handlerVars
  <1> QED
    BY <1>2, <1>3, <1>4, <1>5, <1>6, <1>7, <1>8 DEF Next, Background

-----------------------------------------------------------------------------
(* One CVV token of a PAN token *)

\* The keys of a handler that has its PAN token, and whose they are.
LEMMA HandlerKeys ==
  ASSUME Inv, NEW s \in Requests, panTok[s] # Nil
  PROVE  /\ req[s].tenant \in Tenants /\ panTok[s] \in TokenIDs
         /\ <<req[s].tenant, panTok[s]>> \in RedisKeys
         /\ <<req[s].tenant, CvvTok(s)>> \in RedisKeys
         /\ \A q \in Requests : panTok[q] = panTok[s] => req[q].tenant = req[s].tenant
PROOF
  <1>1. req[s].op = "tokenize" /\ panTok[s] \in TokenIDs
    BY DEF Inv, TypeOK, DirectoryOK
  <1>2. req[s].tenant \in Tenants
    BY <1>1 DEF Inv, TypeOK, TokenizeInputs, TokenInputs, NoRequest
  <1>3. \A q \in Requests : panTok[q] = panTok[s] => req[q].tenant = req[s].tenant
    BY DEF Inv, DirectoryOK, RowIsFor
  <1> QED
    BY <1>1, <1>2, <1>3, CvvToks DEF RedisKeys

\* The owner keys only change by expiring, and then without a token they name.
OwnersOnlyExpire ==
  \A t \in Tenants, k \in TokenIDs :
    \/ cvvtokOwner'[<<t, k>>] = cvvtokOwner[<<t, k>>]
    \/ cvvtokOwner'[<<t, k>>] = Nil /\ cvvtok[<<t, cvvtokOwner[<<t, k>>]>>] = Nil

\* No token becomes "stored", and the keys of those that stay so stay.
StoredOnlyEnd ==
  \A j \in TokenIDs :
    fate'[j] = "stored" =>
      fate[j] = "stored" /\ \A u \in Tenants : cvvtok'[<<u, j>>] = cvvtok[<<u, j>>]

\* Where a command removes keys, a fate that is still "stored" has kept its key.
LEMMA RemovalSealsFate ==
  ASSUME RedisTypeOK, NEW t \in Tenants, NEW k \in TokenIDs,
         RetrieveCVVToken(t, k) \/ DeleteCVVToken(t, k) \/ CVVTokenExpires(t, k)
  PROVE  UNCHANGED cvvtokOwner /\ StoredOnlyEnd
PROOF
  <1>1. \A u \in Tenants, j \in TokenIDs : <<u, j>> \in RedisKeys
    BY DEF RedisKeys
  <1>2. UNCHANGED cvvtokOwner /\ cvvtok' = [cvvtok EXCEPT ![<<t, k>>] = Nil]
    BY DEF RetrieveCVVToken, DeleteCVVToken, CVVTokenExpires
  <1>3. \A u \in Tenants, j \in TokenIDs :
          cvvtok'[<<u, j>>] = IF u = t /\ j = k THEN Nil ELSE cvvtok[<<u, j>>]
    BY <1>1, <1>2 DEF RedisTypeOK
  <1>4. CASE cvvtok[<<t, k>>] = Nil
    <2>1. UNCHANGED fate
      BY <1>4 DEF RetrieveCVVToken, DeleteCVVToken, CVVTokenExpires
    <2> QED
      BY <1>2, <1>3, <1>4, <2>1 DEF StoredOnlyEnd
  <1>5. CASE cvvtok[<<t, k>>] # Nil
    <2>1. \A j \in TokenIDs : fate'[j] = "stored" => j # k /\ fate[j] = "stored"
      BY <1>5 DEF RetrieveCVVToken, DeleteCVVToken, CVVTokenExpires, RedisTypeOK
    <2> QED
      BY <1>2, <1>3, <2>1 DEF StoredOnlyEnd
  <1> QED
    BY <1>4, <1>5

\* A step that neither names nor stores a token, nor is one of the invalidation.
LEMMA LastOwnersKept ==
  ASSUME Inv, OwnerInv, LastOwnersOK, OwnersOnlyExpire, StoredOnlyEnd, UNCHANGED prev,
         \A s \in Requests : fate[CvvTok(s)] # "none" =>
                               panTok'[s] = panTok[s] /\ req'[s] = req[s],
         \A s \in Requests : pc[s] \in StepsBeforeSetOwner \/ pc'[s] \in StepsBeforeSetOwner =>
                               pc'[s] = pc[s]
  PROVE  LastOwnersOK'
PROOF
  <1> SUFFICES ASSUME NEW s \in Requests
               PROVE  /\ panTok'[s] # Nil /\ fate'[CvvTok(s)] = "stored" =>
                           /\ cvvtok'[<<req'[s].tenant, CvvTok(s)>>] # Nil
                           /\ \/ cvvtokOwner'[<<req'[s].tenant, panTok'[s]>>] = CvvTok(s)
                              \/ pc'[s] \in StepsBeforeSetOwner
                      /\ pc'[s] = "delPrevious" =>
                           cvvtokOwner'[<<req'[s].tenant, panTok'[s]>>] \in {prev'[s], Nil}
                      /\ /\ pc'[s] = "setOwner"
                         /\ cvvtokOwner'[<<req'[s].tenant, panTok'[s]>>] # Nil
                         => fate'[cvvtokOwner'[<<req'[s].tenant, panTok'[s]>>]] # "stored"
    BY DEF LastOwnersOK
  <1> DEFINE t == req[s].tenant
             k == panTok[s]
             owner == cvvtokOwner[<<t, k>>]
  <1>1. CvvTok(s) \in TokenIDs
    BY CvvToks
  <1>2. ASSUME panTok'[s] # Nil, fate'[CvvTok(s)] = "stored"
        PROVE  /\ cvvtok'[<<req'[s].tenant, CvvTok(s)>>] # Nil
               /\ \/ cvvtokOwner'[<<req'[s].tenant, panTok'[s]>>] = CvvTok(s)
                  \/ pc'[s] \in StepsBeforeSetOwner
    <2>1. fate[CvvTok(s)] = "stored" /\ panTok'[s] = k /\ req'[s] = req[s]
      BY <1>1, <1>2, HandlerKeys DEF StoredOnlyEnd, Inv, TypeOK, RedisTypeOK
    <2>2. t \in Tenants /\ k \in TokenIDs
      BY <1>2, <2>1, HandlerKeys
    <2>3. cvvtok[<<t, CvvTok(s)>>] # Nil /\ (owner = CvvTok(s) \/ pc[s] \in StepsBeforeSetOwner)
      BY <1>2, <2>1 DEF LastOwnersOK
    <2>4. cvvtok'[<<t, CvvTok(s)>>] # Nil
      BY <1>1, <1>2, <2>2, <2>3 DEF StoredOnlyEnd
    <2>5. owner = CvvTok(s) => cvvtokOwner'[<<t, k>>] = CvvTok(s)
      BY <2>2, <2>3 DEF OwnersOnlyExpire
    <2> QED
      BY <2>1, <2>3, <2>4, <2>5
  <1>3. ASSUME pc'[s] \in {"delPrevious", "setOwner"}
        PROVE  /\ pc'[s] = "delPrevious" =>
                    cvvtokOwner'[<<req'[s].tenant, panTok'[s]>>] \in {prev'[s], Nil}
               /\ /\ pc'[s] = "setOwner"
                  /\ cvvtokOwner'[<<req'[s].tenant, panTok'[s]>>] # Nil
                  => fate'[cvvtokOwner'[<<req'[s].tenant, panTok'[s]>>]] # "stored"
    <2>1. pc'[s] = pc[s] /\ fate[CvvTok(s)] # "none"
      BY <1>3 DEF StepsBeforeSetOwner, OwnerInv, OwnersOK
    <2>2. panTok'[s] = k /\ req'[s] = req[s] /\ k # Nil
      BY <1>3, <2>1 DEF Inv, HandlerOK
    <2>3. t \in Tenants /\ k \in TokenIDs /\ <<t, k>> \in RedisKeys
      BY <2>2, HandlerKeys
    <2>4. cvvtokOwner'[<<t, k>>] \in {owner, Nil} /\ owner \in TokenIDs \cup {Nil}
      <3>1. owner \in TokenIDs \cup {Nil}
        BY <2>3 DEF Inv, TypeOK, RedisTypeOK
      <3>2. cvvtokOwner'[<<t, k>>] = owner \/ cvvtokOwner'[<<t, k>>] = Nil
        BY <2>3 DEF OwnersOnlyExpire
      <3> QED
        BY <3>1, <3>2
    <2>5. pc[s] = "delPrevious" => owner \in {prev[s], Nil}
      BY DEF LastOwnersOK
    <2>6. pc[s] = "setOwner" /\ owner # Nil => fate[owner] # "stored"
      BY DEF LastOwnersOK
    <2>7. pc[s] = "setOwner" /\ owner # Nil => fate'[owner] # "stored"
      BY <2>3, <2>4, <2>6 DEF StoredOnlyEnd
    <2> HIDE DEF owner
    <2> QED
      BY <2>1, <2>2, <2>4, <2>5, <2>7
  <1> QED
    BY <1>2, <1>3

\* SET of a new CVV token: its handler has the owner key still to set.
LEMMA StoreKeepsLast ==
  ASSUME Inv, OwnerInv, OneAtATime, LastOwnersOK, NEW r \in Requests, TokenizeStoreCVVToken(r),
         "redis" \notin Faults
  PROVE  LastOwnersOK'
PROOF
  <1> DEFINE c == CvvTok(r)
             t == req[r].tenant
             sealed == Encrypt(req[r].cvv, c)
  <1>1. /\ pc[r] = "storeCVV" /\ StoreCVVToken(t, c, sealed)
        /\ UNCHANGED <<req, panTok, prev, cvvtokOwner>>
        /\ panTok[r] # Nil => pc'[r] = "getOwner"
        /\ pc'[r] \in {"getOwner", "auditCVV"}
        /\ \A s \in Requests : s # r => pc'[s] = pc[s]
    BY DEF TokenizeStoreCVVToken, StoreCVVToken, Goto, Reply, Fail, Inv, TypeOK
  <1>2. t \in Tenants /\ req[r].cvv \in CVVs /\ c \in TokenIDs /\ <<t, c>> \in RedisKeys
    BY <1>1, CvvToks DEF Inv, HandlerOK, TokenizeSteps, CVVSteps, TokenizeInputs, RedisKeys
  <1>3. sealed # Nil
    <2>1. sealed \in SealedCVVs
      BY <1>2 DEF Encrypt, SealedCVVs, DEKs
    <2> QED
      BY <2>1, NoKeyAssumption
  <1>4. /\ \A j \in TokenIDs : fate'[j] = IF j = c THEN "stored" ELSE fate[j]
        /\ \A u \in Tenants, j \in TokenIDs :
             cvvtok'[<<u, j>>] = IF u = t /\ j = c THEN sealed ELSE cvvtok[<<u, j>>]
    <2>1. \A u \in Tenants, j \in TokenIDs : <<u, j>> \in RedisKeys
      BY DEF RedisKeys
    <2> HIDE DEF sealed, c
    <2> QED
      BY <1>1, <1>2, <2>1 DEF StoreCVVToken, Inv, TypeOK, RedisTypeOK
  <1>5. \A s \in Requests : s # r => pc[s] \notin StepsBeforeSetOwner
    BY <1>1 DEF OneAtATime, InFlight, Steps, TokenizeSteps, StepsBeforeSetOwner
  <1> HIDE DEF sealed
  <1>6. ASSUME NEW s \in Requests, panTok[s] # Nil, fate'[CvvTok(s)] = "stored"
        PROVE  /\ cvvtok'[<<req[s].tenant, CvvTok(s)>>] # Nil
               /\ \/ cvvtokOwner'[<<req[s].tenant, panTok[s]>>] = CvvTok(s)
                  \/ pc'[s] \in StepsBeforeSetOwner
    <2>1. CASE s = r
      BY <1>1, <1>2, <1>3, <1>4, <1>6, <2>1 DEF StepsBeforeSetOwner
    <2>2. CASE s # r
      <3>1. CvvTok(s) # c /\ CvvTok(s) \in TokenIDs /\ req[s].tenant \in Tenants
        BY <1>6, <2>2, CvvToks, HandlerKeys
      <3>2. fate[CvvTok(s)] = "stored"
        BY <1>4, <1>6, <3>1
      <3> QED
        BY <1>1, <1>4, <1>6, <2>2, <3>1, <3>2 DEF LastOwnersOK
    <2> QED
      BY <2>1, <2>2
  <1>7. \A s \in Requests : pc'[s] \notin {"delPrevious", "setOwner"}
    BY <1>1, <1>5 DEF StepsBeforeSetOwner
  <1> QED
    BY <1>1, <1>6, <1>7 DEF LastOwnersOK

\* GET of the owner: what it names is deleted next, and where it names nothing
\* there is nothing to delete.
LEMMA GetOwnerKeepsLast ==
  ASSUME Inv, OneAtATime, LastOwnersOK, NEW r \in Requests, TokenizeGetOwner(r),
         "redis" \notin Faults
  PROVE  LastOwnersOK'
PROOF
  <1> DEFINE owner == cvvtokOwner[<<req[r].tenant, panTok[r]>>]
  <1>1. /\ UNCHANGED <<req, panTok, cvvtok, cvvtokOwner, fate>>
        /\ pc[r] = "getOwner" /\ pc'[r] \in {"delPrevious", "setOwner"}
        /\ pc'[r] = "delPrevious" => prev'[r] = owner
        /\ pc'[r] = "setOwner" => owner = Nil
        /\ \A s \in Requests : s # r => pc'[s] = pc[s]
    BY DEF TokenizeGetOwner, redisVars, Goto, Inv, TypeOK
  <1>2. \A s \in Requests : s # r => pc[s] \notin StepsBeforeSetOwner
    BY <1>1 DEF OneAtATime, InFlight, Steps, TokenizeSteps, StepsBeforeSetOwner
  <1> QED
    BY <1>1, <1>2 DEF LastOwnersOK, StepsBeforeSetOwner

\* DEL of the previous token: from now on the owner key names no stored token.
LEMMA DelPreviousKeepsLast ==
  ASSUME Inv, OwnerInv, OneAtATime, LastOwnersOK, NEW r \in Requests, TokenizeDelPrevious(r),
         "redis" \notin Faults
  PROVE  LastOwnersOK'
PROOF
  <1> DEFINE t == req[r].tenant
             k == panTok[r]
             owner == cvvtokOwner[<<t, k>>]
  <1>1. /\ DeleteCVVToken(t, prev[r]) /\ UNCHANGED <<req, panTok, prev>>
        /\ pc[r] = "delPrevious" /\ pc'[r] = "setOwner"
        /\ \A s \in Requests : s # r => pc'[s] = pc[s]
    BY DEF TokenizeDelPrevious, Goto, Inv, TypeOK
  <1>2. prev[r] \in CVVTokensOf(k) /\ k # Nil
    BY <1>1 DEF OwnerInv, OwnersOK, Inv, HandlerOK
  <1>3. PICK s \in Requests : prev[r] = CvvTok(s) /\ panTok[s] = k
    BY <1>2, TokensOfPAN
  <1>4. t \in Tenants /\ req[s].tenant = t /\ prev[r] \in TokenIDs
    BY <1>2, <1>3, HandlerKeys, CvvToks
  <1>5. UNCHANGED cvvtokOwner /\ StoredOnlyEnd
    BY <1>1, <1>4, RemovalSealsFate DEF Inv, TypeOK
  <1>6. fate'[prev[r]] # "stored"
    <2>1. <<t, prev[r]>> \in RedisKeys
      BY <1>4 DEF RedisKeys
    <2>2. cvvtok'[<<t, prev[r]>>] = Nil
      BY <1>1, <2>1 DEF DeleteCVVToken, Inv, TypeOK, RedisTypeOK
    <2>3. fate'[prev[r]] = "stored" =>
            fate[prev[r]] = "stored" /\ cvvtok[<<t, prev[r]>>] = Nil
      BY <1>4, <1>5, <2>2 DEF StoredOnlyEnd
    <2>4. fate[prev[r]] = "stored" => cvvtok[<<t, prev[r]>>] # Nil
      BY <1>2, <1>3, <1>4 DEF LastOwnersOK
    <2> QED
      BY <2>3, <2>4
  <1>7. owner \in {prev[r], Nil}
    BY <1>1 DEF LastOwnersOK
  <1>8. \A q \in Requests : q # r => pc[q] \notin StepsBeforeSetOwner
    BY <1>1 DEF OneAtATime, InFlight, Steps, TokenizeSteps, StepsBeforeSetOwner
  <1>9. ASSUME NEW q \in Requests, panTok[q] # Nil, fate'[CvvTok(q)] = "stored"
        PROVE  /\ cvvtok'[<<req[q].tenant, CvvTok(q)>>] # Nil
               /\ \/ cvvtokOwner'[<<req[q].tenant, panTok[q]>>] = CvvTok(q)
                  \/ pc'[q] \in StepsBeforeSetOwner
    <2>1. CvvTok(q) \in TokenIDs /\ req[q].tenant \in Tenants
      BY <1>9, CvvToks, HandlerKeys
    <2>2. /\ fate[CvvTok(q)] = "stored"
          /\ cvvtok'[<<req[q].tenant, CvvTok(q)>>] = cvvtok[<<req[q].tenant, CvvTok(q)>>]
      BY <1>5, <1>9, <2>1 DEF StoredOnlyEnd
    <2>3. pc[q] \in StepsBeforeSetOwner => pc'[q] \in StepsBeforeSetOwner
      BY <1>1 DEF StepsBeforeSetOwner
    <2> QED
      BY <1>5, <1>9, <2>2, <2>3 DEF LastOwnersOK
  <1>10. \A q \in Requests : pc'[q] \in {"delPrevious", "setOwner"} => q = r
    BY <1>1, <1>8 DEF StepsBeforeSetOwner
  <1>11. owner # Nil => fate'[owner] # "stored"
    BY <1>6, <1>7
  <1> HIDE DEF owner
  <1>12. \A q \in Requests :
           /\ pc'[q] # "delPrevious"
           /\ pc'[q] = "setOwner" /\ cvvtokOwner'[<<req'[q].tenant, panTok'[q]>>] # Nil
                => fate'[cvvtokOwner'[<<req'[q].tenant, panTok'[q]>>]] # "stored"
    BY <1>1, <1>5, <1>10, <1>11 DEF owner
  <1> QED
    BY <1>1, <1>9, <1>12 DEF LastOwnersOK

\* SET of the owner: it names the new token, and the one it named before is gone.
LEMMA SetOwnerKeepsLast ==
  ASSUME Inv, OwnerInv, OneAtATime, LastOwnersOK, NEW r \in Requests, TokenizeSetOwner(r),
         "redis" \notin Faults
  PROVE  LastOwnersOK'
PROOF
  <1> DEFINE t == req[r].tenant
             k == panTok[r]
             c == CvvTok(r)
             owner == cvvtokOwner[<<t, k>>]
  <1>1. /\ SetCVVTokenOwner(t, k, c) /\ UNCHANGED <<req, panTok, cvvtok, fate>>
        /\ pc[r] = "setOwner" /\ pc'[r] = "auditCVV"
        /\ \A s \in Requests : s # r => pc'[s] = pc[s]
    BY DEF TokenizeSetOwner, SetCVVTokenOwner, Goto, Inv, TypeOK
  <1>2. k # Nil /\ <<t, k>> \in RedisKeys /\ t \in Tenants /\ k \in TokenIDs
    BY <1>1, HandlerKeys DEF Inv, HandlerOK
  <1>3. \A u \in Tenants, j \in TokenIDs :
          cvvtokOwner'[<<u, j>>] = IF u = t /\ j = k THEN c ELSE cvvtokOwner[<<u, j>>]
    <2>1. \A u \in Tenants, j \in TokenIDs : <<u, j>> \in RedisKeys
      BY DEF RedisKeys
    <2>2. cvvtokOwner' = [cvvtokOwner EXCEPT ![<<t, k>>] = c]
      BY <1>1 DEF SetCVVTokenOwner
    <2>3. cvvtokOwner \in [RedisKeys -> TokenIDs \cup {Nil}]
      BY DEF Inv, TypeOK, RedisTypeOK
    <2> HIDE DEF t, k, c
    <2> QED
      BY <1>2, <2>1, <2>2, <2>3
  <1>4. \A q \in Requests : q # r => pc[q] \notin StepsBeforeSetOwner
    BY <1>1 DEF OneAtATime, InFlight, Steps, TokenizeSteps, StepsBeforeSetOwner
  <1>5. owner # Nil => fate[owner] # "stored"
    BY <1>1 DEF LastOwnersOK
  <1>6. ASSUME NEW q \in Requests, panTok[q] # Nil, fate[CvvTok(q)] = "stored"
        PROVE  /\ cvvtok[<<req[q].tenant, CvvTok(q)>>] # Nil
               /\ cvvtokOwner'[<<req[q].tenant, panTok[q]>>] = CvvTok(q)
    <2>1. req[q].tenant \in Tenants /\ panTok[q] \in TokenIDs
      BY <1>6, HandlerKeys
    <2>2. cvvtok[<<req[q].tenant, CvvTok(q)>>] # Nil
      BY <1>6 DEF LastOwnersOK
    <2>3. CASE q = r
      BY <1>3, <2>1, <2>2, <2>3
    <2>4. CASE q # r
      <3>1. cvvtokOwner[<<req[q].tenant, panTok[q]>>] = CvvTok(q)
        BY <1>4, <1>6, <2>4 DEF LastOwnersOK
      <3>2. ~ (req[q].tenant = t /\ panTok[q] = k)
        BY <1>5, <1>6, <3>1, CvvToks
      <3> QED
        BY <1>3, <2>1, <2>2, <3>1, <3>2
    <2> QED
      BY <2>3, <2>4
  <1>7. \A q \in Requests : pc'[q] \notin {"delPrevious", "setOwner"}
    BY <1>1, <1>4 DEF StepsBeforeSetOwner
  <1> QED
    BY <1>1, <1>6, <1>7 DEF LastOwnersOK

\* Commands that neither store nor set an owner: detokenize, expiry, or none.
LEMMA RemovalsAreQuiet ==
  ASSUME RedisTypeOK, NEW t \in Tenants, NEW k \in TokenIDs,
         \/ RetrieveCVVToken(t, k) \/ UNCHANGED redisVars
         \/ CVVTokenExpires(t, k)
         \/ CVVTokenOwnerExpires(t, k)
  PROVE  OwnersOnlyExpire /\ StoredOnlyEnd
PROOF
  <1>1. CASE RetrieveCVVToken(t, k) \/ CVVTokenExpires(t, k)
    BY <1>1, RemovalSealsFate DEF OwnersOnlyExpire
  <1>2. CASE UNCHANGED redisVars
    BY <1>2 DEF redisVars, OwnersOnlyExpire, StoredOnlyEnd
  <1>3. CASE CVVTokenOwnerExpires(t, k)
    <2>1. \A u \in Tenants, j \in TokenIDs : <<u, j>> \in RedisKeys
      BY DEF RedisKeys
    <2>2. /\ cvvtok[<<t, cvvtokOwner[<<t, k>>]>>] = Nil
          /\ cvvtokOwner' = [cvvtokOwner EXCEPT ![<<t, k>>] = Nil]
          /\ UNCHANGED <<cvvtok, fate>>
      BY <1>3 DEF CVVTokenOwnerExpires
    <2>3. \A u \in Tenants, j \in TokenIDs :
            cvvtokOwner'[<<u, j>>] = IF u = t /\ j = k THEN Nil ELSE cvvtokOwner[<<u, j>>]
      BY <2>1, <2>2 DEF RedisTypeOK
    <2> QED
      BY <2>2, <2>3 DEF OwnersOnlyExpire, StoredOnlyEnd
  <1> QED
    BY <1>1, <1>2, <1>3

\* The other handlers neither store a CVV token nor take part in the invalidation.
LEMMA QuietHandlers ==
  ASSUME Inv, NEW r \in Requests,
         \/ Reject(r) \/ Receive(r) \/ UseToken(r)
         \/ TokenizeFindByBlindIndex(r) \/ TokenizeEncryptPAN(r) \/ TokenizeTokenCreate(r)
         \/ TokenizeVaultCreate(r) \/ TokenizeAuditPAN(r) \/ TokenizeAuditCVV(r)
  PROVE  /\ OwnersOnlyExpire /\ StoredOnlyEnd /\ UNCHANGED prev
         /\ pc[r] \notin StepsBeforeSetOwner /\ pc'[r] \notin StepsBeforeSetOwner
         /\ fate[CvvTok(r)] # "none" => panTok'[r] = panTok[r]
PROOF
  <1> USE DEF Goto, Reply, Fail, Inv, TypeOK, StepsBeforeSetOwner
  <1>1. UNCHANGED redisVars => OwnersOnlyExpire /\ StoredOnlyEnd
    BY DEF redisVars, OwnersOnlyExpire, StoredOnlyEnd
  <1>2. CASE Reject(r) \/ Receive(r)
    BY <1>1, <1>2 DEF Reject, Receive, Begin, BeginTokenize, BeginCVV
  <1>3. CASE DetokenizeRetrieveCVVToken(r)
    <2>1. req[r].tenant \in Tenants /\ req[r].token \in TokenIDs
      BY <1>3 DEF DetokenizeRetrieveCVVToken, HandlerOK, TokenSteps, TokenInputs
    <2>2. RetrieveCVVToken(req[r].tenant, req[r].token) \/ UNCHANGED redisVars
      BY <1>3 DEF DetokenizeRetrieveCVVToken
    <2>3. OwnersOnlyExpire /\ StoredOnlyEnd
      BY <2>1, <2>2, RemovalsAreQuiet
    <2> QED
      BY <1>3, <2>3 DEF DetokenizeRetrieveCVVToken
  <1>4. CASE UseToken(r) /\ ~ DetokenizeRetrieveCVVToken(r)
    BY <1>1, <1>4
    DEF UseToken, DetokenizeFindByTokenID, DetokenizeDecryptPAN, DetokenizeUpdateLastUsed,
        StatusFindByTokenID, StatusExistsCVVToken, DeactivateFindByTokenID,
        DeactivateUpdateStatus, AuditAndAnswer
  <1>5. fate[CvvTok(r)] # "none" => pc[r] \notin StepsBeforeStore
    BY DEF CVVTokensOK
  <1>6. CASE TokenizeFindByBlindIndex(r) \/ TokenizeEncryptPAN(r) \/ TokenizeTokenCreate(r)
    BY <1>1, <1>5, <1>6
    DEF TokenizeFindByBlindIndex, TokenizeEncryptPAN, TokenizeTokenCreate, StepsBeforeStore
  <1>7. CASE TokenizeVaultCreate(r) \/ TokenizeAuditPAN(r) \/ TokenizeAuditCVV(r)
    BY <1>1, <1>5, <1>7
    DEF TokenizeVaultCreate, TokenizeAuditPAN, BeginCVV, TokenizeAuditCVV, StepsBeforeStore
  <1> QED
    BY <1>2, <1>3, <1>4, <1>6, <1>7

\* Every step keeps the last CVV token of a PAN token the one its owner key names.
LEMMA LastOwnersStep ==
  ASSUME Inv, OwnerInv, OneAtATime, LastOwnersOK, [Next]_vars,
         "redis" \notin Faults, "crash" \notin Faults
  PROVE  LastOwnersOK'
PROOF
  <1>1. \A s \in Requests : fate[CvvTok(s)] # "none" => req'[s] = req[s]
    <2>1. \A s \in Requests : fate[CvvTok(s)] # "none" => pc[s] # "idle"
      BY DEF Inv, CVVTokensOK, StepsBeforeStore
    <2> QED
      BY <2>1, RequestsStay DEF Inv
  <1>2. ASSUME NEW r \in Requests,
               \/ Reject(r) \/ Receive(r) \/ UseToken(r)
               \/ TokenizeFindByBlindIndex(r) \/ TokenizeEncryptPAN(r) \/ TokenizeTokenCreate(r)
               \/ TokenizeVaultCreate(r) \/ TokenizeAuditPAN(r) \/ TokenizeAuditCVV(r)
        PROVE  LastOwnersOK'
    <2>1. Tokenize(r) \/ Reject(r) \/ Receive(r) \/ UseToken(r)
      BY <1>2 DEF Tokenize
    <2>2. \A s \in Requests : s # r => pc'[s] = pc[s] /\ panTok'[s] = panTok[s]
      BY <2>1, OthersStay DEF Inv
    <2>3. /\ OwnersOnlyExpire /\ StoredOnlyEnd /\ UNCHANGED prev
          /\ pc[r] \notin StepsBeforeSetOwner /\ pc'[r] \notin StepsBeforeSetOwner
          /\ fate[CvvTok(r)] # "none" => panTok'[r] = panTok[r]
      BY <1>2, QuietHandlers
    <2> QED
      BY <1>1, <2>2, <2>3, LastOwnersKept
  <1>3. ASSUME NEW r \in Requests,
               \/ TokenizeStoreCVVToken(r) \/ TokenizeGetOwner(r)
               \/ TokenizeDelPrevious(r) \/ TokenizeSetOwner(r)
        PROVE  LastOwnersOK'
    BY <1>3, StoreKeepsLast, GetOwnerKeepsLast, DelPreviousKeepsLast, SetOwnerKeepsLast
  <1>4. CASE Background
    <2>1. UNCHANGED <<pc, prev, panTok>>
      BY <1>4, BackgroundSteps DEF handlerVars
    <2>2. OwnersOnlyExpire /\ StoredOnlyEnd
      <3>1. CASE UNCHANGED redisVars
        BY <3>1 DEF redisVars, OwnersOnlyExpire, StoredOnlyEnd
      <3>2. CASE \E t \in Tenants, k \in TokenIDs : RedisExpiry(t, k)
        BY <3>2, RemovalsAreQuiet DEF RedisExpiry, Inv, TypeOK
      <3> QED
        BY <1>4, <3>1, <3>2 DEF Background, TenantDeactivated, vars
    <2> QED
      BY <1>1, <2>1, <2>2, LastOwnersKept
  <1>5. \A r \in Requests : ~ Crash(r)
    BY DEF Crash
  <1> QED
    BY <1>2, <1>3, <1>4, <1>5 DEF Next, Background, Tokenize

-----------------------------------------------------------------------------
(* The theorems *)

\* At the start nothing is being served and nothing is stored.
LEMMA SerialStart ==
  ASSUME Init
  PROVE  SerialInv /\ TokenizeSucceeds
PROOF
  <1>1. \A r \in Requests : pc[r] = "idle" /\ req[r].op = "none" /\ code[r] = 0
    BY DEF Init, NoRequest
  <1>2. OneAtATime
    BY <1>1 DEF OneAtATime, InFlight, Steps, TokenizeSteps, TokenSteps
  <1>3. \A k \in TokenIDs : tokens[k] = Nil /\ vault[k] = Nil
    BY DEF Init, DbInit
  <1>4. MintingOK /\ EntriesUnwritten /\ EntriesOK
    BY <1>1, <1>3, PanToks DEF MintingOK, EntriesUnwritten, EntriesOK
  <1>5. RevealsOK /\ TokenizeSucceeds
    BY <1>1 DEF RevealsOK, TokenizeSucceeds
  <1>6. LastOwnersOK
    BY <1>1, CvvToks DEF LastOwnersOK, Init, RedisInit
  <1> QED
    BY <1>2, <1>4, <1>5, <1>6 DEF SerialInv

\* What needs no store to work: one request at a time, and the minting of PAN
\* tokens.
LEMMA MintingHolds ==
  ASSUME MaxInFlight = 1
  PROVE  Spec => [](OneAtATime /\ MintingOK /\ EntriesUnwritten)
PROOF
  <1> DEFINE M == OneAtATime /\ MintingOK /\ EntriesUnwritten
  <1>1. Init => M
    BY SerialStart DEF SerialInv
  <1>2. Inv /\ M /\ [Next]_vars => M'
    BY OneAtATimeStep, MintingStep, EntriesUnwrittenStep DEF Inv
  <1> HIDE DEF M
  <1>3. Spec => []M
    BY <1>1, <1>2, InvariantHolds, PTL DEF Spec
  <1> QED
    BY <1>3 DEF M

\* TokenizeSucceeds: served one at a time and while PostgreSQL and Redis work, no
\* valid tokenize request is answered 500, whatever KMS does and whichever handlers
\* die half-way (tokenize.go: the rows they leave behind are found and used).
THEOREM MintingSucceeds ==
  ASSUME MaxInFlight = 1, "db" \notin Faults, "redis" \notin Faults
  PROVE  Spec => []TokenizeSucceeds
PROOF
  <1>1. Init => TokenizeSucceeds
    BY SerialStart
  <1>2. /\ Inv /\ OneAtATime /\ MintingOK /\ EntriesUnwritten
        /\ TokenizeSucceeds /\ [Next]_vars
        => TokenizeSucceeds'
    BY SucceedsStep
  <1> QED
    BY <1>1, <1>2, MintingHolds, InvariantHolds, PTL DEF Spec

\* NoEmptyReveal: served one at a time, while PostgreSQL works and no handler dies
\* between its two inserts, every token a detokenize call finds has its vault entry
\* and every successful answer a value (detokenize.go, decryptPAN).
THEOREM RevealsAreNotEmpty ==
  ASSUME MaxInFlight = 1, "db" \notin Faults, "crash" \notin Faults
  PROVE  Spec => []NoEmptyReveal
PROOF
  <1> DEFINE E == EntriesOK /\ RevealsOK
             M == OneAtATime /\ MintingOK /\ EntriesUnwritten
  <1>1. Init => E
    BY SerialStart DEF SerialInv
  <1>2. Inv /\ AnswerInv /\ M /\ E /\ [Next]_vars => E'
    BY EntriesStep, RevealsStep DEF AnswerInv
  <1>3. E => NoEmptyReveal
    BY DEF RevealsOK, NoEmptyReveal
  <1>4. Spec => []M
    BY MintingHolds
  <1> HIDE DEF E, M
  <1> QED
    BY <1>1, <1>2, <1>3, <1>4, AnswerInvariant, PTL DEF Spec

\* With nobody being served, the stored CVV tokens of a PAN token are one.
LEMMA LastOwnerIsOne ==
  ASSUME Inv, LastOwnersOK
  PROVE  OneLiveCVV
PROOF
  <1> SUFFICES ASSUME InFlight = {}, NEW k \in TokenIDs
               PROVE  Cardinality({c \in CVVTokensOf(k) : fate[c] = "stored"}) <= 1
    BY DEF OneLiveCVV
  <1> DEFINE live == {c \in CVVTokensOf(k) : fate[c] = "stored"}
  <1>1. ASSUME NEW c \in live
        PROVE  \A q \in Requests : panTok[q] = k => cvvtokOwner[<<req[q].tenant, k>>] = c
    <2>1. PICK s \in Requests : c = CvvTok(s) /\ panTok[s] = k
      BY TokensOfPAN
    <2>2. k # Nil /\ fate[CvvTok(s)] = "stored" /\ pc[s] \notin StepsBeforeSetOwner
      BY <2>1, NoKeyAssumption DEF InFlight, Steps, TokenizeSteps, StepsBeforeSetOwner
    <2>3. cvvtokOwner[<<req[s].tenant, k>>] = c
      BY <2>1, <2>2 DEF LastOwnersOK
    <2> QED
      BY <2>1, <2>2, <2>3, HandlerKeys
  <1>2. ASSUME NEW c \in live, NEW d \in live
        PROVE  c = d
    <2>1. PICK s \in Requests : panTok[s] = k
      BY TokensOfPAN
    <2>2. cvvtokOwner[<<req[s].tenant, k>>] = c /\ cvvtokOwner[<<req[s].tenant, k>>] = d
      BY <1>1, <2>1
    <2> QED
      BY <2>2
  <1>3. CASE live = {}
    BY <1>3, FS_EmptySet
  <1>4. ASSUME NEW c \in live
        PROVE  Cardinality(live) <= 1
    <2>1. live = {c}
      BY <1>2
    <2>2. Cardinality({c}) = 1
      BY FS_Singleton
    <2> QED
      BY <2>1, <2>2
  <1> QED
    BY <1>3, <1>4

\* OneLiveCVV: served one at a time, while Redis works and no handler dies within
\* InvalidatePreviousCVVToken, at most one CVV token of a PAN token stays in Redis
\* (cvv_store.go:95), whatever is consumed or expires in between.
THEOREM OneCVVStays ==
  ASSUME MaxInFlight = 1, "redis" \notin Faults, "crash" \notin Faults
  PROVE  Spec => []OneLiveCVV
PROOF
  <1>1. Init => OneAtATime /\ LastOwnersOK
    BY SerialStart DEF SerialInv
  <1>2. Inv /\ OwnerInv /\ OneAtATime /\ LastOwnersOK /\ [Next]_vars
          => OneAtATime' /\ LastOwnersOK'
    BY OneAtATimeStep, LastOwnersStep DEF Inv
  <1>3. Inv /\ LastOwnersOK => OneLiveCVV
    BY LastOwnerIsOne
  <1> QED
    BY <1>1, <1>2, <1>3, OwnerInvariant, PTL DEF Spec

\* SerialInv, all that one handler at a time can rely on: no row, vault entry or
\* owner key moves under it, as long as only KMS may fail.
THEOREM SerialInvariant ==
  ASSUME MaxInFlight = 1, Faults \subseteq {"kms"}
  PROVE  Spec => []SerialInv
PROOF
  <1>1. "db" \notin Faults /\ "redis" \notin Faults /\ "crash" \notin Faults
    OBVIOUS
  <1>2. Init => SerialInv
    BY SerialStart
  <1>3. Inv /\ OwnerInv /\ AnswerInv /\ SerialInv /\ [Next]_vars => SerialInv'
    BY <1>1, OneAtATimeStep, MintingStep, EntriesUnwrittenStep, EntriesStep, RevealsStep,
       LastOwnersStep
    DEF SerialInv, Inv, AnswerInv
  <1> QED
    BY <1>2, <1>3, OwnerInvariant, AnswerInvariant, PTL DEF Spec
===============================================================================

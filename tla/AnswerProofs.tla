----------------------------- MODULE AnswerProofs -----------------------------
(***************************************************************************)
(* What answers carry: nothing of a token that had ended when the request  *)
(* arrived, and otherwise the very field the token was minted for.         *)
(***************************************************************************)
EXTENDS CVVProofs

-----------------------------------------------------------------------------
(* What does not change any more *)

\* Token identifiers name the request that minted them and the field.
LEMMA PanToks ==
  /\ \A r \in Requests : /\ PanTok(r) \in TokenIDs /\ PanTok(r) # Nil
                         /\ PanTok(r)[1] = "pan" /\ PanTok(r)[2] = r
  /\ \A r \in Requests : CvvTok(r)[1] = "cvv" /\ CvvTok(r)[2] = r
  /\ \A k \in TokenIDs : k[2] \in Requests /\ (k[1] = "pan" => k = PanTok(k[2]))
                                            /\ (k[1] = "cvv" => k = CvvTok(k[2]))
PROOF
  BY NoKeyAssumption DEF PanTok, CvvTok, TokenIDs

\* Statements on "tokens": rows stay with their tenant, and inactive ones inactive.
LEMMA RowsKept ==
  ASSUME Inv, [Next]_vars, NEW k \in TokenIDs, tokens[k] # Nil
  PROVE  /\ tokens'[k] # Nil /\ tokens'[k].tenant = tokens[k].tenant
         /\ tokens'[k].blindIndex = tokens[k].blindIndex
         /\ tokens[k].status = "inactive" => tokens'[k].status = "inactive"
PROOF
  <1> DEFINE Kept == /\ tokens'[k] # Nil /\ tokens'[k].tenant = tokens[k].tenant
                     /\ tokens'[k].blindIndex = tokens[k].blindIndex
                     /\ tokens[k].status = "inactive" => tokens'[k].status = "inactive"
  <1>1. CASE UNCHANGED tokens
    BY <1>1
  <1>2. ASSUME NEW t \in Tenants, NEW j \in TokenIDs,
               UpdateStatus(t, j, "inactive") \/ UpdateLastUsed(t, j)
        PROVE  Kept
    BY <1>2, UpdatesKeepRows DEF Inv, TypeOK
  <1>3. ASSUME NEW r \in Requests, TokenizeTokenCreate(r)
        PROVE  Kept
    BY <1>3, PanToks
    DEF TokenizeTokenCreate, TokenCreate, TokenCreateAccepted, Inv, TypeOK, DbTypeOK
  <1>4. ASSUME NEW r \in Requests, DetokenizeUpdateLastUsed(r) \/ DeactivateUpdateStatus(r)
        PROVE  Kept
    <2>1. req[r].tenant \in Tenants /\ req[r].token \in TokenIDs
      BY <1>4
      DEF DetokenizeUpdateLastUsed, DeactivateUpdateStatus, Inv, TypeOK, HandlerOK, TokenSteps,
          TokenInputs
    <2> QED
      BY <1>1, <1>2, <1>4, <2>1 DEF DetokenizeUpdateLastUsed, DeactivateUpdateStatus
  <1>5. ASSUME NEW r \in Requests, Tokenize(r)
        PROVE  UNCHANGED tokens \/ TokenizeTokenCreate(r)
    BY <1>5
    DEF dbVars, Tokenize, TokenizeFindByBlindIndex, TokenizeEncryptPAN, TokenizeVaultCreate,
        TokenizeAuditPAN, TokenizeStoreCVVToken, TokenizeGetOwner, TokenizeDelPrevious,
        TokenizeSetOwner, TokenizeAuditCVV
  <1>6. ASSUME NEW r \in Requests, UseToken(r)
        PROVE  UNCHANGED tokens \/ DetokenizeUpdateLastUsed(r) \/ DeactivateUpdateStatus(r)
    BY <1>6
    DEF dbVars, UseToken, DetokenizeFindByTokenID, DetokenizeDecryptPAN,
        DetokenizeRetrieveCVVToken, StatusFindByTokenID, StatusExistsCVVToken,
        DeactivateFindByTokenID, AuditAndAnswer
  <1>7. ASSUME NEW r \in Requests, Reject(r) \/ Receive(r) \/ Crash(r)
        PROVE  UNCHANGED tokens
    BY <1>7 DEF Reject, Receive, Begin, Crash, dbVars
  <1>8. CASE \/ \E t \in Tenants : TenantDeactivated(t)
             \/ \E t \in Tenants, j \in TokenIDs : RedisExpiry(t, j)
             \/ UNCHANGED vars
    BY <1>1, <1>8 DEF TenantDeactivated, DeactivateTenant, RedisExpiry, vars, dbVars
  <1> QED
    BY <1>1, <1>3, <1>4, <1>5, <1>6, <1>7, <1>8 DEF Next

\* INSERT INTO tokens: a new row is for the PAN of the request that minted the token.
LEMMA RowsMade ==
  ASSUME Inv, [Next]_vars, NEW k \in TokenIDs, tokens[k] = Nil, tokens'[k] # Nil
  PROVE  \E r \in Requests :
           /\ TokenizeTokenCreate(r) /\ k = PanTok(r)
           /\ tokens'[k].tenant = req[r].tenant
           /\ tokens'[k].blindIndex = ComputeBlindIndex(req[r].tenant, req[r].pan)
PROOF
  <1>1. ASSUME NEW t \in Tenants, NEW j \in TokenIDs
        PROVE  ~ UpdateStatus(t, j, "inactive") /\ ~ UpdateLastUsed(t, j)
    BY <1>1, UpdatesKeepRows DEF Inv, TypeOK
  <1>2. ASSUME NEW r \in Requests, Tokenize(r)
        PROVE  TokenizeTokenCreate(r)
    BY <1>2
    DEF dbVars, Tokenize, TokenizeFindByBlindIndex, TokenizeEncryptPAN, TokenizeVaultCreate,
        TokenizeAuditPAN, TokenizeStoreCVVToken, TokenizeGetOwner, TokenizeDelPrevious,
        TokenizeSetOwner, TokenizeAuditCVV
  <1>3. ASSUME NEW r \in Requests, UseToken(r)
        PROVE  FALSE
    <2>1. CASE DetokenizeUpdateLastUsed(r) \/ DeactivateUpdateStatus(r)
      <3>1. req[r].tenant \in Tenants /\ req[r].token \in TokenIDs
        BY <2>1
        DEF DetokenizeUpdateLastUsed, DeactivateUpdateStatus, Inv, TypeOK, HandlerOK,
            TokenSteps, TokenInputs
      <3> QED
        BY <1>1, <2>1, <3>1 DEF DetokenizeUpdateLastUsed, DeactivateUpdateStatus
    <2> QED
      BY <1>3, <2>1
      DEF dbVars, UseToken, DetokenizeFindByTokenID, DetokenizeDecryptPAN,
          DetokenizeRetrieveCVVToken, StatusFindByTokenID, StatusExistsCVVToken,
          DeactivateFindByTokenID, AuditAndAnswer
  <1>4. ASSUME NEW r \in Requests, Reject(r) \/ Receive(r) \/ Crash(r)
        PROVE  FALSE
    BY <1>4 DEF Reject, Receive, Begin, Crash, dbVars
  <1>5. ~ \/ \E t \in Tenants : TenantDeactivated(t)
          \/ \E t \in Tenants, j \in TokenIDs : RedisExpiry(t, j)
          \/ UNCHANGED vars
    BY DEF TenantDeactivated, DeactivateTenant, RedisExpiry, vars, dbVars
  <1>6. PICK r \in Requests : TokenizeTokenCreate(r)
    BY <1>2, <1>3, <1>4, <1>5 DEF Next
  <1> QED
    BY <1>6, PanToks
    DEF TokenizeTokenCreate, TokenCreate, Inv, TypeOK, DbTypeOK

\* The commands of Redis: a sealed fate stays, and only new tokens are stored.
LEMMA FatesKept ==
  ASSUME Inv, [Next]_vars, NEW j \in TokenIDs
  PROVE  /\ fate[j] \in {"consumed", "expired", "invalidated"} => fate'[j] = fate[j]
         /\ fate[j] = "none" /\ fate'[j] # "none" =>
              \E r \in Requests : TokenizeStoreCVVToken(r) /\ j = CvvTok(r)
PROOF
  <1>1. CASE UNCHANGED fate
    BY <1>1
  <1>2. ASSUME NEW t \in Tenants, NEW k \in TokenIDs,
               \/ RetrieveCVVToken(t, k) \/ DeleteCVVToken(t, k)
               \/ CVVTokenExpires(t, k) \/ CVVTokenOwnerExpires(t, k)
        PROVE  fate'[j] = fate[j] \/ fate[j] = "stored"
    BY <1>2, RemovalKeepsOtherKeys DEF Inv, TypeOK
  <1>3. ASSUME NEW r \in Requests, TokenizeStoreCVVToken(r), ~ UNCHANGED fate
        PROVE  fate'[j] = fate[j] \/ (j = CvvTok(r) /\ fate[j] = "none")
    BY <1>3, CvvToks
    DEF TokenizeStoreCVVToken, StoreCVVToken, redisVars, Inv, TypeOK, RedisTypeOK, CVVTokensOK,
        StepsBeforeStore
  <1>4. ASSUME NEW r \in Requests, TokenizeDelPrevious(r), ~ UNCHANGED fate
        PROVE  fate'[j] = fate[j] \/ fate[j] = "stored"
    <2>1. req[r].tenant \in Tenants /\ prev[r] \in TokenIDs
      BY <1>4 DEF TokenizeDelPrevious, Inv, TypeOK, HandlerOK, TokenizeSteps, TokenizeInputs
    <2> QED
      BY <1>2, <1>4, <2>1 DEF TokenizeDelPrevious, redisVars
  <1>5. ASSUME NEW r \in Requests, DetokenizeRetrieveCVVToken(r), ~ UNCHANGED fate
        PROVE  fate'[j] = fate[j] \/ fate[j] = "stored"
    <2>1. req[r].tenant \in Tenants /\ req[r].token \in TokenIDs
      BY <1>5 DEF DetokenizeRetrieveCVVToken, Inv, TypeOK, HandlerOK, TokenSteps, TokenInputs
    <2> QED
      BY <1>2, <1>5, <2>1 DEF DetokenizeRetrieveCVVToken, redisVars
  <1>6. ASSUME NEW r \in Requests, Tokenize(r)
        PROVE  UNCHANGED fate \/ TokenizeStoreCVVToken(r) \/ TokenizeDelPrevious(r)
    BY <1>6
    DEF redisVars, Tokenize, TokenizeFindByBlindIndex, TokenizeEncryptPAN, TokenizeTokenCreate,
        TokenizeVaultCreate, TokenizeAuditPAN, TokenizeGetOwner, TokenizeSetOwner,
        SetCVVTokenOwner, TokenizeAuditCVV
  <1>7. ASSUME NEW r \in Requests, UseToken(r)
        PROVE  UNCHANGED fate \/ DetokenizeRetrieveCVVToken(r)
    BY <1>7
    DEF redisVars, UseToken, DetokenizeFindByTokenID, DetokenizeDecryptPAN,
        DetokenizeUpdateLastUsed, StatusFindByTokenID, StatusExistsCVVToken,
        DeactivateFindByTokenID, DeactivateUpdateStatus, AuditAndAnswer
  <1>8. ASSUME NEW r \in Requests, Reject(r) \/ Receive(r) \/ Crash(r)
        PROVE  UNCHANGED fate
    BY <1>8 DEF Reject, Receive, Begin, Crash, redisVars
  <1>9. CASE (\E t \in Tenants : TenantDeactivated(t)) \/ UNCHANGED vars
    BY <1>1, <1>9 DEF TenantDeactivated, vars, redisVars
  <1>10. ASSUME NEW t \in Tenants, NEW k \in TokenIDs, RedisExpiry(t, k)
        PROVE  fate'[j] = fate[j] \/ fate[j] = "stored"
    BY <1>2, <1>10 DEF RedisExpiry
  <1> QED
    BY <1>1, <1>3, <1>4, <1>5, <1>6, <1>7, <1>8, <1>9, <1>10 DEF Next

\* A token that has ended does not come back.
LEMMA EndedForGood ==
  ASSUME Inv, [Next]_vars, NEW k \in TokenIDs, Ended(k)
  PROVE  Ended(k)'
PROOF
  BY RowsKept, FatesKept DEF Ended

\* A step of one handler is no step of another one.
LEMMA OthersStay ==
  ASSUME TypeOK, NEW r \in Requests, NEW s \in Requests, s # r,
         Reject(r) \/ Receive(r) \/ Crash(r) \/ Tokenize(r) \/ UseToken(r)
  PROVE  /\ pc'[s] = pc[s] /\ code'[s] = code[s] /\ req'[s] = req[s]
         /\ late'[s] = late[s] /\ val'[s] = val[s] /\ panTok'[s] = panTok[s]
PROOF
  <1> USE DEF TypeOK, Goto, Reply, Fail
  <1>1. CASE Reject(r) \/ Receive(r) \/ Crash(r)
    BY <1>1 DEF Reject, Receive, Begin, BeginTokenize, BeginCVV, Crash
  <1>2. CASE Tokenize(r)
    BY <1>2
    DEF Tokenize, TokenizeFindByBlindIndex, TokenizeEncryptPAN, TokenizeTokenCreate,
        TokenizeVaultCreate, TokenizeAuditPAN, BeginCVV, TokenizeStoreCVVToken, TokenizeGetOwner,
        TokenizeDelPrevious, TokenizeSetOwner, TokenizeAuditCVV
  <1>3. CASE UseToken(r)
    BY <1>3
    DEF UseToken, DetokenizeFindByTokenID, DetokenizeDecryptPAN, DetokenizeUpdateLastUsed,
        DetokenizeRetrieveCVVToken, StatusFindByTokenID, StatusExistsCVVToken,
        DeactivateFindByTokenID, DeactivateUpdateStatus, AuditAndAnswer
  <1> QED
    BY <1>1, <1>2, <1>3

\* A request that has been received is the same for ever.
LEMMA RequestsStay ==
  ASSUME TypeOK, [Next]_vars, NEW s \in Requests, pc[s] # "idle"
  PROVE  req'[s] = req[s]
PROOF
  <1>1. ASSUME NEW r \in Requests,
               Reject(r) \/ Receive(r) \/ Crash(r) \/ Tokenize(r) \/ UseToken(r)
        PROVE  req'[s] = req[s]
    <2>1. CASE s # r
      BY <1>1, <2>1, OthersStay
    <2>2. CASE s = r
      BY <1>1, <2>2
      DEF Reject, Receive, Begin, Crash, Tokenize, UseToken, TokenizeFindByBlindIndex,
          TokenizeEncryptPAN, TokenizeTokenCreate, TokenizeVaultCreate, TokenizeAuditPAN,
          TokenizeStoreCVVToken, TokenizeGetOwner, TokenizeDelPrevious, TokenizeSetOwner,
          TokenizeAuditCVV, DetokenizeFindByTokenID, DetokenizeDecryptPAN,
          DetokenizeUpdateLastUsed, DetokenizeRetrieveCVVToken, StatusFindByTokenID,
          StatusExistsCVVToken, DeactivateFindByTokenID, DeactivateUpdateStatus, AuditAndAnswer
    <2> QED
      BY <2>1, <2>2
  <1>2. CASE \/ \E t \in Tenants : TenantDeactivated(t)
             \/ \E t \in Tenants, j \in TokenIDs : RedisExpiry(t, j)
             \/ UNCHANGED vars
    BY <1>2 DEF TenantDeactivated, RedisExpiry, vars, handlerVars
  <1> QED
    BY <1>1, <1>2 DEF Next

-----------------------------------------------------------------------------
(* What is stored *)

\* A vault entry is written by the request that minted the token, or stays.
LEMMA EntriesKept ==
  ASSUME Inv, [Next]_vars, NEW k \in TokenIDs, vault'[k] # vault[k]
  PROVE  \E r \in Requests : /\ TokenizeVaultCreate(r) /\ k = PanTok(r)
                             /\ vault'[k].tenant = req[r].tenant
                             /\ vault'[k].ciphertext = Encrypt(req[r].pan, k)
                             /\ vault'[k].dekEncrypted.dek = k
PROOF
  <1>1. ASSUME NEW r \in Requests, Tokenize(r)
        PROVE  TokenizeVaultCreate(r)
    BY <1>1
    DEF dbVars, Tokenize, TokenizeFindByBlindIndex, TokenizeEncryptPAN, TokenizeTokenCreate,
        TokenizeAuditPAN, TokenizeStoreCVVToken, TokenizeGetOwner, TokenizeDelPrevious,
        TokenizeSetOwner, TokenizeAuditCVV
  <1>2. ASSUME NEW r \in Requests, Reject(r) \/ Receive(r) \/ Crash(r) \/ UseToken(r)
        PROVE  FALSE
    BY <1>2
    DEF Reject, Receive, Begin, Crash, dbVars, UseToken, DetokenizeFindByTokenID,
        DetokenizeDecryptPAN, DetokenizeUpdateLastUsed, DetokenizeRetrieveCVVToken,
        StatusFindByTokenID, StatusExistsCVVToken, DeactivateFindByTokenID,
        DeactivateUpdateStatus, AuditAndAnswer
  <1>3. ~ \/ \E t \in Tenants : TenantDeactivated(t)
          \/ \E t \in Tenants, j \in TokenIDs : RedisExpiry(t, j)
          \/ UNCHANGED vars
    BY DEF TenantDeactivated, DeactivateTenant, RedisExpiry, vars, dbVars
  <1>4. PICK r \in Requests : TokenizeVaultCreate(r)
    BY <1>1, <1>2, <1>3 DEF Next
  <1>5. VaultCreate(req[r].tenant, PanTok(r), Encrypt(req[r].pan, PanTok(r)),
                    GenerateDataKey(req[r].tenant, PanTok(r)))
    BY <1>4 DEF TokenizeVaultCreate
  <1>6. k = PanTok(r)
    BY <1>5, PanToks DEF VaultCreate, Inv, TypeOK, DbTypeOK
  <1>7. vault'[k] = [tenant |-> req[r].tenant, ciphertext |-> Encrypt(req[r].pan, k),
                     dekEncrypted |-> GenerateDataKey(req[r].tenant, k)]
    BY <1>5, <1>6 DEF VaultCreate, Inv, TypeOK, DbTypeOK
  <1> QED
    BY <1>4, <1>6, <1>7 DEF GenerateDataKey

\* A CVV is stored by the request that minted the token, or stays, or goes.
LEMMA KeysKept ==
  ASSUME Inv, [Next]_vars, NEW t \in Tenants, NEW k \in TokenIDs,
         cvvtok'[<<t, k>>] # Nil, cvvtok'[<<t, k>>] # cvvtok[<<t, k>>]
  PROVE  \E r \in Requests : /\ TokenizeStoreCVVToken(r) /\ k = CvvTok(r)
                             /\ cvvtok'[<<t, k>>] = Encrypt(req[r].cvv, k)
PROOF
  <1>1. <<t, k>> \in RedisKeys
    BY DEF RedisKeys
  <1>2. \A u, j : ~ RetrieveCVVToken(u, j) /\ ~ DeleteCVVToken(u, j) /\ ~ CVVTokenExpires(u, j)
    BY <1>1 DEF RetrieveCVVToken, DeleteCVVToken, CVVTokenExpires, Inv, TypeOK, RedisTypeOK
  <1>3. ASSUME NEW r \in Requests, Tokenize(r)
        PROVE  TokenizeStoreCVVToken(r)
    BY <1>2, <1>3
    DEF redisVars, Tokenize, TokenizeFindByBlindIndex, TokenizeEncryptPAN, TokenizeTokenCreate,
        TokenizeVaultCreate, TokenizeAuditPAN, TokenizeGetOwner, TokenizeDelPrevious,
        TokenizeSetOwner, SetCVVTokenOwner, TokenizeAuditCVV
  <1>4. ASSUME NEW r \in Requests, Reject(r) \/ Receive(r) \/ Crash(r) \/ UseToken(r)
        PROVE  FALSE
    BY <1>2, <1>4
    DEF Reject, Receive, Begin, Crash, redisVars, UseToken, DetokenizeFindByTokenID,
        DetokenizeDecryptPAN, DetokenizeUpdateLastUsed, DetokenizeRetrieveCVVToken,
        StatusFindByTokenID, StatusExistsCVVToken, DeactivateFindByTokenID,
        DeactivateUpdateStatus, AuditAndAnswer
  <1>5. ~ \/ \E u \in Tenants : TenantDeactivated(u)
          \/ \E u \in Tenants, j \in TokenIDs : RedisExpiry(u, j)
          \/ UNCHANGED vars
    BY <1>2 DEF TenantDeactivated, RedisExpiry, CVVTokenOwnerExpires, vars, redisVars
  <1>6. PICK r \in Requests : TokenizeStoreCVVToken(r)
    BY <1>3, <1>4, <1>5 DEF Next
  <1>7. cvvtok' = [cvvtok EXCEPT ![<<req[r].tenant, CvvTok(r)>>]
                                   = Encrypt(req[r].cvv, CvvTok(r))]
    BY <1>6 DEF TokenizeStoreCVVToken, StoreCVVToken, redisVars
  <1> QED
    BY <1>1, <1>6, <1>7 DEF Inv, TypeOK, RedisTypeOK

\* Every step keeps what is stored tied to the request that minted its token.
LEMMA StoredStep ==
  ASSUME Inv, StoredOK, [Next]_vars
  PROVE  StoredOK'
PROOF
  <1>1. ASSUME NEW s \in Requests, req[s].op = "tokenize"
        PROVE  req'[s] = req[s]
    <2>1. pc[s] # "idle"
      BY <1>1 DEF Inv, HandlerOK, NoRequest
    <2> QED
      BY <2>1, RequestsStay DEF Inv
  <1>2. ASSUME NEW s \in Requests, pc[s] \in TokenizeSteps
        PROVE  req[s].op = "tokenize"
    BY <1>2 DEF Inv, HandlerOK, TokenizeInputs
  <1>3. ASSUME NEW k \in TokenIDs, fate'[k] # "none"
        PROVE  k[1] = "cvv"
    BY <1>3, FatesKept, PanToks DEF StoredOK
  <1>4. ASSUME NEW k \in TokenIDs, tokens'[k] # Nil
        PROVE  LET a == req'[k[2]]
               IN  /\ a.op = "tokenize" /\ a.pan \in PANs /\ tokens'[k].tenant = a.tenant
                   /\ tokens'[k].blindIndex = ComputeBlindIndex(a.tenant, a.pan)
    <2>1. CASE tokens[k] # Nil
      BY <1>1, <2>1, PanToks, RowsKept DEF StoredOK
    <2>2. CASE tokens[k] = Nil
      <3>1. PICK r \in Requests :
              /\ TokenizeTokenCreate(r) /\ k = PanTok(r)
              /\ tokens'[k].tenant = req[r].tenant
              /\ tokens'[k].blindIndex = ComputeBlindIndex(req[r].tenant, req[r].pan)
        BY <1>4, <2>2, RowsMade
      <3>2. req[r].op = "tokenize" /\ req[r].pan \in PANs
        BY <1>2, <3>1 DEF TokenizeTokenCreate, TokenizeSteps, Inv, HandlerOK
      <3> QED
        BY <1>1, <3>1, <3>2, PanToks
    <2> QED
      BY <2>1, <2>2
  <1>5. ASSUME NEW k \in TokenIDs, vault'[k] # Nil
        PROVE  LET a == req'[k[2]]
               IN  /\ k[1] = "pan" /\ a.op = "tokenize" /\ vault'[k].tenant = a.tenant
                   /\ vault'[k].ciphertext = Encrypt(a.pan, k) /\ vault'[k].dekEncrypted.dek = k
    <2>1. CASE vault'[k] = vault[k]
      BY <1>1, <1>5, <2>1, PanToks DEF StoredOK
    <2>2. CASE vault'[k] # vault[k]
      <3>1. PICK r \in Requests : /\ TokenizeVaultCreate(r) /\ k = PanTok(r)
                                  /\ vault'[k].tenant = req[r].tenant
                                  /\ vault'[k].ciphertext = Encrypt(req[r].pan, k)
                                  /\ vault'[k].dekEncrypted.dek = k
        BY <2>2, EntriesKept
      <3>2. req[r].op = "tokenize"
        BY <1>2, <3>1 DEF TokenizeVaultCreate, TokenizeSteps
      <3> QED
        BY <1>1, <3>1, <3>2, PanToks
    <2> QED
      BY <2>1, <2>2
  <1>6. ASSUME NEW t \in Tenants, NEW k \in TokenIDs, cvvtok'[<<t, k>>] # Nil
        PROVE  req'[k[2]].op = "tokenize" /\ cvvtok'[<<t, k>>] = Encrypt(req'[k[2]].cvv, k)
    <2>1. CASE cvvtok'[<<t, k>>] = cvvtok[<<t, k>>]
      BY <1>1, <1>6, <2>1, PanToks DEF StoredOK
    <2>2. CASE cvvtok'[<<t, k>>] # cvvtok[<<t, k>>]
      <3>1. PICK r \in Requests : /\ TokenizeStoreCVVToken(r) /\ k = CvvTok(r)
                                  /\ cvvtok'[<<t, k>>] = Encrypt(req[r].cvv, k)
        BY <1>6, <2>2, KeysKept
      <3>2. req[r].op = "tokenize"
        BY <1>2, <3>1 DEF TokenizeStoreCVVToken, TokenizeSteps
      <3> QED
        BY <1>1, <3>1, <3>2, PanToks
    <2> QED
      BY <2>1, <2>2
  <1> QED
    BY <1>3, <1>4, <1>5, <1>6 DEF StoredOK, Encrypt, ComputeBlindIndex

-----------------------------------------------------------------------------
(* What detokenize reveals *)

Reveals(r) ==
  req[r].op = "detokenize" /\ val[r] # Nil =>
    \E s \in Requests :
      /\ req[s].op = "tokenize" /\ req[s].tenant = req[r].tenant
      /\ \/ req[r].token = PanTok(s) /\ val[r] = req[s].pan
         \/ req[r].token = CvvTok(s) /\ val[r] = req[s].cvv

\* A value is found in the vault or in Redis, under the token and its tenant.
LEMMA RevealStep ==
  ASSUME Inv, StoredOK, RevealsWhatWasTokenized, [Next]_vars
  PROVE  RevealsWhatWasTokenized'
PROOF
  <1>1. ASSUME NEW s \in Requests, req[s].op = "tokenize"
        PROVE  req'[s] = req[s]
    <2>1. pc[s] # "idle"
      BY <1>1 DEF Inv, HandlerOK, NoRequest
    <2> QED
      BY <2>1, RequestsStay DEF Inv
  <1>2. ASSUME NEW r \in Requests, req'[r] = req[r], val'[r] = val[r]
        PROVE  Reveals(r)'
    BY <1>1, <1>2 DEF RevealsWhatWasTokenized, Reveals
  <1>3. ASSUME NEW r \in Requests, val'[r] = Nil
        PROVE  Reveals(r)'
    BY <1>3 DEF Reveals
  <1>4. ASSUME NEW r \in Requests, DetokenizeDecryptPAN(r)
        PROVE  Reveals(r)'
    <2> DEFINE k == req[r].token
               t == req[r].tenant
               ve == VaultFindByTokenID(t, k)
    <2>1. k \in TokenIDs /\ t \in Tenants /\ UNCHANGED req
      BY <1>4 DEF DetokenizeDecryptPAN, Inv, HandlerOK, TokenSteps, TokenInputs
    <2>2. CASE val'[r] = val[r]
      BY <1>2, <2>1, <2>2
    <2>3. CASE val'[r] # val[r]
      <3>1. /\ ve # Nil
            /\ val'[r] = Decrypt(ve.ciphertext, UnwrapKey(ve.dekEncrypted))
        BY <1>4, <2>3 DEF DetokenizeDecryptPAN, Inv, TypeOK
      <3>2. vault[k] # Nil /\ ve = vault[k] /\ vault[k].tenant = t
        BY <3>1 DEF VaultFindByTokenID
      <3>3. /\ k = PanTok(k[2]) /\ k[2] \in Requests
            /\ req[k[2]].op = "tokenize" /\ req[k[2]].tenant = t
            /\ vault[k].ciphertext = Encrypt(req[k[2]].pan, k) /\ vault[k].dekEncrypted.dek = k
        BY <2>1, <3>2, PanToks DEF StoredOK
      <3>4. val'[r] = req[k[2]].pan
        BY <3>1, <3>2, <3>3 DEF Decrypt, Encrypt, UnwrapKey
      <3> QED
        BY <2>1, <3>3, <3>4 DEF Reveals
    <2> QED
      BY <2>2, <2>3
  <1>5. ASSUME NEW r \in Requests, DetokenizeRetrieveCVVToken(r)
        PROVE  Reveals(r)'
    <2> DEFINE k == req[r].token
               t == req[r].tenant
    <2>1. k \in TokenIDs /\ t \in Tenants /\ UNCHANGED req
      BY <1>5 DEF DetokenizeRetrieveCVVToken, Inv, HandlerOK, TokenSteps, TokenInputs
    <2>2. CASE val'[r] = val[r]
      BY <1>2, <2>1, <2>2
    <2>3. CASE val'[r] # val[r]
      <3>1. /\ cvvtok[<<t, k>>] # Nil
            /\ val'[r] = Decrypt(cvvtok[<<t, k>>], cvvtok[<<t, k>>].dek)
        BY <1>5, <2>3 DEF DetokenizeRetrieveCVVToken, Inv, TypeOK
      <3>2. /\ k = CvvTok(k[2]) /\ k[2] \in Requests
            /\ req[k[2]].op = "tokenize" /\ req[k[2]].tenant = t
            /\ cvvtok[<<t, k>>] = Encrypt(req[k[2]].cvv, k)
        BY <2>1, <3>1, PanToks DEF StoredOK, Inv, CVVTokensOK
      <3>3. val'[r] = req[k[2]].cvv
        BY <3>1, <3>2 DEF Decrypt, Encrypt
      <3> QED
        BY <2>1, <3>2, <3>3 DEF Reveals
    <2> QED
      BY <2>2, <2>3
  <1>6. ASSUME NEW r \in Requests,
               Reject(r) \/ Receive(r) \/ Crash(r) \/ Tokenize(r) \/ UseToken(r)
        PROVE  Reveals(r)'
    <2>1. CASE pc[r] = "idle"
      <3>1. val[r] = Nil /\ UNCHANGED val
        BY <1>6, <2>1
        DEF Reject, Receive, Begin, Crash, Steps, TokenizeSteps, TokenSteps, Tokenize, UseToken,
            TokenizeFindByBlindIndex, TokenizeEncryptPAN, TokenizeTokenCreate,
            TokenizeVaultCreate, TokenizeAuditPAN, TokenizeStoreCVVToken, TokenizeGetOwner,
            TokenizeDelPrevious, TokenizeSetOwner, TokenizeAuditCVV, DetokenizeFindByTokenID,
            DetokenizeDecryptPAN, DetokenizeUpdateLastUsed, DetokenizeRetrieveCVVToken,
            StatusFindByTokenID, StatusExistsCVVToken, DeactivateFindByTokenID,
            DeactivateUpdateStatus, AuditAndAnswer, Inv, HandlerOK
      <3> QED
        BY <1>3, <3>1
    <2>2. CASE pc[r] # "idle"
      <3>1. req'[r] = req[r]
        BY <2>2, RequestsStay DEF Inv
      <3>2. \/ val'[r] = val[r] \/ req[r].op # "detokenize"
            \/ DetokenizeDecryptPAN(r) \/ DetokenizeRetrieveCVVToken(r)
        BY <1>6
        DEF Reject, Receive, Begin, Crash, Tokenize, UseToken,
            TokenizeFindByBlindIndex, TokenizeEncryptPAN, TokenizeTokenCreate,
            TokenizeVaultCreate, TokenizeAuditPAN, TokenizeStoreCVVToken, TokenizeGetOwner,
            TokenizeDelPrevious, TokenizeSetOwner, TokenizeAuditCVV, DetokenizeFindByTokenID,
            DetokenizeUpdateLastUsed, StatusFindByTokenID, StatusExistsCVVToken,
            DeactivateFindByTokenID, DeactivateUpdateStatus, AuditAndAnswer, Inv, HandlerOK
      <3> QED
        BY <1>2, <1>4, <1>5, <3>1, <3>2 DEF Reveals
    <2> QED
      BY <2>1, <2>2
  <1>7. ASSUME NEW r \in Requests, NEW s \in Requests, s # r,
               Reject(s) \/ Receive(s) \/ Crash(s) \/ Tokenize(s) \/ UseToken(s)
        PROVE  Reveals(r)'
    BY <1>2, <1>7, OthersStay DEF Inv
  <1>8. ASSUME NEW r \in Requests, UNCHANGED <<req, val>>
        PROVE  Reveals(r)'
    BY <1>2, <1>8
  <1>9. CASE \/ \E t \in Tenants : TenantDeactivated(t)
             \/ \E t \in Tenants, j \in TokenIDs : RedisExpiry(t, j)
             \/ UNCHANGED vars
    BY <1>8, <1>9
    DEF TenantDeactivated, RedisExpiry, vars, handlerVars, Reveals, RevealsWhatWasTokenized
  <1> QED
    BY <1>6, <1>7, <1>9 DEF Next, Reveals, RevealsWhatWasTokenized

-----------------------------------------------------------------------------
(* Requests about tokens that have ended *)

TimelyOK == \A r \in Requests : DeactivatesOK(r) /\ LateOK(r)

\* Nothing of an ended token is there to be found: its row is inactive and its
\* key is gone.
LEMMA NothingOfEndedTokens ==
  ASSUME Inv, StoredOK, NEW k \in TokenIDs, Ended(k), NEW t \in Tenants
  PROVE  /\ cvvtok[<<t, k>>] = Nil
         /\ tokens[k] # Nil => tokens[k].status = "inactive"
PROOF
  BY DEF Inv, CVVTokensOK, StoredOK, Ended

\* Whoever has been told that a token is deactivated is right.
LEMMA DeadHaveEnded ==
  ASSUME TimelyOK, NEW k, Dead(k)
  PROVE  Ended(k)
PROOF
  BY DEF TimelyOK, DeactivatesOK, Dead, KnownInactive, Ended

\* A step of another handler leaves a request where it was.
LEMMA WaitingIsTimely ==
  ASSUME Inv, TimelyOK, [Next]_vars, NEW r \in Requests,
         pc'[r] = pc[r], code'[r] = code[r], req'[r] = req[r], late'[r] = late[r], val'[r] = val[r]
  PROVE  DeactivatesOK(r)' /\ LateOK(r)'
PROOF
  <1>1. req[r].op \in {"detokenize", "status", "deactivate"} =>
          req[r].token \in TokenIDs /\ req[r].tenant \in Tenants
    BY DEF Inv, TypeOK, TokenizeInputs, TokenInputs, NoRequest
  <1>2. req[r].token \in TokenIDs /\ Ended(req[r].token) => Ended(req[r].token)'
    <2> SUFFICES ASSUME req[r].token \in TokenIDs, Ended(req[r].token)
                 PROVE  Ended(req[r].token)'
      OBVIOUS
    <2>1. \A k \in TokenIDs : Ended(k) => Ended(k)'
      BY EndedForGood
    <2> QED
      BY <2>1 DEF Ended
  <1>3. pc[r] = "updateStatus" => req[r].op = "deactivate"
    BY DEF Inv, HandlerOK
  <1>4. ASSUME req[r].op = "deactivate", FindByTokenID(req[r].tenant, req[r].token) # Nil
        PROVE  FindByTokenID(req[r].tenant, req[r].token)' # Nil
    BY <1>1, <1>4, RowsKept DEF FindByTokenID
  <1>5. DeactivatesOK(r)'
    BY <1>1, <1>2, <1>4 DEF TimelyOK, DeactivatesOK, Succeeded, Answered, Ended, FindByTokenID
  <1>6. LateOK(r)'
    <2>1. req[r] \in TokenInputs => req[r].token \in TokenIDs
      BY DEF TokenInputs
    <2>2. late[r] => Ended(req[r].token)'
      BY <1>2, <2>1 DEF TimelyOK, LateOK
    <2>3. Succeeded(r)' = Succeeded(r)
      BY DEF Succeeded, Answered
    <2> QED
      BY <2>2, <2>3 DEF TimelyOK, LateOK
  <1> QED
    BY <1>5, <1>6

\* A request starts by being late or not.
LEMMA ArrivalIsTimely ==
  ASSUME Inv, TimelyOK, NEW r \in Requests, Reject(r) \/ Receive(r)
  PROVE  DeactivatesOK(r)' /\ LateOK(r)'
PROOF
  <1> USE DEF Goto, Reply, Fail, Succeeded, Answered
  <1>1. pc[r] = "idle" /\ req[r].op = "none" /\ ~ late[r] /\ val[r] = Nil
    BY DEF Reject, Receive, Begin, Inv, HandlerOK, NoRequest, TimelyOK, LateOK
  <1>2. CASE Reject(r)
    BY <1>1, <1>2 DEF Reject, DeactivatesOK, LateOK
  <1>3. ASSUME NEW a \in TokenizeInputs \cup TokenInputs, Begin(r, a)
        PROVE  DeactivatesOK(r)' /\ LateOK(r)'
    <2>1. /\ req'[r] = a /\ val'[r] = Nil /\ UNCHANGED <<tokens, fate>>
          /\ late'[r] = (a.token # Nil /\ Dead(a.token))
      BY <1>1, <1>3 DEF Begin, dbVars, redisVars, Inv, TypeOK
    <2>2. a.op # "tokenize" =>
            pc'[r] = "findToken" \/ (pc'[r] = "done" /\ code'[r] \in {403, 404, 500})
      BY <1>3 DEF Begin, RequireTenant, Inv, TypeOK
    <2>3. pc'[r] # "idle"
      BY <1>3 DEF Begin, BeginTokenize, BeginCVV, Inv, TypeOK
    <2>4. late'[r] => a \in TokenInputs /\ Ended(a.token)
      BY <2>1, DeadHaveEnded DEF TokenizeInputs
    <2>5. a \in TokenInputs => a.op # "tokenize"
      BY DEF TokenInputs
    <2>6. DeactivatesOK(r)'
      BY <2>1, <2>2 DEF DeactivatesOK
    <2>7. Ended(a.token) => Ended(req[r].token)'
      BY <2>1 DEF Ended
    <2>8. late'[r] => Ended(req[r].token)' /\ a \in TokenInputs /\ a.op # "tokenize"
      BY <2>4, <2>5, <2>7
    <2>9. late'[r] => ~ Succeeded(r)' /\ pc'[r] \in {"findToken", "done"}
      BY <2>2, <2>8
    <2>10. LateOK(r)'
      BY <2>1, <2>3, <2>8, <2>9, NoValueAssumption DEF LateOK
    <2> QED
      BY <2>6, <2>10
  <1> QED
    BY <1>2, <1>3 DEF Receive

\* What a handler finds of an ended token is that it has ended.
LEMMA HandlerIsTimely ==
  ASSUME Inv, StoredOK, TimelyOK, [Next]_vars, NEW r \in Requests, UseToken(r)
  PROVE  DeactivatesOK(r)' /\ LateOK(r)'
PROOF
  <1> DEFINE k == req[r].token
             t == req[r].tenant
  <1>1. /\ req[r] \in TokenInputs /\ k \in TokenIDs /\ t \in Tenants
        /\ UNCHANGED <<req, late>> /\ pc[r] \in TokenSteps
    BY DEF UseToken, DetokenizeFindByTokenID, DetokenizeDecryptPAN, DetokenizeUpdateLastUsed,
           DetokenizeRetrieveCVVToken, StatusFindByTokenID, StatusExistsCVVToken,
           DeactivateFindByTokenID, DeactivateUpdateStatus, AuditAndAnswer, TokenSteps,
           Inv, HandlerOK, TokenInputs
  <1>2. pc'[r] # "idle"
    BY DEF UseToken, DetokenizeFindByTokenID, DetokenizeDecryptPAN, DetokenizeUpdateLastUsed,
           DetokenizeRetrieveCVVToken, StatusFindByTokenID, StatusExistsCVVToken,
           DeactivateFindByTokenID, DeactivateUpdateStatus, AuditAndAnswer, Goto, Reply, Fail,
           Inv, TypeOK
  <1>3. Ended(k) => Ended(k)' /\ cvvtok[<<t, k>>] = Nil
                    /\ (FindByTokenID(t, k) # Nil => FindByTokenID(t, k).status = "inactive")
    <2>1. \A j \in TokenIDs : Ended(j) => Ended(j)'
      BY EndedForGood
    <2>2. Ended(k) => Ended(k)'
      BY <1>1, <2>1 DEF Ended
    <2> QED
      BY <1>1, <2>2, NothingOfEndedTokens DEF FindByTokenID
  <1>4. late[r] => Ended(k)'
    BY <1>3 DEF TimelyOK, LateOK
  <1>5. CASE req[r].op = "detokenize"
    <2>1. late[r] => /\ pc'[r] \in {"retrieveCVV", "done"}
                     /\ val'[r] = Nil /\ (pc'[r] = "done" => code'[r] \in {404, 500})
      BY <1>1, <1>3, <1>5
      DEF UseToken, DetokenizeFindByTokenID, DetokenizeDecryptPAN, DetokenizeUpdateLastUsed,
          DetokenizeRetrieveCVVToken, StatusFindByTokenID, StatusExistsCVVToken,
          DeactivateFindByTokenID, DeactivateUpdateStatus, AuditAndAnswer, Goto, Reply, Fail,
          Inv, TypeOK, HandlerOK, TimelyOK, LateOK
    <2> QED
      BY <1>1, <1>2, <1>4, <1>5, <2>1 DEF LateOK, DeactivatesOK, Succeeded, Answered
  <1>6. CASE req[r].op = "status"
    <2>1. late[r] => val'[r] # "active"
      BY <1>1, <1>3, <1>6
      DEF UseToken, DetokenizeFindByTokenID, DetokenizeDecryptPAN, DetokenizeUpdateLastUsed,
          DetokenizeRetrieveCVVToken, StatusFindByTokenID, StatusExistsCVVToken, ExistsCVVToken,
          DeactivateFindByTokenID, DeactivateUpdateStatus, AuditAndAnswer, Goto, Reply, Fail,
          Inv, TypeOK, HandlerOK, TimelyOK, LateOK
    <2> QED
      BY <1>1, <1>2, <1>4, <1>6, <2>1 DEF LateOK, DeactivatesOK
  <1>7. CASE req[r].op = "deactivate"
    <2>1. LateOK(r)'
      BY <1>1, <1>2, <1>4, <1>7 DEF LateOK
    <2> SUFFICES DeactivatesOK(r)'
      BY <2>1
    <2>2. CASE DeactivateFindByTokenID(r)
      BY <2>2 DEF DeactivateFindByTokenID, DeactivatesOK, Succeeded, Answered, Goto, Reply, Fail,
                  FindByTokenID, dbVars, Inv, TypeOK
    <2>3. CASE DeactivateUpdateStatus(r)
      <3>1. FindByTokenID(t, k) # Nil
        BY <1>7, <2>3 DEF DeactivateUpdateStatus, TimelyOK, DeactivatesOK
      <3>2. CASE UpdateStatus(t, k, "inactive")
        <4>1. tokens[k] \in TokenRows /\ tokens[k] # Nil
          BY <1>1, <3>1 DEF FindByTokenID, Inv, TypeOK, DbTypeOK
        <4>2. tokens' = [tokens EXCEPT ![k] = [tokens[k] EXCEPT !.status = "inactive"]]
          BY <3>1, <3>2 DEF UpdateStatus
        <4>3. tokens'[k] = [tokens[k] EXCEPT !.status = "inactive"]
          BY <1>1, <4>2 DEF Inv, TypeOK, DbTypeOK
        <4>4. tokens'[k].status = "inactive" /\ tokens'[k] \in TokenRows
          BY <4>1, <4>3 DEF TokenRows
        <4>5. Ended(req[r].token)'
          BY <1>1, <4>4, NoRowAssumption DEF Ended
        <4>6. pc'[r] # "updateStatus"
          BY <2>3 DEF DeactivateUpdateStatus, Goto, Reply, Fail, Inv, TypeOK
        <4> QED
          BY <4>5, <4>6 DEF DeactivatesOK
      <3>3. CASE ~ UpdateStatus(t, k, "inactive")
        BY <2>3, <3>3 DEF DeactivateUpdateStatus, DeactivatesOK, Succeeded, Answered, Reply, Fail,
                          Inv, TypeOK
      <3> QED
        BY <3>2, <3>3
    <2>4. CASE AuditAndAnswer(r)
      <3>1. Ended(k)' /\ pc'[r] = "done"
        BY <1>3, <1>7, <2>4 DEF AuditAndAnswer, Reply, TimelyOK, DeactivatesOK, Inv, TypeOK
      <3> QED
        BY <1>1, <3>1 DEF DeactivatesOK
    <2>5. DeactivateFindByTokenID(r) \/ DeactivateUpdateStatus(r) \/ AuditAndAnswer(r)
      BY <1>7 DEF UseToken, DetokenizeFindByTokenID, DetokenizeDecryptPAN,
                  DetokenizeUpdateLastUsed, DetokenizeRetrieveCVVToken, StatusFindByTokenID,
                  StatusExistsCVVToken, Inv, HandlerOK
    <2> QED
      BY <2>2, <2>3, <2>4, <2>5
  <1> QED
    BY <1>1, <1>5, <1>6, <1>7 DEF TokenInputs, AllOps

\* A tokenize request carries no token that could have ended.
LEMMA TokenizeIsTimely ==
  ASSUME Inv, TimelyOK, NEW r \in Requests, Tokenize(r)
  PROVE  DeactivatesOK(r)' /\ LateOK(r)'
PROOF
  <1>1. pc[r] \in TokenizeSteps /\ UNCHANGED <<req, late>>
    BY DEF Tokenize, TokenizeFindByBlindIndex, TokenizeEncryptPAN, TokenizeTokenCreate,
           TokenizeVaultCreate, TokenizeAuditPAN, TokenizeStoreCVVToken, TokenizeGetOwner,
           TokenizeDelPrevious, TokenizeSetOwner, TokenizeAuditCVV, TokenizeSteps
  <1>2. req[r].op = "tokenize" /\ req[r] \notin TokenInputs
    BY <1>1 DEF Inv, HandlerOK, TokenizeInputs, TokenInputs
  <1> QED
    BY <1>1, <1>2 DEF DeactivatesOK, LateOK, TimelyOK

\* A handler that dies gives no answer.
LEMMA CrashIsTimely ==
  ASSUME Inv, TimelyOK, [Next]_vars, NEW r \in Requests, Crash(r)
  PROVE  DeactivatesOK(r)' /\ LateOK(r)'
PROOF
  <1>1. /\ pc'[r] = "crashed" /\ UNCHANGED <<req, late, val, tokens, fate>>
    BY DEF Crash, dbVars, redisVars, Inv, TypeOK
  <1> QED
    BY <1>1 DEF DeactivatesOK, LateOK, TimelyOK, Ended, Succeeded, Answered

\* Every step keeps requests about ended tokens away from their values.
LEMMA TimelyStep ==
  ASSUME Inv, StoredOK, TimelyOK, [Next]_vars
  PROVE  TimelyOK'
PROOF
  <1> SUFFICES ASSUME NEW r \in Requests
               PROVE  DeactivatesOK(r)' /\ LateOK(r)'
    BY DEF TimelyOK
  <1>1. CASE Reject(r) \/ Receive(r) \/ Tokenize(r) \/ UseToken(r) \/ Crash(r)
    BY <1>1, ArrivalIsTimely, TokenizeIsTimely, HandlerIsTimely, CrashIsTimely
  <1>2. ASSUME NEW s \in Requests, s # r,
               Reject(s) \/ Receive(s) \/ Crash(s) \/ Tokenize(s) \/ UseToken(s)
        PROVE  DeactivatesOK(r)' /\ LateOK(r)'
    BY <1>2, OthersStay, WaitingIsTimely DEF Inv
  <1>3. CASE \/ \E t \in Tenants : TenantDeactivated(t)
             \/ \E t \in Tenants, k \in TokenIDs : RedisExpiry(t, k)
             \/ UNCHANGED vars
    <2>1. UNCHANGED handlerVars
      BY <1>3 DEF TenantDeactivated, RedisExpiry, vars
    <2> QED
      BY <2>1, WaitingIsTimely DEF handlerVars
  <1> QED
    BY <1>1, <1>2, <1>3 DEF Next

-----------------------------------------------------------------------------
(* The theorems *)

\* Nothing is stored and nobody has asked for anything.
LEMMA AnswerStart ==
  ASSUME Init
  PROVE  AnswerInv
PROOF
  <1>1. StoredOK
    BY DEF Init, DbInit, RedisInit, StoredOK, RedisKeys
  <1>2. \A r \in Requests : DeactivatesOK(r) /\ LateOK(r)
    BY DEF Init, DeactivatesOK, LateOK, NoRequest
  <1>3. RevealsWhatWasTokenized
    BY DEF Init, RevealsWhatWasTokenized, NoRequest
  <1> QED
    BY <1>1, <1>2, <1>3 DEF AnswerInv

\* The invariant of the answers holds of the tokenizer.
THEOREM AnswerInvariant == Spec => [](Inv /\ AnswerInv)
PROOF
  <1>1. Init => Inv /\ AnswerInv
    BY TypeInit, DirectoryInit, CVVInit, AnswerStart DEF Inv
  <1>2. Inv /\ AnswerInv /\ [Next]_vars => (Inv /\ AnswerInv)'
    BY InvariantStep, StoredStep, RevealStep, TimelyStep DEF AnswerInv, TimelyOK
  <1> QED
    BY <1>1, <1>2, PTL DEF Spec

\* AnswerInv: what lies in the vault and in Redis under a token is what its tokenize
\* request sent, and a handler holds only what was there when it looked.
THEOREM AnswersAreTracked == Spec => []AnswerInv
PROOF
  BY AnswerInvariant, PTL

\* RevealsWhatWasTokenized: every value a detokenize handler obtains is the very
\* field of the tokenize request of its own tenant that minted the token, for any
\* number of handlers, tenants and faults (decryptPAN, retrieveCVVToken).
THEOREM RevealsAreTrue == Spec => []RevealsWhatWasTokenized
PROOF
  <1>1. AnswerInv => RevealsWhatWasTokenized
    BY DEF AnswerInv
  <1> QED
    BY <1>1, AnswerInvariant, PTL

\* NoAnswerFromDeadToken: a request that arrives after its token was deactivated,
\* consumed, expired or invalidated neither reveals a value nor reports the token
\* as active, for any number of handlers and whatever fails meanwhile.
THEOREM DeadTokensAreDead == Spec => []NoAnswerFromDeadToken
PROOF
  <1>1. AnswerInv => NoAnswerFromDeadToken
    BY DEF AnswerInv, LateOK, NoAnswerFromDeadToken
  <1> QED
    BY <1>1, AnswerInvariant, PTL

-----------------------------------------------------------------------------
(* The audit log *)

Trail(r, k) ==
  [req |-> r, tenant |-> req[r].tenant, token |-> k, operation |-> AuditOperation(req[r].op)]

AuditedTokens(r) == IF req[r].op = "tokenize" THEN IssuedBy(r) ELSE {req[r].token}

\* The trail of a request once it is past its inserts.
AuditOK(r) ==
  /\ pc[r] \in CVVSteps /\ req[r].pan # Nil => Trail(r, panTok[r]) \in audit
  /\ Succeeded(r) => \A k \in AuditedTokens(r) : Trail(r, k) \in audit

\* Nothing deletes from audit_log.
LEMMA AuditGrows ==
  ASSUME [Next]_vars
  PROVE  audit \subseteq audit'
PROOF
  <1>1. ASSUME NEW r \in Requests, Tokenize(r)
        PROVE  audit \subseteq audit'
    BY <1>1
    DEF Tokenize, TokenizeFindByBlindIndex, TokenizeEncryptPAN, TokenizeTokenCreate,
        TokenizeVaultCreate, TokenizeAuditPAN, TokenizeStoreCVVToken, TokenizeGetOwner,
        TokenizeDelPrevious, TokenizeSetOwner, TokenizeAuditCVV, Audited, AuditAppend, dbVars
  <1>2. ASSUME NEW r \in Requests, UseToken(r)
        PROVE  audit \subseteq audit'
    BY <1>2
    DEF UseToken, DetokenizeFindByTokenID, DetokenizeDecryptPAN, DetokenizeUpdateLastUsed,
        DetokenizeRetrieveCVVToken, StatusFindByTokenID, StatusExistsCVVToken,
        DeactivateFindByTokenID, DeactivateUpdateStatus, AuditAndAnswer, Audited, AuditAppend,
        dbVars
  <1>3. ASSUME NEW r \in Requests, Reject(r) \/ Receive(r) \/ Crash(r)
        PROVE  audit \subseteq audit'
    BY <1>3 DEF Reject, Receive, Begin, Crash, dbVars
  <1>4. CASE \/ \E t \in Tenants : TenantDeactivated(t)
             \/ \E t \in Tenants, k \in TokenIDs : RedisExpiry(t, k)
             \/ UNCHANGED vars
    BY <1>4 DEF TenantDeactivated, DeactivateTenant, RedisExpiry, vars, dbVars
  <1> QED
    BY <1>1, <1>2, <1>3, <1>4 DEF Next

\* A request that makes no step keeps its trail.
LEMMA TrailsStay ==
  ASSUME [Next]_vars, NEW r \in Requests, AuditOK(r),
         pc'[r] = pc[r], code'[r] = code[r], req'[r] = req[r], panTok'[r] = panTok[r]
  PROVE  AuditOK(r)'
PROOF
  <1>1. /\ \A k : Trail(r, k)' = Trail(r, k)
        /\ Succeeded(r)' <=> Succeeded(r)
        /\ AuditedTokens(r)' = AuditedTokens(r)
    BY DEF Trail, AuditedTokens, IssuedBy, Succeeded, Answered
  <1> QED
    BY <1>1, AuditGrows DEF AuditOK

\* The tokenize handler audits each token it answers with.
LEMMA TokenizeIsAudited ==
  ASSUME Inv, "db" \notin Faults, [Next]_vars, NEW r \in Requests, AuditOK(r), Tokenize(r)
  PROVE  AuditOK(r)'
PROOF
  <1> USE DEF Goto, Reply, Fail, Succeeded, Answered
  <1>1. /\ UNCHANGED req /\ req[r].op = "tokenize" /\ pc[r] \in TokenizeSteps
    BY DEF Tokenize, TokenizeFindByBlindIndex, TokenizeEncryptPAN, TokenizeTokenCreate,
        TokenizeVaultCreate, TokenizeAuditPAN, TokenizeStoreCVVToken, TokenizeGetOwner,
        TokenizeDelPrevious, TokenizeSetOwner, TokenizeAuditCVV, TokenizeSteps, Inv, HandlerOK,
        TokenizeInputs
  <1>2. \A k : Trail(r, k)' = Trail(r, k)
    BY <1>1 DEF Trail
  <1>3. CASE pc'[r] \notin CVVSteps /\ ~ Succeeded(r)'
    BY <1>3 DEF AuditOK
  <1>4. CASE TokenizeAuditPAN(r)
    <2>1. Trail(r, panTok[r]) \in audit' /\ UNCHANGED panTok
      BY <1>1, <1>4 DEF TokenizeAuditPAN, Audited, AuditAppend, Trail, AuditOperation
    <2>2. Succeeded(r)' => req[r].cvv = Nil
      BY <1>4 DEF TokenizeAuditPAN, BeginCVV, TokenizeStatus, Inv, TypeOK
    <2>3. Succeeded(r)' => AuditedTokens(r)' \subseteq {panTok[r]}
      BY <1>1, <2>1, <2>2 DEF AuditedTokens, IssuedBy
    <2> QED
      BY <1>2, <2>1, <2>3 DEF AuditOK
  <1>5. CASE \/ TokenizeStoreCVVToken(r) \/ TokenizeGetOwner(r)
             \/ TokenizeDelPrevious(r) \/ TokenizeSetOwner(r)
    <2>1. pc[r] \in CVVSteps /\ UNCHANGED panTok /\ ~ Succeeded(r)'
      BY <1>5
      DEF TokenizeStoreCVVToken, TokenizeGetOwner, TokenizeDelPrevious, TokenizeSetOwner,
          CVVSteps, Inv, TypeOK
    <2> QED
      BY <1>1, <1>2, <2>1, AuditGrows DEF AuditOK
  <1>6. CASE TokenizeAuditCVV(r)
    <2>1. Trail(r, CvvTok(r)) \in audit' /\ UNCHANGED panTok /\ pc'[r] = "done"
      BY <1>1, <1>6 DEF TokenizeAuditCVV, Audited, AuditAppend, Trail, AuditOperation, Inv, TypeOK
    <2>2. req[r].pan # Nil => Trail(r, panTok[r]) \in audit'
      BY <1>6, AuditGrows DEF TokenizeAuditCVV, AuditOK, CVVSteps
    <2>3. \A k \in AuditedTokens(r)' : k = CvvTok(r) \/ (k = panTok[r] /\ req[r].pan # Nil)
      BY <1>1, <2>1 DEF AuditedTokens, IssuedBy
    <2> QED
      BY <1>2, <2>1, <2>2, <2>3 DEF AuditOK, CVVSteps
  <1>7. CASE \/ TokenizeFindByBlindIndex(r) \/ TokenizeEncryptPAN(r)
             \/ TokenizeTokenCreate(r) \/ TokenizeVaultCreate(r)
    BY <1>3, <1>7
    DEF TokenizeFindByBlindIndex, TokenizeEncryptPAN, TokenizeTokenCreate, TokenizeVaultCreate,
        CVVSteps, Inv, TypeOK
  <1> QED
    BY <1>4, <1>5, <1>6, <1>7 DEF Tokenize

\* The other handlers audit the token they were asked about; arrivals and deaths
\* answer nothing that needs a row.
LEMMA OthersAreAudited ==
  ASSUME Inv, "db" \notin Faults, NEW r \in Requests,
         UseToken(r) \/ Reject(r) \/ Receive(r) \/ Crash(r)
  PROVE  AuditOK(r)'
PROOF
  <1> USE DEF Goto, Reply, Fail, Succeeded, Answered
  <1>1. CASE AuditAndAnswer(r)
    <2>1. /\ UNCHANGED req /\ req[r].op # "tokenize" /\ pc'[r] = "done"
          /\ Trail(r, req[r].token) \in audit'
      BY <1>1
      DEF AuditAndAnswer, Audited, AuditAppend, Trail, Inv, TypeOK, HandlerOK, TokenSteps,
          TokenInputs
    <2> QED
      BY <2>1 DEF AuditOK, AuditedTokens, Trail, CVVSteps
  <1>2. CASE UseToken(r) /\ ~ AuditAndAnswer(r)
    <2>1. pc'[r] \notin CVVSteps /\ ~ Succeeded(r)'
      BY <1>2
      DEF UseToken, DetokenizeFindByTokenID, DetokenizeDecryptPAN, DetokenizeUpdateLastUsed,
          DetokenizeRetrieveCVVToken, StatusFindByTokenID, StatusExistsCVVToken,
          DeactivateFindByTokenID, DeactivateUpdateStatus, CVVSteps, Inv, TypeOK
    <2> QED
      BY <2>1 DEF AuditOK
  <1>3. CASE Reject(r) \/ Crash(r)
    <2>1. pc'[r] \notin CVVSteps /\ ~ Succeeded(r)'
      BY <1>3 DEF Reject, Crash, CVVSteps, Inv, TypeOK
    <2> QED
      BY <2>1 DEF AuditOK
  <1>4. ASSUME NEW a \in TokenizeInputs \cup TokenInputs, Begin(r, a)
        PROVE  AuditOK(r)'
    <2>1. req'[r] = a
      BY <1>4 DEF Begin, Inv, TypeOK
    <2>2. pc'[r] \in CVVSteps => a.pan = Nil
      BY <1>4 DEF Begin, BeginTokenize, BeginCVV, CVVSteps, Inv, TypeOK
    <2>3. Succeeded(r)' => a.op = "tokenize" /\ a.pan = Nil /\ a.cvv = Nil
      BY <1>4 DEF Begin, RequireTenant, BeginTokenize, BeginCVV, Inv, TypeOK
    <2> QED
      BY <2>1, <2>2, <2>3 DEF AuditOK, AuditedTokens, IssuedBy
  <1> QED
    BY <1>1, <1>2, <1>3, <1>4 DEF Receive

\* AuditComplete: as long as PostgreSQL accepts the inserts into audit_log, every
\* token in a successful answer has its row there, whatever else fails.
THEOREM AnswersAreAudited ==
  ASSUME "db" \notin Faults
  PROVE  Spec => []AuditComplete
PROOF
  <1> DEFINE AllAudited == \A r \in Requests : AuditOK(r)
  <1>1. Init => AllAudited
    BY DEF Init, AuditOK, CVVSteps, Succeeded, Answered
  <1>2. Inv /\ AllAudited /\ [Next]_vars => AllAudited'
    <2> SUFFICES ASSUME Inv, AllAudited, [Next]_vars, NEW r \in Requests
                 PROVE  AuditOK(r)'
      OBVIOUS
    <2>1. CASE Reject(r) \/ Receive(r) \/ Tokenize(r) \/ UseToken(r) \/ Crash(r)
      BY <2>1, TokenizeIsAudited, OthersAreAudited
    <2>2. ASSUME NEW s \in Requests, s # r,
                 Reject(s) \/ Receive(s) \/ Crash(s) \/ Tokenize(s) \/ UseToken(s)
          PROVE  AuditOK(r)'
      BY <2>2, OthersStay, TrailsStay DEF Inv
    <2>3. CASE \/ \E t \in Tenants : TenantDeactivated(t)
               \/ \E t \in Tenants, k \in TokenIDs : RedisExpiry(t, k)
               \/ UNCHANGED vars
      <3>1. UNCHANGED handlerVars
        BY <2>3 DEF TenantDeactivated, RedisExpiry, vars
      <3> QED
        BY <3>1, TrailsStay DEF handlerVars
    <2> QED
      BY <2>1, <2>2, <2>3 DEF Next
  <1>3. AllAudited => AuditComplete
    BY DEF AuditOK, AuditedTokens, Trail, AuditComplete
  <1> HIDE DEF AllAudited
  <1> QED
    BY <1>1, <1>2, <1>3, InvariantHolds, PTL DEF Spec
===============================================================================

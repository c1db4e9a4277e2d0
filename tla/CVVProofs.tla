------------------------------ MODULE CVVProofs ------------------------------
(***************************************************************************)
(* The CVV tokens: what every step keeps true of the keys of Redis         *)
(* (CVVTokensOK), of the requests that hold a CVV (CVVHolders), and of the *)
(* tokens that InvalidatePreviousCVVToken may delete (OwnerInv).           *)
(***************************************************************************)
EXTENDS TokenizerProofs

-----------------------------------------------------------------------------
(* What the commands on the keys leave alone *)

\* Whatever removes a key of Redis leaves the other keys and fates alone.
LEMMA RemovalKeepsOtherKeys ==
  ASSUME RedisTypeOK, CVVTokensOK, NEW t \in Tenants, NEW k \in TokenIDs,
         \/ RetrieveCVVToken(t, k)
         \/ DeleteCVVToken(t, k)
         \/ CVVTokenExpires(t, k)
         \/ CVVTokenOwnerExpires(t, k)
  PROVE  /\ \A u \in Tenants, j \in TokenIDs :
              cvvtok'[<<u, j>>] # Nil => cvvtok[<<u, j>>] # Nil /\ fate'[j] = fate[j]
         /\ \A j \in TokenIDs : fate'[j] = fate[j] \/ fate[j] = "stored"
PROOF
  <1>1. \A u \in Tenants, j \in TokenIDs : <<u, j>> \in RedisKeys
    BY DEF RedisKeys
  <1>2. CASE UNCHANGED <<cvvtok, fate>>
    BY <1>2
  <1>3. CASE cvvtok[<<t, k>>] # Nil /\ cvvtok' = [cvvtok EXCEPT ![<<t, k>>] = Nil]
             /\ \E f : fate' = [fate EXCEPT ![k] = f]
    <2>1. fate[k] = "stored" /\ \A u \in Tenants : cvvtok[<<u, k>>] # Nil => u = t
      BY <1>3 DEF CVVTokensOK
    <2>2. \A u \in Tenants, j \in TokenIDs :
            cvvtok'[<<u, j>>] = IF u = t /\ j = k THEN Nil ELSE cvvtok[<<u, j>>]
      BY <1>1, <1>3 DEF RedisTypeOK
    <2>3. \A j \in TokenIDs : j # k => fate'[j] = fate[j]
      BY <1>3 DEF RedisTypeOK
    <2> QED
      BY <2>1, <2>2, <2>3
  <1>4. CASE cvvtok[<<t, k>>] = Nil /\ cvvtok' = [cvvtok EXCEPT ![<<t, k>>] = Nil]
             /\ UNCHANGED fate
    <2>1. \A u \in Tenants, j \in TokenIDs :
            cvvtok'[<<u, j>>] = IF u = t /\ j = k THEN Nil ELSE cvvtok[<<u, j>>]
      BY <1>1, <1>4 DEF RedisTypeOK
    <2> QED
      BY <1>4, <2>1
  <1> QED
    BY <1>2, <1>3, <1>4
    DEF RetrieveCVVToken, DeleteCVVToken, CVVTokenExpires, CVVTokenOwnerExpires

\* A step that stores no CVV, inserts no token and sends nobody to decrypt.
LEMMA CVVTokensKept ==
  ASSUME CVVTokensOK, UNCHANGED req,
         \A u \in Tenants, j \in TokenIDs :
           cvvtok'[<<u, j>>] # Nil => cvvtok[<<u, j>>] # Nil /\ fate'[j] = fate[j],
         \A j \in TokenIDs : fate'[j] = fate[j] \/ fate[j] = "stored",
         \A j \in TokenIDs : tokens'[j] # Nil <=> tokens[j] # Nil,
         \A s \in Requests : /\ pc'[s] \in StepsBeforeStore => pc[s] \in StepsBeforeStore
                             /\ pc'[s] = "decrypt" => pc[s] = "decrypt",
         \A s \in Requests : pc[s] = "decrypt" => req[s].token \in TokenIDs
  PROVE  CVVTokensOK'
PROOF
  <1>1. \A s \in Requests : CvvTok(s) \in TokenIDs
    BY DEF CvvTok, TokenIDs
  <1>2. \A s \in Requests : fate[CvvTok(s)] = "none" => fate'[CvvTok(s)] = "none"
    BY <1>1
  <1> QED
    BY <1>2 DEF CVVTokensOK

\* storeCVVToken: the SET stores under the identifier the request has just minted.
LEMMA StoringKeepsCVVTokens ==
  ASSUME TypeOK, HandlerOK, CVVTokensOK, NEW r \in Requests, TokenizeStoreCVVToken(r),
         ~ UNCHANGED redisVars
  PROVE  CVVTokensOK'
PROOF
  <1> DEFINE k == CvvTok(r)
             t == req[r].tenant
  <1>1. k \in TokenIDs /\ k[1] = "cvv" /\ k[2] = r
    BY DEF CvvTok, TokenIDs
  <1>2. t \in Tenants /\ pc[r] = "storeCVV" /\ fate[k] = "none"
    BY DEF TokenizeStoreCVVToken, TypeOK, HandlerOK, TokenizeSteps, TokenizeInputs, CVVTokensOK,
           StepsBeforeStore
  <1>3. /\ \E v : cvvtok' = [cvvtok EXCEPT ![<<t, k>>] = v]
        /\ fate' = [fate EXCEPT ![k] = "stored"]
        /\ UNCHANGED <<req, tokens>>
    BY DEF TokenizeStoreCVVToken, StoreCVVToken, dbVars
  <1>4. \A s \in Requests : /\ s # r => pc'[s] = pc[s]
                            /\ pc'[r] \notin StepsBeforeStore \cup {"decrypt"}
    BY DEF TokenizeStoreCVVToken, Goto, Reply, Fail, TypeOK, StepsBeforeStore
  <1>5. \A u \in Tenants, j \in TokenIDs :
          cvvtok'[<<u, j>>] # Nil => cvvtok[<<u, j>>] # Nil \/ (u = t /\ j = k)
    <2>1. \A u \in Tenants, j \in TokenIDs : <<u, j>> \in RedisKeys
      BY DEF RedisKeys
    <2> QED
      BY <1>3, <2>1 DEF TypeOK, RedisTypeOK
  <1>6. \A j \in TokenIDs : fate'[j] = IF j = k THEN "stored" ELSE fate[j]
    BY <1>3 DEF TypeOK, RedisTypeOK
  <1>7. \A s \in Requests : CvvTok(s) \in TokenIDs /\ (s # r => CvvTok(s) # k)
    BY DEF CvvTok, TokenIDs
  <1> HIDE DEF k, t
  <1>8. \A u \in Tenants, j \in TokenIDs :
          cvvtok'[<<u, j>>] # Nil => /\ fate'[j] = "stored" /\ j[1] = "cvv"
                                    /\ req'[j[2]].tenant = u
    BY <1>1, <1>3, <1>5, <1>6 DEF CVVTokensOK, t
  <1>9. \A s \in Requests : pc'[s] \in StepsBeforeStore => fate'[CvvTok(s)] = "none"
    BY <1>4, <1>6, <1>7 DEF CVVTokensOK
  <1> QED
    BY <1>3, <1>4, <1>8, <1>9 DEF CVVTokensOK

-----------------------------------------------------------------------------
(* Every step keeps the CVV tokens single-use *)

\* Redis is empty and nobody holds a CVV.
LEMMA CVVInit ==
  ASSUME Init
  PROVE  CVVTokensOK /\ CVVHolders
  BY DEF Init, DbInit, RedisInit, RedisKeys, CVVTokensOK, CVVHolders, CVVSingleUse, NoRequest,
         CvvTok, TokenIDs

\* No step stores a CVV token twice, or leaves a key behind a token whose fate is sealed.
LEMMA CVVTokensOKStep ==
  ASSUME TypeOK, HandlerOK, CVVTokensOK, [Next]_vars
  PROVE  CVVTokensOK'
PROOF
  <1> USE NilAssumption, NoRowAssumption, NoKeyAssumption
        DEF TypeOK, DbTypeOK, RedisTypeOK, HandlerOK, CVVTokensOK, StepsBeforeStore, TokenizeSteps,
            TokenSteps, Steps, CVVSteps, dbVars, redisVars, Goto, Reply, Fail
  <1>1. ASSUME NEW r \in Requests, Reject(r)
      PROVE  CVVTokensOK'
    BY <1>1 DEF Reject
  <1>2. ASSUME NEW r \in Requests, TokenizeFindByBlindIndex(r)
      PROVE  CVVTokensOK'
    BY <1>2 DEF TokenizeFindByBlindIndex
  <1>3. ASSUME NEW r \in Requests, TokenizeEncryptPAN(r)
      PROVE  CVVTokensOK'
    BY <1>3 DEF TokenizeEncryptPAN
  <1>4. ASSUME NEW r \in Requests, TokenizeTokenCreate(r)
      PROVE  CVVTokensOK'
    <2>1. PanTok(r) \in TokenIDs /\ PanTok(r)[1] = "pan"
      BY DEF PanTok, TokenIDs
    <2>2. \A j \in TokenIDs : tokens'[j] # Nil => tokens[j] # Nil \/ j = PanTok(r)
      BY <1>4, <2>1 DEF TokenizeTokenCreate, TokenCreate
    <2>3. \A j \in TokenIDs : tokens[j] # Nil => tokens'[j] # Nil
      BY <1>4, <2>1 DEF TokenizeTokenCreate, TokenCreate, TokenCreateAccepted
    <2>4. \A s \in Requests : pc[s] = "decrypt" => req[s].token \in TokenIDs
      BY DEF TokenInputs
    <2> QED
      BY <1>4, <2>1, <2>2, <2>3, <2>4 DEF TokenizeTokenCreate
  <1>5. ASSUME NEW r \in Requests, TokenizeVaultCreate(r)
      PROVE  CVVTokensOK'
    BY <1>5 DEF TokenizeVaultCreate
  <1>6. ASSUME NEW r \in Requests, TokenizeAuditPAN(r)
      PROVE  CVVTokensOK'
    BY <1>6 DEF TokenizeAuditPAN, BeginCVV
  <1>7. ASSUME NEW r \in Requests, TokenizeStoreCVVToken(r)
      PROVE  CVVTokensOK'
    <2>1. CASE UNCHANGED redisVars
      BY <1>7, <2>1 DEF TokenizeStoreCVVToken
    <2>2. CASE ~ UNCHANGED redisVars
      BY <1>7, <2>2, StoringKeepsCVVTokens
    <2> QED
      BY <2>1, <2>2
  <1>8. ASSUME NEW r \in Requests, TokenizeGetOwner(r)
      PROVE  CVVTokensOK'
    BY <1>8 DEF TokenizeGetOwner
  <1>9. ASSUME NEW r \in Requests, TokenizeDelPrevious(r)
      PROVE  CVVTokensOK'
    <2>1. req[r].tenant \in Tenants /\ prev[r] \in TokenIDs
      BY <1>9 DEF TokenizeDelPrevious, TokenizeInputs
    <2>2. \A s \in Requests :
            /\ pc'[s] \in StepsBeforeStore => pc[s] \in StepsBeforeStore
            /\ pc'[s] = "decrypt" => pc[s] = "decrypt"
      BY <1>9 DEF TokenizeDelPrevious
    <2>3. /\ \A u \in Tenants, j \in TokenIDs :
               cvvtok'[<<u, j>>] # Nil => cvvtok[<<u, j>>] # Nil /\ fate'[j] = fate[j]
          /\ \A j \in TokenIDs : fate'[j] = fate[j] \/ fate[j] = "stored"
      <3>1. CASE UNCHANGED redisVars
        BY <3>1
      <3>2. CASE ~ UNCHANGED redisVars
        <4> HIDE DEF CVVTokensOK, RedisTypeOK
        <4> QED
          BY <1>9, <2>1, <3>2, RemovalKeepsOtherKeys DEF TokenizeDelPrevious, TypeOK
      <3> QED
        BY <3>1, <3>2
    <2>4. /\ UNCHANGED <<req, tokens>>
         /\ \A s \in Requests : pc[s] = "decrypt" => req[s].token \in TokenIDs
      BY <1>9 DEF TokenizeDelPrevious, TokenInputs
    <2> HIDE DEF TypeOK, DbTypeOK, RedisTypeOK, HandlerOK, CVVTokensOK, StepsBeforeStore
    <2> QED
      BY <2>2, <2>3, <2>4, CVVTokensKept
  <1>10. ASSUME NEW r \in Requests, TokenizeSetOwner(r)
      PROVE  CVVTokensOK'
    BY <1>10 DEF TokenizeSetOwner, SetCVVTokenOwner
  <1>11. ASSUME NEW r \in Requests, TokenizeAuditCVV(r)
      PROVE  CVVTokensOK'
    BY <1>11 DEF TokenizeAuditCVV
  <1>12. ASSUME NEW r \in Requests, DetokenizeFindByTokenID(r)
      PROVE  CVVTokensOK'
    BY <1>12 DEF DetokenizeFindByTokenID, FindByTokenID
  <1>13. ASSUME NEW r \in Requests, DetokenizeDecryptPAN(r)
      PROVE  CVVTokensOK'
    BY <1>13 DEF DetokenizeDecryptPAN
  <1>14. ASSUME NEW r \in Requests, DetokenizeUpdateLastUsed(r)
      PROVE  CVVTokensOK'
    <2>1. req[r].tenant \in Tenants /\ req[r].token \in TokenIDs
      BY <1>14 DEF DetokenizeUpdateLastUsed, TokenInputs
    <2>2. \A j \in TokenIDs : tokens'[j] # Nil <=> tokens[j] # Nil
      BY <1>14, <2>1, UpdatesKeepRows DEF DetokenizeUpdateLastUsed
    <2>3. \A s \in Requests :
            /\ pc'[s] \in StepsBeforeStore => pc[s] \in StepsBeforeStore
            /\ pc'[s] = "decrypt" => pc[s] = "decrypt"
      BY <1>14 DEF DetokenizeUpdateLastUsed
    <2>4. /\ UNCHANGED <<req, cvvtok, fate>>
         /\ \A s \in Requests : pc[s] = "decrypt" => req[s].token \in TokenIDs
      BY <1>14 DEF DetokenizeUpdateLastUsed, TokenInputs
    <2> HIDE DEF TypeOK, DbTypeOK, RedisTypeOK, HandlerOK, CVVTokensOK, StepsBeforeStore
    <2> QED
      BY <2>2, <2>3, <2>4, CVVTokensKept
  <1>15. ASSUME NEW r \in Requests, DetokenizeRetrieveCVVToken(r)
      PROVE  CVVTokensOK'
    <2>1. req[r].tenant \in Tenants /\ req[r].token \in TokenIDs
      BY <1>15 DEF DetokenizeRetrieveCVVToken, TokenInputs
    <2>2. \A s \in Requests :
            /\ pc'[s] \in StepsBeforeStore => pc[s] \in StepsBeforeStore
            /\ pc'[s] = "decrypt" => pc[s] = "decrypt"
      BY <1>15 DEF DetokenizeRetrieveCVVToken
    <2>3. /\ \A u \in Tenants, j \in TokenIDs :
               cvvtok'[<<u, j>>] # Nil => cvvtok[<<u, j>>] # Nil /\ fate'[j] = fate[j]
          /\ \A j \in TokenIDs : fate'[j] = fate[j] \/ fate[j] = "stored"
      <3>1. CASE UNCHANGED redisVars
        BY <3>1
      <3>2. CASE ~ UNCHANGED redisVars
        <4> HIDE DEF CVVTokensOK, RedisTypeOK
        <4> QED
          BY <1>15, <2>1, <3>2, RemovalKeepsOtherKeys DEF DetokenizeRetrieveCVVToken, TypeOK
      <3> QED
        BY <3>1, <3>2
    <2>4. /\ UNCHANGED <<req, tokens>>
         /\ \A s \in Requests : pc[s] = "decrypt" => req[s].token \in TokenIDs
      BY <1>15 DEF DetokenizeRetrieveCVVToken, TokenInputs
    <2> HIDE DEF TypeOK, DbTypeOK, RedisTypeOK, HandlerOK, CVVTokensOK, StepsBeforeStore
    <2> QED
      BY <2>2, <2>3, <2>4, CVVTokensKept
  <1>16. ASSUME NEW r \in Requests, StatusFindByTokenID(r)
      PROVE  CVVTokensOK'
    BY <1>16 DEF StatusFindByTokenID
  <1>17. ASSUME NEW r \in Requests, StatusExistsCVVToken(r)
      PROVE  CVVTokensOK'
    BY <1>17 DEF StatusExistsCVVToken
  <1>18. ASSUME NEW r \in Requests, DeactivateFindByTokenID(r)
      PROVE  CVVTokensOK'
    BY <1>18 DEF DeactivateFindByTokenID
  <1>19. ASSUME NEW r \in Requests, DeactivateUpdateStatus(r)
      PROVE  CVVTokensOK'
    <2>1. req[r].tenant \in Tenants /\ req[r].token \in TokenIDs
      BY <1>19 DEF DeactivateUpdateStatus, TokenInputs
    <2>2. \A j \in TokenIDs : tokens'[j] # Nil <=> tokens[j] # Nil
      BY <1>19, <2>1, UpdatesKeepRows DEF DeactivateUpdateStatus
    <2>3. \A s \in Requests :
            /\ pc'[s] \in StepsBeforeStore => pc[s] \in StepsBeforeStore
            /\ pc'[s] = "decrypt" => pc[s] = "decrypt"
      BY <1>19 DEF DeactivateUpdateStatus
    <2>4. /\ UNCHANGED <<req, cvvtok, fate>>
         /\ \A s \in Requests : pc[s] = "decrypt" => req[s].token \in TokenIDs
      BY <1>19 DEF DeactivateUpdateStatus, TokenInputs
    <2> HIDE DEF TypeOK, DbTypeOK, RedisTypeOK, HandlerOK, CVVTokensOK, StepsBeforeStore
    <2> QED
      BY <2>2, <2>3, <2>4, CVVTokensKept
  <1>20. ASSUME NEW r \in Requests, AuditAndAnswer(r)
      PROVE  CVVTokensOK'
    BY <1>20 DEF AuditAndAnswer, TokenInputs, AllOps
  <1>21. ASSUME NEW r \in Requests, Crash(r)
      PROVE  CVVTokensOK'
    BY <1>21 DEF Crash
  <1>22. ASSUME NEW r \in Requests, NEW a \in TokenizeInputs \cup TokenInputs, Begin(r, a)
      PROVE  CVVTokensOK'
    BY <1>22
       DEF Begin, RequireTenant, BeginTokenize, BeginCVV, TokenizeStatus, TokenizeInputs,
           TokenInputs, NoRequest, CvvTok, TokenIDs
  <1>23. ASSUME NEW t \in Tenants, TenantDeactivated(t)
      PROVE  CVVTokensOK'
    BY <1>23 DEF TenantDeactivated, DeactivateTenant, handlerVars
  <1>24. ASSUME NEW t \in Tenants, NEW k \in TokenIDs, RedisExpiry(t, k)
      PROVE  CVVTokensOK'
    <2>1. /\ \A u \in Tenants, j \in TokenIDs :
               cvvtok'[<<u, j>>] # Nil => cvvtok[<<u, j>>] # Nil /\ fate'[j] = fate[j]
          /\ \A j \in TokenIDs : fate'[j] = fate[j] \/ fate[j] = "stored"
      <3> HIDE DEF CVVTokensOK, RedisTypeOK
      <3> QED
        BY <1>24, RemovalKeepsOtherKeys DEF RedisExpiry, TypeOK
    <2>2. /\ UNCHANGED <<pc, req, tokens>>
         /\ \A s \in Requests : pc[s] = "decrypt" => req[s].token \in TokenIDs
      BY <1>24 DEF RedisExpiry, handlerVars, TokenInputs
    <2> HIDE DEF TypeOK, DbTypeOK, RedisTypeOK, HandlerOK, CVVTokensOK, StepsBeforeStore
    <2> QED
      BY <2>1, <2>2, CVVTokensKept
  <1>25. ASSUME UNCHANGED vars
      PROVE  CVVTokensOK'
    BY <1>25 DEF vars, handlerVars
  <1> HIDE DEF TypeOK, HandlerOK, CVVTokensOK
  <1> QED
    BY <1>1, <1>2, <1>3, <1>4, <1>5, <1>6, <1>7, <1>8, <1>9, <1>10, <1>11, <1>12, <1>13, <1>14,
       <1>15, <1>16, <1>17, <1>18, <1>19, <1>20, <1>21, <1>22, <1>23, <1>24, <1>25
       DEF Next, Receive, Tokenize, UseToken

\* Nobody's value changes and no token that has been consumed gets another fate.
LEMMA HoldersKept ==
  ASSUME CVVHolders, req \in [Requests -> TokenizeInputs \cup TokenInputs \cup {NoRequest}],
         UNCHANGED <<req, val>>,
         \A j \in TokenIDs : fate'[j] = fate[j] \/ fate[j] \in {"none", "stored"}
  PROVE  CVVHolders'
PROOF
  <1>1. \A s \in Requests : req[s].op = "detokenize" => req[s].token \in TokenIDs
    BY DEF TokenizeInputs, TokenInputs, NoRequest
  <1> QED
    BY <1>1 DEF CVVHolders, CVVSingleUse

\* Only the GETDEL of the detokenize handler hands out a CVV, and it seals the
\* fate of the token in the same command.
LEMMA CVVHoldersStep ==
  ASSUME TypeOK, HandlerOK, CVVTokensOK, CVVHolders, [Next]_vars
  PROVE  CVVHolders'
PROOF
  <1> USE NilAssumption, NoRowAssumption, NoKeyAssumption
        DEF TypeOK, DbTypeOK, RedisTypeOK, HandlerOK, CVVTokensOK, CVVHolders, CVVSingleUse,
            StepsBeforeStore, TokenizeSteps, TokenSteps, Steps, CVVSteps, dbVars, redisVars,
            Goto, Reply, Fail
  <1>1. ASSUME NEW r \in Requests, Reject(r)
      PROVE  CVVHolders'
    BY <1>1 DEF Reject
  <1>2. ASSUME NEW r \in Requests, TokenizeFindByBlindIndex(r)
      PROVE  CVVHolders'
    BY <1>2 DEF TokenizeFindByBlindIndex
  <1>3. ASSUME NEW r \in Requests, TokenizeEncryptPAN(r)
      PROVE  CVVHolders'
    BY <1>3 DEF TokenizeEncryptPAN
  <1>4. ASSUME NEW r \in Requests, TokenizeTokenCreate(r)
      PROVE  CVVHolders'
    BY <1>4 DEF TokenizeTokenCreate
  <1>5. ASSUME NEW r \in Requests, TokenizeVaultCreate(r)
      PROVE  CVVHolders'
    BY <1>5 DEF TokenizeVaultCreate
  <1>6. ASSUME NEW r \in Requests, TokenizeAuditPAN(r)
      PROVE  CVVHolders'
    BY <1>6 DEF TokenizeAuditPAN
  <1>7. ASSUME NEW r \in Requests, TokenizeStoreCVVToken(r)
      PROVE  CVVHolders'
    <2>1. fate[CvvTok(r)] = "none" /\ CvvTok(r) \in TokenIDs
      BY <1>7 DEF TokenizeStoreCVVToken, CvvTok, TokenIDs
    <2>2. \A j \in TokenIDs : fate'[j] = fate[j] \/ fate[j] = "none"
      BY <1>7, <2>1 DEF TokenizeStoreCVVToken, StoreCVVToken
    <2>3. UNCHANGED <<req, val>>
      BY <1>7 DEF TokenizeStoreCVVToken
    <2> QED
      BY <2>2, <2>3, HoldersKept
  <1>8. ASSUME NEW r \in Requests, TokenizeGetOwner(r)
      PROVE  CVVHolders'
    BY <1>8 DEF TokenizeGetOwner
  <1>9. ASSUME NEW r \in Requests, TokenizeDelPrevious(r)
      PROVE  CVVHolders'
    <2>1. req[r].tenant \in Tenants /\ prev[r] \in TokenIDs
      BY <1>9 DEF TokenizeDelPrevious, TokenizeInputs
    <2>2. \A j \in TokenIDs : fate'[j] = fate[j] \/ fate[j] = "stored"
      <3>1. CASE UNCHANGED redisVars
        BY <3>1
      <3>2. CASE ~ UNCHANGED redisVars
        <4> HIDE DEF CVVTokensOK, RedisTypeOK
        <4> QED
          BY <1>9, <2>1, <3>2, RemovalKeepsOtherKeys DEF TokenizeDelPrevious, TypeOK
      <3> QED
        BY <3>1, <3>2
    <2>3. UNCHANGED <<req, val>>
      BY <1>9 DEF TokenizeDelPrevious
    <2> QED
      BY <2>2, <2>3, HoldersKept
  <1>10. ASSUME NEW r \in Requests, TokenizeSetOwner(r)
      PROVE  CVVHolders'
    BY <1>10 DEF TokenizeSetOwner, SetCVVTokenOwner
  <1>11. ASSUME NEW r \in Requests, TokenizeAuditCVV(r)
      PROVE  CVVHolders'
    BY <1>11 DEF TokenizeAuditCVV
  <1>12. ASSUME NEW r \in Requests, DetokenizeFindByTokenID(r)
      PROVE  CVVHolders'
    BY <1>12 DEF DetokenizeFindByTokenID
  <1>13. ASSUME NEW r \in Requests, DetokenizeDecryptPAN(r)
      PROVE  CVVHolders'
    BY <1>13 DEF DetokenizeDecryptPAN, TokenInputs
  <1>14. ASSUME NEW r \in Requests, DetokenizeUpdateLastUsed(r)
      PROVE  CVVHolders'
    BY <1>14 DEF DetokenizeUpdateLastUsed
  <1>15. ASSUME NEW r \in Requests, DetokenizeRetrieveCVVToken(r)
      PROVE  CVVHolders'
    <2> DEFINE k == req[r].token
               t == req[r].tenant
    <2>1. t \in Tenants /\ k \in TokenIDs /\ <<t, k>> \in RedisKeys /\ UNCHANGED req
            /\ req[r].op = "detokenize"
      BY <1>15 DEF DetokenizeRetrieveCVVToken, TokenInputs, RedisKeys
    <2>2. \A j \in TokenIDs : fate'[j] = fate[j] \/ fate[j] = "stored"
      <3>1. CASE UNCHANGED redisVars
        BY <3>1
      <3>2. CASE ~ UNCHANGED redisVars
        <4> HIDE DEF CVVTokensOK, RedisTypeOK
        <4> QED
          BY <1>15, <2>1, <3>2, RemovalKeepsOtherKeys DEF DetokenizeRetrieveCVVToken, TypeOK
      <3> QED
        BY <3>1, <3>2
    <2>3. CASE UNCHANGED val
      BY <2>1, <2>2, <2>3, HoldersKept
    <2>4. CASE ~ UNCHANGED val
      <3>1. cvvtok[<<t, k>>] # Nil /\ fate' = [fate EXCEPT ![k] = "consumed"]
              /\ \E v : val' = [val EXCEPT ![r] = v]
        BY <1>15, <2>4 DEF DetokenizeRetrieveCVVToken, RetrieveCVVToken
      <3>2. fate[k] = "stored" /\ fate'[k] = "consumed"
        BY <2>1, <3>1
      <3>3. \A s \in Requests : s # r => val'[s] = val[s]
        BY <3>1
      <3>4. \A s \in Requests :
              req[s].op = "detokenize" /\ val[s] # Nil /\ req[s].token[1] = "cvv"
                => fate[req[s].token] = "consumed" /\ req[s].token # k
        BY <3>2
      <3>5. \A s \in Requests : req[s].op = "detokenize" => req[s].token \in TokenIDs
        BY DEF TokenizeInputs, TokenInputs, NoRequest
      <3> HIDE DEF TypeOK, HandlerOK, CVVTokensOK
      <3> QED
        BY <2>1, <2>2, <3>2, <3>3, <3>4, <3>5 DEF CVVHolders, CVVSingleUse
    <2> QED
      BY <2>3, <2>4
  <1>16. ASSUME NEW r \in Requests, StatusFindByTokenID(r)
      PROVE  CVVHolders'
    BY <1>16 DEF StatusFindByTokenID
  <1>17. ASSUME NEW r \in Requests, StatusExistsCVVToken(r)
      PROVE  CVVHolders'
    BY <1>17 DEF StatusExistsCVVToken
  <1>18. ASSUME NEW r \in Requests, DeactivateFindByTokenID(r)
      PROVE  CVVHolders'
    BY <1>18 DEF DeactivateFindByTokenID
  <1>19. ASSUME NEW r \in Requests, DeactivateUpdateStatus(r)
      PROVE  CVVHolders'
    BY <1>19 DEF DeactivateUpdateStatus
  <1>20. ASSUME NEW r \in Requests, AuditAndAnswer(r)
      PROVE  CVVHolders'
    BY <1>20 DEF AuditAndAnswer, TokenInputs, AllOps
  <1>21. ASSUME NEW r \in Requests, Crash(r)
      PROVE  CVVHolders'
    BY <1>21 DEF Crash
  <1>22. ASSUME NEW r \in Requests, NEW a \in TokenizeInputs \cup TokenInputs, Begin(r, a)
      PROVE  CVVHolders'
    BY <1>22
       DEF Begin, RequireTenant, BeginTokenize, BeginCVV, TokenizeStatus, TokenizeInputs,
           TokenInputs, NoRequest, CvvTok, TokenIDs
  <1>23. ASSUME NEW t \in Tenants, TenantDeactivated(t)
      PROVE  CVVHolders'
    BY <1>23 DEF TenantDeactivated, DeactivateTenant, handlerVars
  <1>24. ASSUME NEW t \in Tenants, NEW k \in TokenIDs, RedisExpiry(t, k)
      PROVE  CVVHolders'
    <2>1. \A j \in TokenIDs : fate'[j] = fate[j] \/ fate[j] = "stored"
      <3> HIDE DEF CVVTokensOK, RedisTypeOK
      <3> QED
        BY <1>24, RemovalKeepsOtherKeys DEF RedisExpiry, TypeOK
    <2>2. UNCHANGED <<req, val>>
      BY <1>24 DEF RedisExpiry, handlerVars
    <2> QED
      BY <2>1, <2>2, HoldersKept
  <1>25. ASSUME UNCHANGED vars
      PROVE  CVVHolders'
    BY <1>25 DEF vars, handlerVars
  <1> HIDE DEF TypeOK, HandlerOK, CVVTokensOK, CVVHolders
  <1> QED
    BY <1>1, <1>2, <1>3, <1>4, <1>5, <1>6, <1>7, <1>8, <1>9, <1>10, <1>11, <1>12, <1>13, <1>14,
       <1>15, <1>16, <1>17, <1>18, <1>19, <1>20, <1>21, <1>22, <1>23, <1>24, <1>25
       DEF Next, Receive, Tokenize, UseToken

-----------------------------------------------------------------------------
\* Every step keeps the inductive invariant.
LEMMA InvariantStep ==
  ASSUME Inv, [Next]_vars
  PROVE  Inv'
PROOF
  BY TypeOKStep, HandlerOKStep, DirectoryOKStep, CVVTokensOKStep, CVVHoldersStep DEF Inv

\* The inductive invariant holds of every reachable state: types, what handlers
\* know, one row per blind index, CVV tokens that are stored once and consumed by
\* at most one detokenize call.
THEOREM InvariantHolds == Spec => []Inv
PROOF
  <1>1. Init => Inv
    BY TypeInit, DirectoryInit, CVVInit DEF Inv
  <1>2. Inv /\ [Next]_vars => Inv'
    BY InvariantStep
  <1> QED
    BY <1>1, <1>2, PTL DEF Spec

\* However many detokenize calls race for a CVV token, and whichever commands
\* of Redis fail, at most one call obtains the CVV.
THEOREM CVVTokensAreSingleUse == Spec => []CVVSingleUse
PROOF
  <1>1. Inv => CVVSingleUse
    BY DEF Inv, CVVHolders
  <1> QED
    BY <1>1, InvariantHolds, PTL

-----------------------------------------------------------------------------
(* Facts about the tokens of one PAN token *)

\* What CVVTokensOf contains.
LEMMA TokensOfPAN ==
  ASSUME NEW k, NEW c
  PROVE  c \in CVVTokensOf(k) <=>
           \E q \in Requests : c = CvvTok(q) /\ panTok[q] = k /\ fate[c] # "none"
PROOF
  BY DEF CVVTokensOf

\* The same of the next state.
LEMMA TokensOfPANNext ==
  ASSUME NEW k, NEW c
  PROVE  c \in CVVTokensOf(k)' <=>
           \E q \in Requests : c = CvvTok(q) /\ panTok'[q] = k /\ fate'[c] # "none"
PROOF
  BY DEF CVVTokensOf

\* Requests mint different CVV tokens.
LEMMA CvvToks ==
  /\ \A r \in Requests : CvvTok(r) \in TokenIDs /\ CvvTok(r) # Nil
  /\ \A r, s \in Requests : CvvTok(r) = CvvTok(s) => r = s
PROOF
  BY NoKeyAssumption DEF CvvTok, TokenIDs

\* No token changes hands: a handler past its insert or lookup keeps its PAN token.
HandlersKeepTokens ==
  /\ \A s \in Requests : fate[CvvTok(s)] # "none" => panTok'[s] = panTok[s]
  /\ \A j \in TokenIDs : fate[j] # "none" => fate'[j] # "none"

\* The CVV tokens of a PAN token only become more.
LEMMA TokensStay ==
  ASSUME HandlersKeepTokens, NEW k
  PROVE  CVVTokensOf(k) \subseteq CVVTokensOf(k)'
PROOF
  BY TokensOfPAN, TokensOfPANNext, CvvToks DEF HandlersKeepTokens

\* A token belongs to one PAN token only.
LEMMA OneOwnerEach ==
  ASSUME NEW j, NEW k, NEW c \in CVVTokensOf(j), c \in CVVTokensOf(k)
  PROVE  j = k
PROOF
  BY TokensOfPAN, CvvToks

-----------------------------------------------------------------------------
(* The kinds of steps *)

\* A step that names, stores and deletes no CVV token.
LEMMA QuietSteps ==
  ASSUME TypeOK, OwnerInv,
         \A j \in TokenIDs : \/ fate'[j] = fate[j]
                             \/ fate[j] = "stored" /\ fate'[j] \in {"consumed", "expired"},
         \A key \in RedisKeys : cvvtokOwner'[key] \in {Nil, cvvtokOwner[key]},
         \A s \in Requests : prev'[s] = prev[s],
         \A s \in Requests : fate[CvvTok(s)] # "none" => panTok'[s] = panTok[s],
         \A s \in Requests : pc'[s] \in StepsBeforeSetOwner => pc[s] \in StepsBeforeSetOwner
  PROVE  OwnerInv'
PROOF
  <1>1. HandlersKeepTokens
    BY DEF HandlersKeepTokens
  <1>2. \A t \in Tenants, k \in TokenIDs : <<t, k>> \in RedisKeys
    BY DEF RedisKeys
  <1>3. OwnersOK'
    BY <1>1, <1>2, TokensStay, CvvToks DEF OwnerInv, OwnersOK, HandlersKeepTokens
  <1>4. NewTokensUnowned'
    <2> SUFFICES ASSUME NEW r \in Requests, pc'[r] \in StepsBeforeSetOwner
                 PROVE  Unowned(CvvTok(r))'
      BY DEF NewTokensUnowned
    <2>1. Unowned(CvvTok(r))
      BY DEF OwnerInv, NewTokensUnowned
    <2> QED
      BY <2>1, CvvToks DEF Unowned
  <1>5. SurvivorsOK'
    <2>1. \A k \in TokenIDs : CVVTokensOf(k)' = CVVTokensOf(k) /\ CVVTokensOf(k) \subseteq TokenIDs
      BY CvvToks DEF CVVTokensOf
    <2> QED
      BY <2>1 DEF OwnerInv, SurvivorsOK
  <1> QED
    BY <1>3, <1>4, <1>5 DEF OwnerInv

\* SET of a new CVV token: nobody has named it, so it survives for now.
LEMMA StoreSteps ==
  ASSUME Inv, OwnerInv, NEW r \in Requests, TokenizeStoreCVVToken(r), ~ UNCHANGED redisVars
  PROVE  OwnerInv'
PROOF
  <1> DEFINE c == CvvTok(r)
  <1>1. c \in TokenIDs /\ c # Nil /\ fate[c] = "none" /\ pc[r] = "storeCVV"
    BY CvvToks DEF TokenizeStoreCVVToken, Inv, CVVTokensOK, StepsBeforeStore
  <1>2. /\ \A j \in TokenIDs : fate'[j] = IF j = c THEN "stored" ELSE fate[j]
        /\ UNCHANGED <<cvvtokOwner, prev, panTok>>
    BY <1>1 DEF TokenizeStoreCVVToken, StoreCVVToken, Inv, TypeOK, RedisTypeOK
  <1>3. \A s \in Requests : s # r => pc'[s] = pc[s]
    BY DEF TokenizeStoreCVVToken, Goto, Reply, Fail, Inv, TypeOK
  <1>4. Unowned(c)'
    <2>1. \A key \in RedisKeys : cvvtokOwner[key] # c
      BY <1>1, TokensOfPAN DEF OwnerInv, OwnersOK, RedisKeys
    <2>2. \A s \in Requests : prev[s] # c
      BY <1>1, TokensOfPAN DEF OwnerInv, OwnersOK
    <2> QED
      BY <1>1, <1>2, <2>1, <2>2 DEF Unowned
  <1>5. HandlersKeepTokens
    BY <1>2 DEF HandlersKeepTokens
  <1>6. OwnersOK'
    BY <1>1, <1>2, <1>3, <1>5, TokensStay, CvvToks DEF OwnerInv, OwnersOK
  <1>7. NewTokensUnowned'
    <2> SUFFICES ASSUME NEW s \in Requests, s # r, pc[s] \in StepsBeforeSetOwner
                 PROVE  Unowned(CvvTok(s))'
      BY <1>3, <1>4 DEF NewTokensUnowned
    <2>1. Unowned(CvvTok(s))
      BY DEF OwnerInv, NewTokensUnowned
    <2> QED
      BY <1>1, <1>2, <2>1, CvvToks DEF Unowned
  <1>8. SurvivorsOK'
    <2> SUFFICES ASSUME NEW k \in TokenIDs, CVVTokensOf(k)' # {}
                 PROVE  \E d \in CVVTokensOf(k)' :
                          fate'[d] # "invalidated" /\ \A s \in Requests : prev'[s] # d
      BY DEF SurvivorsOK
    <2>1. CASE panTok[r] = k
      BY <1>1, <1>2, <1>4, <2>1, TokensOfPANNext DEF Unowned
    <2>2. CASE panTok[r] # k
      <3>1. CVVTokensOf(k)' = CVVTokensOf(k)
        BY <1>2, <2>2, CvvToks DEF CVVTokensOf
      <3>2. PICK d \in CVVTokensOf(k) :
              fate[d] # "invalidated" /\ \A s \in Requests : prev[s] # d
        BY <3>1 DEF OwnerInv, SurvivorsOK
      <3> QED
        BY <1>1, <1>2, <3>1, <3>2, TokensOfPAN, CvvToks
    <2> QED
      BY <2>1, <2>2
  <1> QED
    BY <1>6, <1>7, <1>8 DEF OwnerInv

\* GET of the owner: the token it names may be deleted now, but the one of the
\* handler that has read it has no name yet and takes its place.
LEMMA GetOwnerSteps ==
  ASSUME Inv, OwnerInv, NEW r \in Requests, TokenizeGetOwner(r), prev'[r] # prev[r]
  PROVE  OwnerInv'
PROOF
  <1> DEFINE c == CvvTok(r)
             k == panTok[r]
             t == req[r].tenant
  <1>1. t \in Tenants /\ k \in TokenIDs /\ <<t, k>> \in RedisKeys
    BY DEF TokenizeGetOwner, Inv, TypeOK, HandlerOK, TokenizeSteps, TokenizeInputs, RedisKeys
  <1>2. /\ cvvtokOwner[<<t, k>>] # Nil
        /\ \A s \in Requests : prev'[s] = IF s = r THEN cvvtokOwner[<<t, k>>] ELSE prev[s]
        /\ UNCHANGED <<cvvtokOwner, fate, panTok>>
        /\ pc[r] = "getOwner"
    BY DEF TokenizeGetOwner, redisVars, Inv, TypeOK
  <1>3. \A s \in Requests : pc'[s] \in StepsBeforeSetOwner => pc[s] \in StepsBeforeSetOwner
    BY DEF TokenizeGetOwner, Goto, Inv, TypeOK, StepsBeforeSetOwner
  <1>4. cvvtokOwner[<<t, k>>] \in CVVTokensOf(k) /\ fate[c] # "none"
    BY <1>1, <1>2 DEF OwnerInv, OwnersOK, StepsBeforeSetOwner
  <1>5. \A j : CVVTokensOf(j)' = CVVTokensOf(j)
    BY <1>2 DEF CVVTokensOf
  <1>6. OwnersOK'
    BY <1>2, <1>3, <1>4, <1>5 DEF OwnerInv, OwnersOK
  <1>7. NewTokensUnowned'
    BY <1>1, <1>2, <1>3 DEF OwnerInv, NewTokensUnowned, Unowned
  <1>8. Unowned(c)
    BY <1>2 DEF OwnerInv, NewTokensUnowned, StepsBeforeSetOwner
  <1>9. SurvivorsOK'
    <2> SUFFICES ASSUME NEW j \in TokenIDs, CVVTokensOf(j) # {}
                 PROVE  \E d \in CVVTokensOf(j) :
                          fate[d] # "invalidated" /\ \A s \in Requests : prev'[s] # d
      BY <1>2, <1>5 DEF SurvivorsOK
    <2>1. CASE j = k
      <3>1. c \in CVVTokensOf(k)
        BY <1>4, TokensOfPAN
      <3> QED
        BY <1>1, <1>2, <1>8, <2>1, <3>1 DEF Unowned
    <2>2. CASE j # k
      BY <1>2, <1>4, <2>2, OneOwnerEach DEF OwnerInv, SurvivorsOK
    <2> QED
      BY <2>1, <2>2
  <1> QED
    BY <1>6, <1>7, <1>9 DEF OwnerInv

\* DEL of the previous token: it has been given up already, and has a name.
LEMMA DelPreviousSteps ==
  ASSUME Inv, OwnerInv, NEW r \in Requests, TokenizeDelPrevious(r)
  PROVE  OwnerInv'
PROOF
  <1>1. /\ \A j \in TokenIDs : \/ fate'[j] = fate[j]
                               \/ fate[j] # "none" /\ fate'[j] # "none" /\ j = prev[r]
        /\ UNCHANGED <<cvvtokOwner, prev, panTok>>
    <2>1. prev[r] \in TokenIDs /\ fate[prev[r]] # "none"
      BY CvvToks, TokensOfPAN DEF TokenizeDelPrevious, Inv, TypeOK, HandlerOK, OwnerInv, OwnersOK
    <2> QED
      BY <2>1 DEF TokenizeDelPrevious, DeleteCVVToken, redisVars, Inv, TypeOK, RedisTypeOK
  <1>2. \A s \in Requests : pc'[s] \in StepsBeforeSetOwner => pc[s] \in StepsBeforeSetOwner
    BY DEF TokenizeDelPrevious, Goto, Inv, TypeOK, StepsBeforeSetOwner
  <1>3. \A k \in TokenIDs \cup {Nil} : CVVTokensOf(k)' = CVVTokensOf(k)
    BY <1>1, CvvToks DEF CVVTokensOf
  <1>4. \A k : CVVTokensOf(k) \subseteq TokenIDs
    BY CvvToks DEF CVVTokensOf
  <1>5. OwnersOK'
    BY <1>1, <1>2, <1>3, CvvToks DEF OwnerInv, OwnersOK, Inv, TypeOK
  <1>6. NewTokensUnowned'
    BY <1>1, <1>2, CvvToks DEF OwnerInv, NewTokensUnowned, Unowned
  <1>7. SurvivorsOK'
    BY <1>1, <1>3, <1>4 DEF OwnerInv, SurvivorsOK
  <1> QED
    BY <1>5, <1>6, <1>7 DEF OwnerInv

\* SET of the owner: the handler's own token gets a name, and is not given up.
LEMMA SetOwnerSteps ==
  ASSUME Inv, OwnerInv, NEW r \in Requests, TokenizeSetOwner(r)
  PROVE  OwnerInv'
PROOF
  <1> DEFINE c == CvvTok(r)
             k == panTok[r]
             t == req[r].tenant
  <1>1. /\ t \in Tenants /\ k \in TokenIDs /\ <<t, k>> \in RedisKeys
        /\ \A u \in Tenants, j \in TokenIDs :
             cvvtokOwner'[<<u, j>>] # cvvtokOwner[<<u, j>>] => j = k /\ cvvtokOwner'[<<u, j>>] = c
    <2>1. t \in Tenants /\ k \in TokenIDs /\ <<t, k>> \in RedisKeys
      BY DEF TokenizeSetOwner, Inv, TypeOK, HandlerOK, TokenizeSteps, TokenizeInputs, RedisKeys
    <2>2. \A u \in Tenants, j \in TokenIDs : <<u, j>> \in RedisKeys
      BY DEF RedisKeys
    <2>3. \/ UNCHANGED cvvtokOwner
          \/ cvvtokOwner' = [cvvtokOwner EXCEPT ![<<t, k>>] = c]
      BY DEF TokenizeSetOwner, SetCVVTokenOwner, redisVars
    <2> QED
      BY <2>1, <2>2, <2>3 DEF Inv, TypeOK, RedisTypeOK
  <1>2. /\ \A s \in Requests : prev'[s] = IF s = r THEN Nil ELSE prev[s]
        /\ UNCHANGED <<fate, panTok>>
        /\ pc[r] = "setOwner"
    BY DEF TokenizeSetOwner, SetCVVTokenOwner, redisVars, Inv, TypeOK
  <1>3. \A s \in Requests : pc'[s] \in StepsBeforeSetOwner => pc[s] \in StepsBeforeSetOwner /\ s # r
    BY DEF TokenizeSetOwner, Goto, Inv, TypeOK, StepsBeforeSetOwner
  <1>4. c \in CVVTokensOf(k)
    BY <1>2, TokensOfPAN DEF OwnerInv, OwnersOK, StepsBeforeSetOwner
  <1>5. \A j : CVVTokensOf(j)' = CVVTokensOf(j)
    BY <1>2 DEF CVVTokensOf
  <1>6. OwnersOK'
    BY <1>1, <1>2, <1>3, <1>4, <1>5 DEF OwnerInv, OwnersOK
  <1>7. NewTokensUnowned'
    <2> SUFFICES ASSUME NEW s \in Requests, s # r, pc[s] \in StepsBeforeSetOwner
                 PROVE  Unowned(CvvTok(s))'
      BY <1>3 DEF NewTokensUnowned
    <2>1. Unowned(CvvTok(s)) /\ CvvTok(s) # c /\ CvvTok(s) # Nil
      BY CvvToks DEF OwnerInv, NewTokensUnowned
    <2> QED
      BY <1>1, <1>2, <2>1 DEF Unowned, RedisKeys
  <1>8. SurvivorsOK'
    <2>1. \A j : Nil \notin CVVTokensOf(j)
      BY CvvToks DEF CVVTokensOf
    <2> QED
      BY <1>2, <1>5, <2>1 DEF OwnerInv, SurvivorsOK
  <1> QED
    BY <1>6, <1>7, <1>8 DEF OwnerInv

\* Detokenize and expiry end tokens, but do not invalidate them.
LEMMA KeysThatGo ==
  ASSUME Inv, NEW t \in Tenants, NEW k \in TokenIDs,
         \/ RetrieveCVVToken(t, k) \/ UNCHANGED redisVars
         \/ CVVTokenExpires(t, k)
         \/ CVVTokenOwnerExpires(t, k)
  PROVE  /\ \A j \in TokenIDs : \/ fate'[j] = fate[j]
                                \/ fate[j] = "stored" /\ fate'[j] \in {"consumed", "expired"}
         /\ \A key \in RedisKeys : cvvtokOwner'[key] \in {Nil, cvvtokOwner[key]}
PROOF
  <1>1. cvvtok[<<t, k>>] # Nil => fate[k] = "stored"
    BY DEF Inv, CVVTokensOK
  <1> QED
    BY <1>1
    DEF RetrieveCVVToken, CVVTokenExpires, CVVTokenOwnerExpires, redisVars, Inv, TypeOK, RedisTypeOK

\* Handlers take their PAN token before they store their CVV token.
LEMMA OtherHandlerSteps ==
  ASSUME Inv, OwnerInv, NEW r \in Requests,
         \/ Reject(r) \/ Receive(r) \/ Crash(r)
         \/ Tokenize(r) /\ UNCHANGED <<redisVars, prev>>
         \/ UseToken(r)
  PROVE  OwnerInv'
PROOF
  <1>1. UNCHANGED prev
    BY DEF Reject, Receive, Begin, Crash, Tokenize, UseToken, DetokenizeFindByTokenID,
           DetokenizeDecryptPAN, DetokenizeUpdateLastUsed, DetokenizeRetrieveCVVToken,
           StatusFindByTokenID, StatusExistsCVVToken, DeactivateFindByTokenID,
           DeactivateUpdateStatus, AuditAndAnswer
  <1>2. CASE UNCHANGED redisVars
    <2>1. \A s \in Requests : fate[CvvTok(s)] # "none" => panTok'[s] = panTok[s]
      BY DEF Reject, Receive, Begin, Crash, Tokenize, UseToken, DetokenizeFindByTokenID,
             DetokenizeDecryptPAN, DetokenizeUpdateLastUsed, DetokenizeRetrieveCVVToken,
             StatusFindByTokenID, StatusExistsCVVToken, DeactivateFindByTokenID,
             DeactivateUpdateStatus, AuditAndAnswer, TokenizeFindByBlindIndex, TokenizeEncryptPAN,
             TokenizeTokenCreate, TokenizeVaultCreate, TokenizeAuditPAN, TokenizeStoreCVVToken,
             TokenizeGetOwner, TokenizeDelPrevious, TokenizeSetOwner, TokenizeAuditCVV,
             Inv, TypeOK, CVVTokensOK, StepsBeforeStore
    <2>2. \A s \in Requests : pc'[s] \in StepsBeforeSetOwner => pc[s] \in StepsBeforeSetOwner
      <3>1. fate[CvvTok(r)] = "none" => ~ \E t, v : StoreCVVToken(t, CvvTok(r), v)
        <4> SUFFICES ASSUME fate[CvvTok(r)] = "none", NEW t, NEW v,
                            StoreCVVToken(t, CvvTok(r), v)
                     PROVE  FALSE
          OBVIOUS
        <4>1. fate' = [fate EXCEPT ![CvvTok(r)] = "stored"]
          BY DEF StoreCVVToken
        <4>2. fate'[CvvTok(r)] = "stored"
          BY <4>1, CvvToks DEF Inv, TypeOK, RedisTypeOK
        <4> QED
          BY <1>2, <4>2 DEF redisVars
      <3>2. pc[r] = "storeCVV" => fate[CvvTok(r)] = "none"
        BY DEF Inv, CVVTokensOK, StepsBeforeStore
      <3>3. CASE TokenizeStoreCVVToken(r)
        <4>1. Fail("redis", r, 500)
          BY <3>1, <3>2, <3>3 DEF TokenizeStoreCVVToken
        <4> QED
          BY <4>1 DEF Reply, Fail, Inv, TypeOK, StepsBeforeSetOwner
      <3>4. CASE Reject(r) \/ Receive(r) \/ Crash(r)
        BY <3>4
        DEF Reject, Receive, Begin, BeginTokenize, BeginCVV, Crash, Goto, Reply, Fail, Inv, TypeOK,
            StepsBeforeSetOwner
      <3>5. CASE UseToken(r)
        BY <3>5
        DEF UseToken, DetokenizeFindByTokenID, DetokenizeDecryptPAN, DetokenizeUpdateLastUsed,
            DetokenizeRetrieveCVVToken, StatusFindByTokenID, StatusExistsCVVToken,
            DeactivateFindByTokenID, DeactivateUpdateStatus, AuditAndAnswer, Goto, Reply, Fail,
            Inv, TypeOK, StepsBeforeSetOwner
      <3>6. CASE Tokenize(r) /\ ~ TokenizeStoreCVVToken(r)
        BY <3>6
        DEF Tokenize, TokenizeFindByBlindIndex, TokenizeEncryptPAN, TokenizeTokenCreate,
            TokenizeVaultCreate, TokenizeAuditPAN, BeginCVV, TokenizeGetOwner,
            TokenizeDelPrevious, TokenizeSetOwner, TokenizeAuditCVV, Goto, Reply, Fail,
            Inv, TypeOK, StepsBeforeSetOwner
      <3> QED
        BY <3>3, <3>4, <3>5, <3>6
    <2> QED
      BY <1>1, <1>2, <2>1, <2>2, QuietSteps DEF Inv, redisVars
  <1>3. CASE ~ UNCHANGED redisVars
    <2>1. DetokenizeRetrieveCVVToken(r)
      BY <1>3
      DEF Reject, Receive, Begin, Crash, UseToken, DetokenizeFindByTokenID, DetokenizeDecryptPAN,
          DetokenizeUpdateLastUsed, StatusFindByTokenID, StatusExistsCVVToken,
          DeactivateFindByTokenID, DeactivateUpdateStatus, AuditAndAnswer
    <2>2. req[r].tenant \in Tenants /\ req[r].token \in TokenIDs
      BY <2>1 DEF DetokenizeRetrieveCVVToken, Inv, TypeOK, HandlerOK, TokenSteps, TokenInputs
    <2>3. RetrieveCVVToken(req[r].tenant, req[r].token)
      BY <1>3, <2>1 DEF DetokenizeRetrieveCVVToken
    <2>4. /\ UNCHANGED panTok
          /\ \A s \in Requests : pc'[s] \in StepsBeforeSetOwner => pc[s] \in StepsBeforeSetOwner
      BY <2>1 DEF DetokenizeRetrieveCVVToken, Goto, Reply, Fail, Inv, TypeOK, StepsBeforeSetOwner
    <2> QED
      BY <1>1, <2>2, <2>3, <2>4, KeysThatGo, QuietSteps DEF Inv
  <1> QED
    BY <1>2, <1>3

\* Every step keeps the invariant of the invalidation.
LEMMA OwnerStep ==
  ASSUME Inv, OwnerInv, [Next]_vars
  PROVE  OwnerInv'
PROOF
  <1>1. ASSUME NEW r \in Requests, Reject(r) \/ Receive(r) \/ UseToken(r) \/ Crash(r)
        PROVE  OwnerInv'
    BY <1>1, OtherHandlerSteps
  <1>2. ASSUME NEW r \in Requests, Tokenize(r)
        PROVE  OwnerInv'
    <2>1. CASE UNCHANGED <<redisVars, prev>>
      BY <1>2, <2>1, OtherHandlerSteps
    <2>2. CASE ~ UNCHANGED <<redisVars, prev>>
      <3>1. \/ TokenizeStoreCVVToken(r) /\ ~ UNCHANGED redisVars
            \/ TokenizeGetOwner(r) /\ prev'[r] # prev[r]
            \/ TokenizeDelPrevious(r)
            \/ TokenizeSetOwner(r)
        BY <1>2, <2>2
        DEF Tokenize, TokenizeFindByBlindIndex, TokenizeEncryptPAN, TokenizeTokenCreate,
            TokenizeVaultCreate, TokenizeAuditPAN, TokenizeStoreCVVToken, TokenizeGetOwner,
            TokenizeAuditCVV, Inv, TypeOK
      <3> QED
        BY <3>1, StoreSteps, GetOwnerSteps, DelPreviousSteps, SetOwnerSteps
    <2> QED
      BY <2>1, <2>2
  <1>3. ASSUME NEW t \in Tenants, NEW k \in TokenIDs, RedisExpiry(t, k)
        PROVE  OwnerInv'
    BY <1>3, KeysThatGo, QuietSteps DEF RedisExpiry, handlerVars, Inv
  <1>4. CASE (\E t \in Tenants : TenantDeactivated(t)) \/ UNCHANGED vars
    BY <1>4, QuietSteps DEF TenantDeactivated, vars, redisVars, handlerVars, Inv
  <1> QED
    BY <1>1, <1>2, <1>3, <1>4 DEF Next

\* At the start nobody owns or stores anything.
LEMMA OwnerStart ==
  ASSUME Init
  PROVE  OwnerInv
PROOF
  BY DEF Init, RedisInit, RedisKeys, OwnerInv, OwnersOK, NewTokensUnowned, SurvivorsOK,
         StepsBeforeSetOwner, CVVTokensOf, CvvTok, TokenIDs

\* The invariant of the invalidation holds of the tokenizer.
LEMMA OwnerInvariant == Spec => [](Inv /\ OwnerInv)
PROOF
  <1>1. Init => OwnerInv
    BY OwnerStart
  <1>2. Inv /\ OwnerInv /\ [Next]_vars => OwnerInv'
    BY OwnerStep
  <1> QED
    BY <1>1, <1>2, InvariantHolds, PTL DEF Spec

-----------------------------------------------------------------------------
\* Of the CVV tokens that tokenize requests have stored for one PAN token, the
\* invalidation (cvv_store.go:95) leaves one at least, however many requests
\* overlap, die or lose the results of their commands.
THEOREM InvalidationLeavesOne == Spec => []SomeCVVSurvives
PROOF
  <1>1. OwnerInv => SomeCVVSurvives
    BY DEF OwnerInv, SurvivorsOK, SomeCVVSurvives
  <1> QED
    BY <1>1, OwnerInvariant, PTL

\* OwnerInv: an owner key names a CVV token that was stored with its PAN token, the
\* token a handler has just stored is named by nobody, and of the tokens of a PAN
\* token one is neither deleted nor about to be (cvv_store.go:95-115).
THEOREM OwnersAreTracked == Spec => []OwnerInv
PROOF
  BY OwnerInvariant, PTL
===============================================================================

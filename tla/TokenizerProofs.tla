--------------------------- MODULE TokenizerProofs ---------------------------
(***************************************************************************)
(* Type correctness of Tokenizer, for any requests, tenants, PANs, CVVs,   *)
(* endpoints and faults; what a handler knows of its request at each of    *)
(* its steps (HandlerOK); and deterministic tokens: every step keeps the   *)
(* directory of PAN tokens (DirectoryOK), so that answers agree on the     *)
(* token of a PAN.                                                         *)
(***************************************************************************)
EXTENDS TokenizerInvariants, TLAPS

-----------------------------------------------------------------------------
(* What each statement and command leaves in the tables and keys *)

\* logAudit writes one well-formed row, or none.
LEMMA AuditRowType ==
  ASSUME DbTypeOK, NEW r \in Requests, NEW k \in TokenIDs, NEW op,
         op \in {"tokenize", "detokenize", "validate", "deactivate"},
         req[r].tenant \in Tenants, Audited(r, k, op)
  PROVE  audit' \subseteq AuditRows
  BY DEF DbTypeOK, Audited, AuditAppend, AuditRows

\* The INSERT into vault_entries writes a sealed PAN with its wrapped data key.
LEMMA VaultRowType ==
  ASSUME DbTypeOK, NEW t \in Tenants, NEW k \in TokenIDs, NEW p \in PANs,
         VaultCreate(t, k, Encrypt(p, k), GenerateDataKey(t, k))
  PROVE  vault' \in [TokenIDs -> VaultRows \cup {Nil}]
PROOF
  <1>1. Encrypt(p, k) \in SealedPANs
    BY DEF Encrypt, SealedPANs, DEKs
  <1>2. GenerateDataKey(t, k) \in WrappedDEKs
    BY DEF GenerateDataKey, WrappedDEKs, DEKs
  <1> DEFINE row == [tenant |-> t, ciphertext |-> Encrypt(p, k),
                     dekEncrypted |-> GenerateDataKey(t, k)]
  <1>3. row \in VaultRows
    BY <1>1, <1>2 DEF VaultRows
  <1>4. vault' = [vault EXCEPT ![k] = row]
    BY DEF VaultCreate
  <1> HIDE DEF row
  <1> QED
    BY <1>3, <1>4 DEF DbTypeOK

\* The statements on the tokens table write and read well-formed rows only.
LEMMA TokenRowType ==
  ASSUME DbTypeOK, NEW t \in Tenants, NEW k \in TokenIDs
  PROVE  /\ \A p \in PANs : TokenCreate(t, k, ComputeBlindIndex(t, p))
                              => tokens' \in [TokenIDs -> TokenRows \cup {Nil}]
         /\ UpdateStatus(t, k, "inactive") => tokens' \in [TokenIDs -> TokenRows \cup {Nil}]
         /\ UpdateLastUsed(t, k) => tokens' \in [TokenIDs -> TokenRows \cup {Nil}]
         /\ FindByTokenID(t, k) \in TokenRows \cup {Nil}
PROOF
  <1>1. FindByTokenID(t, k) \in TokenRows \cup {Nil}
    BY DEF DbTypeOK, FindByTokenID
  <1>2. ASSUME NEW p \in PANs, TokenCreate(t, k, ComputeBlindIndex(t, p))
        PROVE  tokens' \in [TokenIDs -> TokenRows \cup {Nil}]
    <2> DEFINE row == [tenant |-> t, blindIndex |-> ComputeBlindIndex(t, p),
                       status |-> "active", used |-> FALSE]
    <2>1. row \in TokenRows
      BY DEF TokenRows, ComputeBlindIndex, BlindIndexes
    <2>2. tokens' = [tokens EXCEPT ![k] = row]
      BY <1>2 DEF TokenCreate
    <2> HIDE DEF row
    <2> QED
      BY <2>1, <2>2 DEF DbTypeOK
  <1>3. FindByTokenID(t, k) # Nil =>
          /\ tokens[k] \in TokenRows
          /\ [tokens[k] EXCEPT !.status = "inactive"] \in TokenRows
          /\ [tokens[k] EXCEPT !.used = TRUE] \in TokenRows
    BY DEF DbTypeOK, FindByTokenID, TokenRows
  <1>4. UpdateStatus(t, k, "inactive") => tokens' \in [TokenIDs -> TokenRows \cup {Nil}]
    <2>1. UpdateStatus(t, k, "inactive") =>
            tokens' = IF FindByTokenID(t, k) = Nil THEN tokens
                      ELSE [tokens EXCEPT ![k] = [tokens[k] EXCEPT !.status = "inactive"]]
      BY DEF UpdateStatus
    <2> QED
      BY <1>3, <2>1 DEF DbTypeOK
  <1>5. UpdateLastUsed(t, k) => tokens' \in [TokenIDs -> TokenRows \cup {Nil}]
    <2>1. UpdateLastUsed(t, k) =>
            tokens' = IF FindByTokenID(t, k) = Nil THEN tokens
                      ELSE [tokens EXCEPT ![k] = [tokens[k] EXCEPT !.used = TRUE]]
      BY DEF UpdateLastUsed
    <2> QED
      BY <1>3, <2>1 DEF DbTypeOK
  <1> QED
    BY <1>1, <1>2, <1>4, <1>5

\* A step that sends no command to Redis keeps the types of its keys.
LEMMA RedisUnchanged ==
  ASSUME RedisTypeOK, UNCHANGED redisVars
  PROVE  RedisTypeOK'
  BY DEF RedisTypeOK, redisVars

\* Every command the CVV store sends, and every expiry, keeps the types of the keys.
LEMMA RedisOpsType ==
  ASSUME RedisTypeOK, NEW t \in Tenants, NEW k \in TokenIDs, NEW j \in TokenIDs
  PROVE  /\ UNCHANGED redisVars => RedisTypeOK'
         /\ \A c \in CVVs : StoreCVVToken(t, k, Encrypt(c, k)) => RedisTypeOK'
         /\ RetrieveCVVToken(t, k) => RedisTypeOK'
         /\ DeleteCVVToken(t, k) => RedisTypeOK'
         /\ SetCVVTokenOwner(t, j, k) => RedisTypeOK'
         /\ CVVTokenExpires(t, k) => RedisTypeOK'
         /\ CVVTokenOwnerExpires(t, k) => RedisTypeOK'
         /\ cvvtok[<<t, k>>] \in SealedCVVs \cup {Nil}
         /\ cvvtokOwner[<<t, k>>] \in TokenIDs \cup {Nil}
PROOF
  <1>1. <<t, k>> \in RedisKeys /\ <<t, j>> \in RedisKeys
    BY DEF RedisKeys
  <1> DEFINE gone == [cvvtok EXCEPT ![<<t, k>>] = Nil]
  <1>2. gone \in [RedisKeys -> SealedCVVs \cup {Nil}]
    BY DEF RedisTypeOK
  <1>3. RetrieveCVVToken(t, k) => RedisTypeOK'
    BY <1>2 DEF RedisTypeOK, RetrieveCVVToken
  <1>4. DeleteCVVToken(t, k) => RedisTypeOK'
    BY <1>2 DEF RedisTypeOK, DeleteCVVToken
  <1>5. SetCVVTokenOwner(t, j, k) => RedisTypeOK'
    BY <1>1 DEF RedisTypeOK, SetCVVTokenOwner
  <1>6. CVVTokenExpires(t, k) => RedisTypeOK'
    BY <1>2 DEF RedisTypeOK, CVVTokenExpires
  <1>7. CVVTokenOwnerExpires(t, k) => RedisTypeOK'
    BY DEF RedisTypeOK, CVVTokenOwnerExpires
  <1>8. UNCHANGED redisVars => RedisTypeOK'
    BY DEF RedisTypeOK, redisVars
  <1>9. ASSUME NEW c \in CVVs, StoreCVVToken(t, k, Encrypt(c, k))
        PROVE  RedisTypeOK'
    <2>1. Encrypt(c, k) \in SealedCVVs
      BY DEF Encrypt, SealedCVVs, DEKs
    <2> QED
      BY <1>1, <1>9, <2>1 DEF RedisTypeOK, StoreCVVToken
  <1> QED
    BY <1>1, <1>3, <1>4, <1>5, <1>6, <1>7, <1>8, <1>9 DEF RedisTypeOK

-----------------------------------------------------------------------------
(* Every step keeps the types and the handlers' knowledge *)

\* The empty service: no rows, no keys, no request received.
LEMMA TypeInit ==
  ASSUME Init
  PROVE  TypeOK /\ HandlerOK
  BY DEF Init, DbInit, RedisInit, TypeOK, DbTypeOK, RedisTypeOK, HandlerOK, CVVSteps,
         TokenizeSteps, TokenSteps, Steps

\* No call of any handler, failed or not, takes a variable out of its type.
LEMMA TypeOKStep ==
  ASSUME TypeOK, HandlerOK, [Next]_vars
  PROVE  TypeOK'
PROOF
  <1> USE RedisUnchanged, NilAssumption, NoRowAssumption, NoKeyAssumption
        DEF TypeOK, DbTypeOK, HandlerOK, CVVSteps, TokenizeSteps, TokenSteps, Steps,
            dbVars, Goto, Reply, Fail
  <1>1. ASSUME NEW r \in Requests, Reject(r)
      PROVE  TypeOK'
    BY <1>1 DEF Reject
  <1>2. ASSUME NEW r \in Requests, TokenizeFindByBlindIndex(r)
      PROVE  TypeOK'
    BY <1>2 DEF TokenizeFindByBlindIndex, FindByBlindIndex
  <1>3. ASSUME NEW r \in Requests, TokenizeEncryptPAN(r)
      PROVE  TypeOK'
    BY <1>3 DEF TokenizeEncryptPAN
  <1>4. ASSUME NEW r \in Requests, TokenizeTokenCreate(r)
      PROVE  TypeOK'
    <2>1. req[r].tenant \in Tenants /\ req[r].pan \in PANs /\ PanTok(r) \in TokenIDs
      BY <1>4 DEF TokenizeTokenCreate, TokenizeInputs, PanTok, TokenIDs
    <2>2. tokens' \in [TokenIDs -> TokenRows \cup {Nil}]
      BY <1>4, <2>1, TokenRowType DEF TokenizeTokenCreate
    <2> QED
      BY <1>4, <2>1, <2>2 DEF TokenizeTokenCreate
  <1>5. ASSUME NEW r \in Requests, TokenizeVaultCreate(r)
      PROVE  TypeOK'
    <2>1. req[r].tenant \in Tenants /\ req[r].pan \in PANs /\ PanTok(r) \in TokenIDs
      BY <1>5 DEF TokenizeVaultCreate, TokenizeInputs, PanTok, TokenIDs
    <2>2. vault' \in [TokenIDs -> VaultRows \cup {Nil}]
      BY <1>5, <2>1, VaultRowType DEF TokenizeVaultCreate
    <2> QED
      BY <1>5, <2>1, <2>2 DEF TokenizeVaultCreate
  <1>6. ASSUME NEW r \in Requests, TokenizeAuditPAN(r)
      PROVE  TypeOK'
    <2>1. req[r].tenant \in Tenants /\ panTok[r] \in TokenIDs
      BY <1>6 DEF TokenizeAuditPAN, TokenizeInputs
    <2>2. audit' \subseteq AuditRows
      BY <1>6, <2>1, AuditRowType DEF TokenizeAuditPAN
    <2> QED
      BY <1>6, <2>2 DEF TokenizeAuditPAN, BeginCVV, TokenizeStatus
  <1>7. ASSUME NEW r \in Requests, TokenizeStoreCVVToken(r)
      PROVE  TypeOK'
    <2>1. req[r].tenant \in Tenants /\ req[r].cvv \in CVVs /\ CvvTok(r) \in TokenIDs
      BY <1>7 DEF TokenizeStoreCVVToken, TokenizeInputs, CvvTok, TokenIDs
    <2>2. RedisTypeOK'
      BY <1>7, <2>1, RedisOpsType DEF TokenizeStoreCVVToken
    <2> QED
      BY <1>7, <2>2 DEF TokenizeStoreCVVToken
  <1>8. ASSUME NEW r \in Requests, TokenizeGetOwner(r)
      PROVE  TypeOK'
    <2>1. req[r].tenant \in Tenants /\ panTok[r] \in TokenIDs
      BY <1>8 DEF TokenizeGetOwner, TokenizeInputs
    <2>2. cvvtokOwner[<<req[r].tenant, panTok[r]>>] \in TokenIDs \cup {Nil}
      BY <2>1, RedisOpsType
    <2> QED
      BY <1>8, <2>2 DEF TokenizeGetOwner
  <1>9. ASSUME NEW r \in Requests, TokenizeDelPrevious(r)
      PROVE  TypeOK'
    <2>1. req[r].tenant \in Tenants /\ prev[r] \in TokenIDs
      BY <1>9 DEF TokenizeDelPrevious, TokenizeInputs
    <2>2. RedisTypeOK'
      BY <1>9, <2>1, RedisOpsType DEF TokenizeDelPrevious
    <2> QED
      BY <1>9, <2>2 DEF TokenizeDelPrevious
  <1>10. ASSUME NEW r \in Requests, TokenizeSetOwner(r)
      PROVE  TypeOK'
    <2>1. req[r].tenant \in Tenants /\ panTok[r] \in TokenIDs /\ CvvTok(r) \in TokenIDs
      BY <1>10 DEF TokenizeSetOwner, TokenizeInputs, CvvTok, TokenIDs
    <2>2. RedisTypeOK'
      BY <1>10, <2>1, RedisOpsType DEF TokenizeSetOwner
    <2> QED
      BY <1>10, <2>2 DEF TokenizeSetOwner
  <1>11. ASSUME NEW r \in Requests, TokenizeAuditCVV(r)
      PROVE  TypeOK'
    <2>1. req[r].tenant \in Tenants /\ CvvTok(r) \in TokenIDs
      BY <1>11 DEF TokenizeAuditCVV, TokenizeInputs, CvvTok, TokenIDs
    <2>2. audit' \subseteq AuditRows
      BY <1>11, <2>1, AuditRowType DEF TokenizeAuditCVV
    <2> QED
      BY <1>11, <2>2 DEF TokenizeAuditCVV, TokenizeStatus
  <1>12. ASSUME NEW r \in Requests, DetokenizeFindByTokenID(r)
      PROVE  TypeOK'
    BY <1>12 DEF DetokenizeFindByTokenID
  <1>13. ASSUME NEW r \in Requests, DetokenizeDecryptPAN(r)
      PROVE  TypeOK'
    BY <1>13
       DEF DetokenizeDecryptPAN, VaultFindByTokenID, Decrypt, UnwrapKey, VaultRows, SealedPANs,
           TokenInputs
  <1>14. ASSUME NEW r \in Requests, DetokenizeUpdateLastUsed(r)
      PROVE  TypeOK'
    <2>1. req[r].tenant \in Tenants /\ req[r].token \in TokenIDs
      BY <1>14 DEF DetokenizeUpdateLastUsed, TokenInputs
    <2>2. tokens' \in [TokenIDs -> TokenRows \cup {Nil}]
      BY <1>14, <2>1, TokenRowType DEF DetokenizeUpdateLastUsed
    <2> QED
      BY <1>14, <2>2 DEF DetokenizeUpdateLastUsed
  <1>15. ASSUME NEW r \in Requests, DetokenizeRetrieveCVVToken(r)
      PROVE  TypeOK'
    <2>1. req[r].tenant \in Tenants /\ req[r].token \in TokenIDs
      BY <1>15 DEF DetokenizeRetrieveCVVToken, TokenInputs
    <2>2. RedisTypeOK'
      BY <1>15, <2>1, RedisOpsType DEF DetokenizeRetrieveCVVToken
    <2>3. cvvtok[<<req[r].tenant, req[r].token>>] \in SealedCVVs \cup {Nil}
      BY <2>1, RedisOpsType
    <2>4. val' \in [Requests -> PANs \cup CVVs \cup {"active", "inactive", Nil}]
      BY <1>15, <2>3 DEF DetokenizeRetrieveCVVToken, Decrypt, SealedCVVs
    <2> QED
      BY <1>15, <2>2, <2>4 DEF DetokenizeRetrieveCVVToken
  <1>16. ASSUME NEW r \in Requests, StatusFindByTokenID(r)
      PROVE  TypeOK'
    <2>1. req[r].token \in TokenIDs
      BY <1>16 DEF StatusFindByTokenID, TokenInputs
    <2>2. val' \in [Requests -> PANs \cup CVVs \cup {"active", "inactive", Nil}]
      BY <1>16, <2>1 DEF StatusFindByTokenID, FindByTokenID, TokenRows
    <2> QED
      BY <1>16, <2>2 DEF StatusFindByTokenID
  <1>17. ASSUME NEW r \in Requests, StatusExistsCVVToken(r)
      PROVE  TypeOK'
    BY <1>17 DEF StatusExistsCVVToken, ExistsCVVToken
  <1>18. ASSUME NEW r \in Requests, DeactivateFindByTokenID(r)
      PROVE  TypeOK'
    BY <1>18 DEF DeactivateFindByTokenID
  <1>19. ASSUME NEW r \in Requests, DeactivateUpdateStatus(r)
      PROVE  TypeOK'
    <2>1. req[r].tenant \in Tenants /\ req[r].token \in TokenIDs
      BY <1>19 DEF DeactivateUpdateStatus, TokenInputs
    <2>2. tokens' \in [TokenIDs -> TokenRows \cup {Nil}]
      BY <1>19, <2>1, TokenRowType DEF DeactivateUpdateStatus
    <2> QED
      BY <1>19, <2>2 DEF DeactivateUpdateStatus
  <1>20. ASSUME NEW r \in Requests, AuditAndAnswer(r)
      PROVE  TypeOK'
    <2>1. req[r].tenant \in Tenants /\ req[r].token \in TokenIDs
      BY <1>20 DEF AuditAndAnswer, TokenInputs
    <2>2. AuditOperation(req[r].op) \in {"tokenize", "detokenize", "validate", "deactivate"}
      BY <1>20 DEF AuditAndAnswer, AuditOperation, TokenInputs, AllOps
    <2>3. audit' \subseteq AuditRows
      BY <1>20, <2>1, <2>2, AuditRowType DEF AuditAndAnswer
    <2> QED
      BY <1>20, <2>3 DEF AuditAndAnswer
  <1>21. ASSUME NEW r \in Requests, Crash(r)
      PROVE  TypeOK'
    BY <1>21 DEF Crash
  <1>22. ASSUME NEW r \in Requests, NEW a \in TokenizeInputs \cup TokenInputs, Begin(r, a)
      PROVE  TypeOK'
    BY <1>22
       DEF Begin, RequireTenant, BeginTokenize, BeginCVV, TokenizeStatus, TokenizeInputs,
           TokenInputs
  <1>23. ASSUME NEW t \in Tenants, TenantDeactivated(t)
      PROVE  TypeOK'
    BY <1>23 DEF TenantDeactivated, DeactivateTenant, handlerVars
  <1>24. ASSUME NEW t \in Tenants, NEW k \in TokenIDs, RedisExpiry(t, k)
      PROVE  TypeOK'
    <2>1. RedisTypeOK'
      BY <1>24, RedisOpsType DEF RedisExpiry
    <2> QED
      BY <1>24, <2>1 DEF RedisExpiry, handlerVars
  <1>25. ASSUME UNCHANGED vars
      PROVE  TypeOK'
    BY <1>25 DEF vars, handlerVars
  <1> QED
    BY <1>1, <1>2, <1>3, <1>4, <1>5, <1>6, <1>7, <1>8, <1>9, <1>10, <1>11, <1>12, <1>13, <1>14,
       <1>15, <1>16, <1>17, <1>18, <1>19, <1>20, <1>21, <1>22, <1>23, <1>24, <1>25
       DEF Next, Receive, Tokenize, UseToken

\* No call takes a handler to a step whose data it has not established, and no
\* handler touches what another one relies on.
LEMMA HandlerOKStep ==
  ASSUME TypeOK, HandlerOK, [Next]_vars
  PROVE  HandlerOK'
PROOF
  <1> USE NilAssumption, NoRowAssumption, NoKeyAssumption
        DEF TypeOK, DbTypeOK, RedisTypeOK, HandlerOK, CVVSteps, TokenizeSteps, TokenSteps, Steps,
            dbVars, redisVars, Goto, Reply, Fail
  <1>1. ASSUME NEW r \in Requests, Reject(r)
      PROVE  HandlerOK'
    BY <1>1 DEF Reject
  <1>2. ASSUME NEW r \in Requests, TokenizeFindByBlindIndex(r)
      PROVE  HandlerOK'
    BY <1>2 DEF TokenizeFindByBlindIndex, FindByBlindIndex
  <1>3. ASSUME NEW r \in Requests, TokenizeEncryptPAN(r)
      PROVE  HandlerOK'
    BY <1>3 DEF TokenizeEncryptPAN
  <1>4. ASSUME NEW r \in Requests, TokenizeTokenCreate(r)
      PROVE  HandlerOK'
    BY <1>4
       DEF TokenizeTokenCreate, TokenCreate, ComputeBlindIndex, BlindIndexes, TokenRows,
           TokenizeInputs, PanTok, TokenIDs
  <1>5. ASSUME NEW r \in Requests, TokenizeVaultCreate(r)
      PROVE  HandlerOK'
    BY <1>5
       DEF TokenizeVaultCreate, VaultCreate, GenerateDataKey, Encrypt, PanTok, TokenIDs, DEKs,
           TokenizeInputs, VaultRows, SealedPANs, WrappedDEKs
  <1>6. ASSUME NEW r \in Requests, TokenizeAuditPAN(r)
      PROVE  HandlerOK'
    BY <1>6
       DEF TokenizeAuditPAN, Audited, AuditAppend, AuditRows, BeginCVV, TokenizeStatus,
           TokenizeInputs
  <1>7. ASSUME NEW r \in Requests, TokenizeStoreCVVToken(r)
      PROVE  HandlerOK'
    BY <1>7
       DEF TokenizeStoreCVVToken, StoreCVVToken, Encrypt, CvvTok, TokenIDs, DEKs, TokenizeInputs,
           SealedCVVs, RedisKeys
  <1>8. ASSUME NEW r \in Requests, TokenizeGetOwner(r)
      PROVE  HandlerOK'
    BY <1>8 DEF TokenizeGetOwner, TokenizeInputs, RedisKeys
  <1>9. ASSUME NEW r \in Requests, TokenizeDelPrevious(r)
      PROVE  HandlerOK'
    BY <1>9 DEF TokenizeDelPrevious, DeleteCVVToken, TokenizeInputs, RedisKeys
  <1>10. ASSUME NEW r \in Requests, TokenizeSetOwner(r)
      PROVE  HandlerOK'
    BY <1>10 DEF TokenizeSetOwner, SetCVVTokenOwner, TokenizeInputs, RedisKeys, CvvTok, TokenIDs
  <1>11. ASSUME NEW r \in Requests, TokenizeAuditCVV(r)
      PROVE  HandlerOK'
    BY <1>11
       DEF TokenizeAuditCVV, Audited, AuditAppend, AuditRows, CvvTok, TokenIDs, TokenizeStatus,
           TokenizeInputs
  <1>12. ASSUME NEW r \in Requests, DetokenizeFindByTokenID(r)
      PROVE  HandlerOK'
    BY <1>12 DEF DetokenizeFindByTokenID
  <1>13. ASSUME NEW r \in Requests, DetokenizeDecryptPAN(r)
      PROVE  HandlerOK'
    BY <1>13
       DEF DetokenizeDecryptPAN, VaultFindByTokenID, Decrypt, UnwrapKey, VaultRows, SealedPANs,
           TokenInputs
  <1>14. ASSUME NEW r \in Requests, DetokenizeUpdateLastUsed(r)
      PROVE  HandlerOK'
    BY <1>14 DEF DetokenizeUpdateLastUsed, UpdateLastUsed, FindByTokenID, TokenRows, TokenInputs
  <1>15. ASSUME NEW r \in Requests, DetokenizeRetrieveCVVToken(r)
      PROVE  HandlerOK'
    BY <1>15
       DEF DetokenizeRetrieveCVVToken, RetrieveCVVToken, RedisKeys, Decrypt, SealedCVVs, TokenInputs
  <1>16. ASSUME NEW r \in Requests, StatusFindByTokenID(r)
      PROVE  HandlerOK'
    BY <1>16 DEF StatusFindByTokenID, FindByTokenID, TokenRows, TokenInputs
  <1>17. ASSUME NEW r \in Requests, StatusExistsCVVToken(r)
      PROVE  HandlerOK'
    BY <1>17 DEF StatusExistsCVVToken, ExistsCVVToken
  <1>18. ASSUME NEW r \in Requests, DeactivateFindByTokenID(r)
      PROVE  HandlerOK'
    BY <1>18 DEF DeactivateFindByTokenID
  <1>19. ASSUME NEW r \in Requests, DeactivateUpdateStatus(r)
      PROVE  HandlerOK'
    BY <1>19 DEF DeactivateUpdateStatus, UpdateStatus, FindByTokenID, TokenRows, TokenInputs
  <1>20. ASSUME NEW r \in Requests, AuditAndAnswer(r)
      PROVE  HandlerOK'
    BY <1>20
       DEF AuditAndAnswer, Audited, AuditAppend, AuditRows, AuditOperation, TokenInputs, AllOps
  <1>21. ASSUME NEW r \in Requests, Crash(r)
      PROVE  HandlerOK'
    BY <1>21 DEF Crash
  <1>22. ASSUME NEW r \in Requests, NEW a \in TokenizeInputs \cup TokenInputs, Begin(r, a)
      PROVE  HandlerOK'
    BY <1>22
       DEF Begin, RequireTenant, BeginTokenize, BeginCVV, TokenizeStatus, TokenizeInputs,
           TokenInputs
  <1>23. ASSUME NEW t \in Tenants, TenantDeactivated(t)
      PROVE  HandlerOK'
    BY <1>23 DEF TenantDeactivated, DeactivateTenant, handlerVars
  <1>24. ASSUME NEW t \in Tenants, NEW k \in TokenIDs, RedisExpiry(t, k)
      PROVE  HandlerOK'
    BY <1>24 DEF RedisExpiry, CVVTokenExpires, CVVTokenOwnerExpires, RedisKeys, handlerVars
  <1>25. ASSUME UNCHANGED vars
      PROVE  HandlerOK'
    BY <1>25 DEF vars, handlerVars
  <1> QED
    BY <1>1, <1>2, <1>3, <1>4, <1>5, <1>6, <1>7, <1>8, <1>9, <1>10, <1>11, <1>12, <1>13, <1>14,
       <1>15, <1>16, <1>17, <1>18, <1>19, <1>20, <1>21, <1>22, <1>23, <1>24, <1>25
       DEF Next, Receive, Tokenize, UseToken

-----------------------------------------------------------------------------
\* The variables of the service always have their types, and every handler that
\* has reached a step has the data the step uses: for example the PAN of an
\* insert was validated, and a read of the owner key has a PAN token to name it.
THEOREM TypeCorrect == Spec => [](TypeOK /\ HandlerOK)
PROOF
  <1>1. Init => TypeOK /\ HandlerOK
    BY TypeInit
  <1>2. TypeOK /\ HandlerOK /\ [Next]_vars => (TypeOK /\ HandlerOK)'
    BY TypeOKStep, HandlerOKStep
  <1> QED
    BY <1>1, <1>2, PTL DEF Spec

-----------------------------------------------------------------------------
(* What the statements on "tokens" leave alone *)

\* Neither UPDATE touches the columns that identify a row.
LEMMA UpdatesKeepRows ==
  ASSUME DbTypeOK, NEW t \in Tenants, NEW k \in TokenIDs,
         UpdateStatus(t, k, "inactive") \/ UpdateLastUsed(t, k)
  PROVE  \A j \in TokenIDs :
           /\ tokens'[j] # Nil <=> tokens[j] # Nil
           /\ tokens[j] # Nil => /\ tokens'[j].tenant = tokens[j].tenant
                                 /\ tokens'[j].blindIndex = tokens[j].blindIndex
                                 /\ tokens[j].status = "inactive" => tokens'[j].status = "inactive"
PROOF
  <1>1. CASE FindByTokenID(t, k) = Nil
    BY <1>1 DEF UpdateStatus, UpdateLastUsed
  <1>2. CASE FindByTokenID(t, k) # Nil
    <2>1. tokens[k] \in TokenRows /\ tokens[k] # Nil
      BY <1>2 DEF DbTypeOK, FindByTokenID
    <2>2. ASSUME NEW row \in TokenRows
          PROVE  /\ [row EXCEPT !.status = "inactive"] \in TokenRows
                 /\ [row EXCEPT !.status = "inactive"].tenant = row.tenant
                 /\ [row EXCEPT !.status = "inactive"].blindIndex = row.blindIndex
                 /\ [row EXCEPT !.status = "inactive"].status = "inactive"
                 /\ [row EXCEPT !.used = TRUE] \in TokenRows
                 /\ [row EXCEPT !.used = TRUE].tenant = row.tenant
                 /\ [row EXCEPT !.used = TRUE].blindIndex = row.blindIndex
                 /\ [row EXCEPT !.used = TRUE].status = row.status
      BY DEF TokenRows
    <2>3. \/ tokens' = [tokens EXCEPT ![k] = [tokens[k] EXCEPT !.status = "inactive"]]
          \/ tokens' = [tokens EXCEPT ![k] = [tokens[k] EXCEPT !.used = TRUE]]
      BY <1>2 DEF UpdateStatus, UpdateLastUsed
    <2>4. Nil \notin TokenRows
      BY NoRowAssumption
    <2>5. /\ tokens'[k] \in TokenRows
          /\ tokens'[k].tenant = tokens[k].tenant
          /\ tokens'[k].blindIndex = tokens[k].blindIndex
          /\ tokens[k].status = "inactive" => tokens'[k].status = "inactive"
      <3>1. CASE tokens' = [tokens EXCEPT ![k] = [tokens[k] EXCEPT !.status = "inactive"]]
        <4>1. tokens'[k] = [tokens[k] EXCEPT !.status = "inactive"]
          BY <3>1 DEF DbTypeOK
        <4> QED
          BY <2>1, <2>2, <4>1
      <3>2. CASE tokens' = [tokens EXCEPT ![k] = [tokens[k] EXCEPT !.used = TRUE]]
        <4>1. tokens'[k] = [tokens[k] EXCEPT !.used = TRUE]
          BY <3>2 DEF DbTypeOK
        <4> QED
          BY <2>1, <2>2, <4>1
      <3> QED
        BY <2>3, <3>1, <3>2
    <2>6. \A j \in TokenIDs : j # k => tokens'[j] = tokens[j]
      BY <2>3 DEF DbTypeOK
    <2> QED
      BY <2>1, <2>4, <2>5, <2>6
  <1> QED
    BY <1>1, <1>2

\* The unique index admits an insert only under a blind index of its own.
LEMMA InsertKeepsRows ==
  ASSUME DbTypeOK, NEW t \in Tenants, NEW k \in TokenIDs, NEW p \in PANs,
         TokenCreateAccepted(t, k, ComputeBlindIndex(t, p)),
         TokenCreate(t, k, ComputeBlindIndex(t, p))
  PROVE  /\ tokens[k] = Nil
         /\ tokens'[k] # Nil
         /\ tokens'[k].tenant = t /\ tokens'[k].blindIndex = ComputeBlindIndex(t, p)
         /\ tokens'[k].status = "active"
         /\ \A j \in TokenIDs : j # k => tokens'[j] = tokens[j]
         /\ \A j \in TokenIDs :
              ~ (/\ tokens[j] # Nil /\ tokens[j].tenant = t
                 /\ tokens[j].blindIndex = ComputeBlindIndex(t, p))
PROOF
  <1> DEFINE bi == ComputeBlindIndex(t, p)
             row == [tenant |-> t, blindIndex |-> bi, status |-> "active", used |-> FALSE]
  <1>1. tokens' = [tokens EXCEPT ![k] = row]
    BY DEF TokenCreate
  <1>2. row \in TokenRows
    BY DEF TokenRows, ComputeBlindIndex, BlindIndexes
  <1>3. row # Nil
    BY <1>2, NoRowAssumption
  <1>4. tokens[k] = Nil
    BY DEF TokenCreateAccepted
  <1>5. tokens'[k] = row /\ \A j \in TokenIDs : j # k => tokens'[j] = tokens[j]
    BY <1>1 DEF DbTypeOK
  <1>6. \A j \in TokenIDs : ~ (tokens[j] # Nil /\ tokens[j].tenant = t /\ tokens[j].blindIndex = bi)
    BY DEF TokenCreateAccepted, FindByBlindIndex
  <1> QED
    BY <1>3, <1>4, <1>5, <1>6

\* A step that keeps the rows and the requests keeps the directory, unless it
\* brings a handler to a step that promises more than it knew.
LEMMA KeptRowsKeepDirectory ==
  ASSUME DirectoryOK, panTok \in [Requests -> TokenIDs \cup {Nil}],
         UNCHANGED <<panTok, req>>,
         \A j \in TokenIDs :
           /\ tokens'[j] # Nil <=> tokens[j] # Nil
           /\ tokens[j] # Nil => /\ tokens'[j].tenant = tokens[j].tenant
                                 /\ tokens'[j].blindIndex = tokens[j].blindIndex,
         \A s \in Requests :
           /\ pc'[s] = "vaultCreate" => pc[s] = "vaultCreate"
           /\ pc'[s] \in {"auditPAN"} \cup CVVSteps \/ Tokenized(s)'
                => pc[s] \in {"auditPAN"} \cup CVVSteps \/ Tokenized(s)
  PROVE  DirectoryOK'
PROOF
  <1>1. \A s \in Requests : PanTok(s) \in TokenIDs
    BY DEF PanTok, TokenIDs
  <1>2. \A k \in TokenIDs, s \in Requests : RowIsFor(k, s) => RowIsFor(k, s)'
    BY DEF RowIsFor, ComputeBlindIndex
  <1> QED
    BY <1>1, <1>2 DEF DirectoryOK

-----------------------------------------------------------------------------
(* Every step keeps the directory *)

\* With no rows and no requests the directory of PAN tokens is empty.
LEMMA DirectoryInit ==
  ASSUME Init
  PROVE  DirectoryOK
  BY NilAssumption
     DEF Init, DbInit, DirectoryOK, RowIsFor, Tokenized, Succeeded, Answered, CVVSteps, NoRequest,
         PanTok, TokenIDs

\* No step of any handler breaks the directory: inserts are checked against the
\* unique index, updates keep the identifying columns, nothing deletes a row.
LEMMA DirectoryOKStep ==
  ASSUME TypeOK, HandlerOK, DirectoryOK, [Next]_vars
  PROVE  DirectoryOK'
PROOF
  <1> USE NilAssumption, NoRowAssumption, NoKeyAssumption
        DEF TypeOK, DbTypeOK, HandlerOK, DirectoryOK, RowIsFor, Tokenized, Succeeded, Answered,
            CVVSteps,
            TokenizeSteps, TokenSteps, Steps, dbVars, Goto, Reply, Fail
  <1>1. ASSUME NEW r \in Requests, Reject(r)
      PROVE  DirectoryOK'
    BY <1>1 DEF Reject
  <1>2. ASSUME NEW r \in Requests, TokenizeFindByBlindIndex(r)
      PROVE  DirectoryOK'
    BY <1>2 DEF TokenizeFindByBlindIndex, FindByBlindIndex, ComputeBlindIndex, TokenizeInputs
  <1>3. ASSUME NEW r \in Requests, TokenizeEncryptPAN(r)
      PROVE  DirectoryOK'
    BY <1>3 DEF TokenizeEncryptPAN
  <1>4. ASSUME NEW r \in Requests, TokenizeTokenCreate(r)
      PROVE  DirectoryOK'
    <2>1. req[r].tenant \in Tenants /\ req[r].pan \in PANs /\ PanTok(r) \in TokenIDs
      BY <1>4 DEF TokenizeTokenCreate, TokenizeInputs, PanTok, TokenIDs
    <2>2. CASE UNCHANGED tokens
      <3>1. UNCHANGED <<panTok, req>> /\ pc' = [pc EXCEPT ![r] = "done"]
              /\ code' = [code EXCEPT ![r] = 500]
        BY <1>4, <2>1, <2>2, InsertKeepsRows DEF TokenizeTokenCreate
      <3>2. \A s \in Requests :
              /\ pc'[s] = "vaultCreate" => pc[s] = "vaultCreate"
              /\ pc'[s] \in {"auditPAN"} \cup CVVSteps \/ Tokenized(s)'
                   => pc[s] \in {"auditPAN"} \cup CVVSteps \/ Tokenized(s)
        BY <3>1
      <3> QED
        BY <2>2, <3>1, <3>2, KeptRowsKeepDirectory
    <2> DEFINE bi == ComputeBlindIndex(req[r].tenant, req[r].pan)
    <2>3. CASE /\ TokenCreateAccepted(req[r].tenant, PanTok(r), bi)
               /\ TokenCreate(req[r].tenant, PanTok(r), bi)
      <3> DEFINE k == PanTok(r)
      <3>1. /\ tokens[k] = Nil /\ tokens'[k] # Nil
            /\ tokens'[k].tenant = req[r].tenant
            /\ tokens'[k].blindIndex = ComputeBlindIndex(req[r].tenant, req[r].pan)
            /\ \A j \in TokenIDs : j # k => tokens'[j] = tokens[j]
            /\ \A j \in TokenIDs :
                 ~ (/\ tokens[j] # Nil /\ tokens[j].tenant = req[r].tenant
                    /\ tokens[j].blindIndex = ComputeBlindIndex(req[r].tenant, req[r].pan))
        BY <2>1, <2>3, InsertKeepsRows
      <3>2. UNCHANGED <<panTok, req>>
        BY <1>4 DEF TokenizeTokenCreate
      <3>3. \A j \in TokenIDs, s \in Requests : RowIsFor(j, s) => RowIsFor(j, s)'
        BY <3>1, <3>2 DEF ComputeBlindIndex
      <3>4. RowIsFor(k, r)'
        BY <2>1, <3>1, <3>2, NoRowAssumption DEF ComputeBlindIndex
      <3>5. \A s \in Requests :
              /\ pc'[s] = "vaultCreate" => pc[s] = "vaultCreate" \/ s = r
              /\ pc'[s] \in {"auditPAN"} \cup CVVSteps \/ Tokenized(s)'
                   => pc[s] \in {"auditPAN"} \cup CVVSteps \/ Tokenized(s)
        BY <1>4 DEF TokenizeTokenCreate
      <3>6. \A s \in Requests : PanTok(s) \in TokenIDs
        BY DEF PanTok, TokenIDs
      <3> HIDE DEF TypeOK, DbTypeOK, HandlerOK, RowIsFor, Tokenized, CVVSteps, k
      <3>7. \A i, j \in TokenIDs :
              /\ tokens'[i] # Nil /\ tokens'[j] # Nil
              /\ tokens'[i].tenant = tokens'[j].tenant
              /\ tokens'[i].blindIndex = tokens'[j].blindIndex
              => i = j
        BY <2>1, <3>1
      <3>8. panTok \in [Requests -> TokenIDs \cup {Nil}]
        BY DEF TypeOK
      <3> QED
        BY <3>2, <3>3, <3>4, <3>5, <3>6, <3>7, <3>8 DEF k
    <2> QED
      BY <1>4, <2>2, <2>3 DEF TokenizeTokenCreate
  <1>5. ASSUME NEW r \in Requests, TokenizeVaultCreate(r)
      PROVE  DirectoryOK'
    <2>1. PanTok(r) \in TokenIDs /\ req[r].op = "tokenize" /\ UNCHANGED <<tokens, req>>
      BY <1>5 DEF TokenizeVaultCreate, TokenizeInputs, PanTok, TokenIDs
    <2>2. \/ UNCHANGED panTok
          \/ panTok' = [panTok EXCEPT ![r] = PanTok(r)]
      BY <1>5 DEF TokenizeVaultCreate
    <2>3. \A s \in Requests : panTok'[s] # Nil => req'[s].op = "tokenize" /\ RowIsFor(panTok[s], s)'
      BY <1>5, <2>1, <2>2 DEF TokenizeVaultCreate
    <2> QED
      BY <1>5, <2>1, <2>2, <2>3 DEF TokenizeVaultCreate
  <1>6. ASSUME NEW r \in Requests, TokenizeAuditPAN(r)
      PROVE  DirectoryOK'
    BY <1>6 DEF TokenizeAuditPAN, BeginCVV, TokenizeStatus
  <1>7. ASSUME NEW r \in Requests, TokenizeStoreCVVToken(r)
      PROVE  DirectoryOK'
    BY <1>7 DEF TokenizeStoreCVVToken
  <1>8. ASSUME NEW r \in Requests, TokenizeGetOwner(r)
      PROVE  DirectoryOK'
    BY <1>8 DEF TokenizeGetOwner
  <1>9. ASSUME NEW r \in Requests, TokenizeDelPrevious(r)
      PROVE  DirectoryOK'
    BY <1>9 DEF TokenizeDelPrevious
  <1>10. ASSUME NEW r \in Requests, TokenizeSetOwner(r)
      PROVE  DirectoryOK'
    BY <1>10 DEF TokenizeSetOwner
  <1>11. ASSUME NEW r \in Requests, TokenizeAuditCVV(r)
      PROVE  DirectoryOK'
    BY <1>11 DEF TokenizeAuditCVV, TokenizeStatus
  <1>12. ASSUME NEW r \in Requests, DetokenizeFindByTokenID(r)
      PROVE  DirectoryOK'
    BY <1>12 DEF DetokenizeFindByTokenID
  <1>13. ASSUME NEW r \in Requests, DetokenizeDecryptPAN(r)
      PROVE  DirectoryOK'
    BY <1>13 DEF DetokenizeDecryptPAN
  <1>14. ASSUME NEW r \in Requests, DetokenizeUpdateLastUsed(r)
      PROVE  DirectoryOK'
    <2>1. req[r].tenant \in Tenants /\ req[r].token \in TokenIDs /\ req[r].op # "tokenize"
      BY <1>14 DEF DetokenizeUpdateLastUsed, TokenInputs
    <2>2. \A j \in TokenIDs :
            /\ tokens'[j] # Nil <=> tokens[j] # Nil
            /\ tokens[j] # Nil => /\ tokens'[j].tenant = tokens[j].tenant
                                  /\ tokens'[j].blindIndex = tokens[j].blindIndex
      BY <1>14, <2>1, UpdatesKeepRows DEF DetokenizeUpdateLastUsed
    <2>3. \A s \in Requests :
            /\ pc'[s] = "vaultCreate" => pc[s] = "vaultCreate"
            /\ pc'[s] \in {"auditPAN"} \cup CVVSteps \/ Tokenized(s)'
                 => pc[s] \in {"auditPAN"} \cup CVVSteps \/ Tokenized(s)
      BY <1>14, <2>1 DEF DetokenizeUpdateLastUsed
    <2>4. UNCHANGED <<panTok, req>>
      BY <1>14 DEF DetokenizeUpdateLastUsed
    <2> QED
      BY <2>2, <2>3, <2>4, KeptRowsKeepDirectory
  <1>15. ASSUME NEW r \in Requests, DetokenizeRetrieveCVVToken(r)
      PROVE  DirectoryOK'
    BY <1>15 DEF DetokenizeRetrieveCVVToken
  <1>16. ASSUME NEW r \in Requests, StatusFindByTokenID(r)
      PROVE  DirectoryOK'
    BY <1>16 DEF StatusFindByTokenID
  <1>17. ASSUME NEW r \in Requests, StatusExistsCVVToken(r)
      PROVE  DirectoryOK'
    BY <1>17 DEF StatusExistsCVVToken
  <1>18. ASSUME NEW r \in Requests, DeactivateFindByTokenID(r)
      PROVE  DirectoryOK'
    BY <1>18 DEF DeactivateFindByTokenID
  <1>19. ASSUME NEW r \in Requests, DeactivateUpdateStatus(r)
      PROVE  DirectoryOK'
    <2>1. req[r].tenant \in Tenants /\ req[r].token \in TokenIDs /\ req[r].op # "tokenize"
      BY <1>19 DEF DeactivateUpdateStatus, TokenInputs
    <2>2. \A j \in TokenIDs :
            /\ tokens'[j] # Nil <=> tokens[j] # Nil
            /\ tokens[j] # Nil => /\ tokens'[j].tenant = tokens[j].tenant
                                  /\ tokens'[j].blindIndex = tokens[j].blindIndex
      BY <1>19, <2>1, UpdatesKeepRows DEF DeactivateUpdateStatus
    <2>3. \A s \in Requests :
            /\ pc'[s] = "vaultCreate" => pc[s] = "vaultCreate"
            /\ pc'[s] \in {"auditPAN"} \cup CVVSteps \/ Tokenized(s)'
                 => pc[s] \in {"auditPAN"} \cup CVVSteps \/ Tokenized(s)
      BY <1>19, <2>1 DEF DeactivateUpdateStatus
    <2>4. UNCHANGED <<panTok, req>>
      BY <1>19 DEF DeactivateUpdateStatus
    <2> QED
      BY <2>2, <2>3, <2>4, KeptRowsKeepDirectory
  <1>20. ASSUME NEW r \in Requests, AuditAndAnswer(r)
      PROVE  DirectoryOK'
    BY <1>20 DEF AuditAndAnswer, TokenInputs, AllOps
  <1>21. ASSUME NEW r \in Requests, Crash(r)
      PROVE  DirectoryOK'
    BY <1>21 DEF Crash
  <1>22. ASSUME NEW r \in Requests, NEW a \in TokenizeInputs \cup TokenInputs, Begin(r, a)
      PROVE  DirectoryOK'
    BY <1>22
       DEF Begin, RequireTenant, BeginTokenize, BeginCVV, TokenizeStatus, TokenizeInputs,
           TokenInputs, NoRequest, AllOps
  <1>23. ASSUME NEW t \in Tenants, TenantDeactivated(t)
      PROVE  DirectoryOK'
    BY <1>23 DEF TenantDeactivated, DeactivateTenant, handlerVars
  <1>24. ASSUME NEW t \in Tenants, NEW k \in TokenIDs, RedisExpiry(t, k)
      PROVE  DirectoryOK'
    BY <1>24 DEF RedisExpiry, CVVTokenExpires, CVVTokenOwnerExpires, RedisKeys, handlerVars
  <1>25. ASSUME UNCHANGED vars
      PROVE  DirectoryOK'
    BY <1>25 DEF vars, handlerVars
  <1> HIDE DEF TypeOK, HandlerOK, DirectoryOK
  <1> QED
    BY <1>1, <1>2, <1>3, <1>4, <1>5, <1>6, <1>7, <1>8, <1>9, <1>10, <1>11, <1>12, <1>13, <1>14,
       <1>15, <1>16, <1>17, <1>18, <1>19, <1>20, <1>21, <1>22, <1>23, <1>24, <1>25
       DEF Next, Receive, Tokenize, UseToken

\* One row per blind index, and the blind index decides the tenant and the PAN:
\* that is why equal tokens and equal PANs go together.
LEMMA DirectoryDecides ==
  ASSUME TypeOK, DirectoryOK
  PROVE  DeterministicTokens
PROOF
  <1> SUFFICES ASSUME NEW r \in Requests, NEW s \in Requests, Tokenized(r), Tokenized(s)
               PROVE  panTok[r] = panTok[s] <=>
                        req[r].tenant = req[s].tenant /\ req[r].pan = req[s].pan
    BY DEF DeterministicTokens
  <1>1. /\ panTok[r] \in TokenIDs /\ RowIsFor(panTok[r], r)
        /\ panTok[s] \in TokenIDs /\ RowIsFor(panTok[s], s)
    BY DEF TypeOK, DirectoryOK, Tokenized
  <1>2. ASSUME panTok[r] = panTok[s]
        PROVE  req[r].tenant = req[s].tenant /\ req[r].pan = req[s].pan
    BY <1>1, <1>2 DEF RowIsFor, ComputeBlindIndex
  <1>3. ASSUME req[r].tenant = req[s].tenant, req[r].pan = req[s].pan
        PROVE  panTok[r] = panTok[s]
    <2>1. /\ tokens[panTok[r]] # Nil /\ tokens[panTok[s]] # Nil
          /\ tokens[panTok[r]].tenant = tokens[panTok[s]].tenant
          /\ tokens[panTok[r]].blindIndex = tokens[panTok[s]].blindIndex
      BY <1>1, <1>3 DEF RowIsFor, ComputeBlindIndex
    <2> QED
      BY <1>1, <2>1 DEF DirectoryOK
  <1> QED
    BY <1>2, <1>3

-----------------------------------------------------------------------------
\* Two successful answers of the tokenize endpoint carry the same PAN token
\* exactly when they are for the same PAN of the same tenant, for any number of
\* concurrent requests and whatever fails.
THEOREM TokensAreDeterministic == Spec => []DeterministicTokens
PROOF
  <1> DEFINE I == TypeOK /\ HandlerOK /\ DirectoryOK
  <1>1. Init => I
    BY TypeInit, DirectoryInit
  <1>2. I /\ [Next]_vars => I'
    BY TypeOKStep, HandlerOKStep, DirectoryOKStep
  <1>3. I => DeterministicTokens
    BY DirectoryDecides
  <1> HIDE DEF I
  <1> QED
    BY <1>1, <1>2, <1>3, PTL DEF Spec
===============================================================================

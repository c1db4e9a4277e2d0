------------------------------ MODULE Tokenizer ------------------------------
(***************************************************************************)
(* The tokenizer service: any number of concurrent requests, each served   *)
(* by a handler that is a sequence of calls to PostgreSQL, KMS and Redis.  *)
(* One action is one such call with the local code up to the next one, so  *)
(* the interleavings of TLC are those of the Go scheduler and the stores.  *)
(***************************************************************************)
EXTENDS PostgresStore, CVVStore

CONSTANTS
  Ops,           \* the endpoints in use, a subset of AllOps
  Faults,        \* the services that may fail, a subset of AllFaults
  MaxInFlight    \* bound: how many requests are served at the same time

AllOps == {"tokenize", "detokenize", "status", "deactivate"}
AllFaults == {"db", "redis", "kms", "crash"}

ASSUME OpsAssumption == Ops \subseteq AllOps
ASSUME FaultsAssumption == Faults \subseteq AllFaults
ASSUME MaxInFlightAssumption == MaxInFlight \in Nat
ASSUME NoValueAssumption == Nil # "active"

VARIABLES
  pc,       \* pc[r]: the call the handler of r makes next
  req,      \* req[r]: the request as received, NoRequest before that
  panTok,   \* panTok[r]: panTokenID of the tokenize handler
  prev,     \* prev[r]: prevID of InvalidatePreviousCVVToken
  val,      \* val[r]: the value or status the answer carries
  code,     \* code[r]: the HTTP status of the answer, 0 before it is sent
  late      \* history: r arrived when its token was already dead

handlerVars == <<pc, req, panTok, prev, val, code, late>>
vars == <<dbVars, redisVars, handlerVars>>

-----------------------------------------------------------------------------
(* Requests and answers *)

TokenizeInputs ==
  [op : {"tokenize"}, tenant : Tenants, pan : PANs \cup {Invalid, Nil},
   cvv : CVVs \cup {Invalid, Nil}, token : {Nil}]
TokenInputs ==
  [op : AllOps \ {"tokenize"}, tenant : Tenants, pan : {Nil}, cvv : {Nil},
   token : TokenIDs]
NoRequest == [op |-> "none", tenant |-> Nil, pan |-> Nil, cvv |-> Nil, token |-> Nil]

TokenizeSteps ==
  {"findIndex", "encrypt", "tokenCreate", "vaultCreate", "auditPAN",
   "storeCVV", "getOwner", "delPrevious", "setOwner", "auditCVV"}
TokenSteps ==
  {"findToken", "decrypt", "lastUsed", "retrieveCVV", "existsCVV",
   "updateStatus", "auditOp"}
Steps == TokenizeSteps \cup TokenSteps

InFlight == {r \in Requests : pc[r] \in Steps}
Answered(r) == pc[r] = "done"
Succeeded(r) == Answered(r) /\ code[r] \in {200, 201}

\* The tokens a client has received in the answer to r.
IssuedBy(r) ==
  IF Succeeded(r) /\ req[r].op = "tokenize"
  THEN (IF req[r].pan = Nil THEN {} ELSE {panTok[r]})
         \cup (IF req[r].cvv = Nil THEN {} ELSE {CvvTok(r)})
  ELSE {}
Issued == UNION {IssuedBy(r) : r \in Requests}

\* A client has been told that k is deactivated.
KnownInactive(k) ==
  \E r \in Requests : req[r].op = "deactivate" /\ req[r].token = k /\ Succeeded(r)

\* No request that arrives from now on may treat k as usable.
Dead(k) ==
  \/ KnownInactive(k)
  \/ tokens[k] # Nil /\ tokens[k].status = "inactive"
  \/ fate[k] \in {"consumed", "expired", "invalidated"}

-----------------------------------------------------------------------------
TypeOK ==
  /\ DbTypeOK
  /\ RedisTypeOK
  /\ pc \in [Requests -> Steps \cup {"idle", "done", "crashed"}]
  /\ req \in [Requests -> TokenizeInputs \cup TokenInputs \cup {NoRequest}]
  /\ panTok \in [Requests -> TokenIDs \cup {Nil}]
  /\ prev \in [Requests -> TokenIDs \cup {Nil}]
  /\ val \in [Requests -> PANs \cup CVVs \cup {"active", "inactive", Nil}]
  /\ code \in [Requests -> {0, 200, 201, 400, 403, 404, 500, 503}]
  /\ late \in [Requests -> BOOLEAN]

Init ==
  /\ DbInit
  /\ RedisInit
  /\ pc = [r \in Requests |-> "idle"]
  /\ req = [r \in Requests |-> NoRequest]
  /\ panTok = [r \in Requests |-> Nil]
  /\ prev = [r \in Requests |-> Nil]
  /\ val = [r \in Requests |-> Nil]
  /\ code = [r \in Requests |-> 0]
  /\ late = [r \in Requests |-> FALSE]

Goto(r, step) == pc' = [pc EXCEPT ![r] = step] /\ UNCHANGED code

Reply(r, c) == pc' = [pc EXCEPT ![r] = "done"] /\ code' = [code EXCEPT ![r] = c]

\* The call fails, or its result never arrives, and the handler answers c.
Fail(service, r, c) == service \in Faults /\ Reply(r, c)

\* logAudit: an error of the insert is logged and dropped.
Audited(r, k, op) ==
  \/ AuditAppend(r, req[r].tenant, k, op)
  \/ "db" \in Faults /\ UNCHANGED audit

-----------------------------------------------------------------------------
(* Arrival: RequireTenant, then the handler's local validation *)

\* A request with a missing or ill-formed tenant header, or a body that does
\* not decode or has neither field, is rejected before its handler uses a store.
Reject(r) ==
  /\ pc[r] = "idle"
  /\ Reply(r, 400)
  /\ UNCHANGED <<dbVars, redisVars, req, panTok, prev, val, late>>

\* The status RequireTenant answers with, or 0 when it lets the request pass.
RequireTenant(t) ==
  CASE tenants[t] = "absent" -> 404
    [] tenants[t] = "inactive" -> 403
    [] OTHER -> 0

\* 201 Created when this request minted the PAN token (newPANToken), else 200.
TokenizeStatus(r, tok) == IF tok = PanTok(r) THEN 201 ELSE 200

\* The CVV half of the tokenize handler, up to its first call.
BeginCVV(r, cvv, tok) ==
  \/ cvv = Nil /\ Reply(r, TokenizeStatus(r, tok))
  \/ cvv = Invalid /\ Reply(r, 400)
  \/ cvv \in CVVs /\ Goto(r, "storeCVV")

BeginTokenize(r, a) ==
  \/ a.pan = Invalid /\ Reply(r, 400)
  \/ a.pan \in PANs /\ Goto(r, "findIndex")
  \/ a.pan = Nil /\ BeginCVV(r, a.cvv, Nil)

Begin(r, a) ==
  /\ pc[r] = "idle"
  /\ Cardinality(InFlight) < MaxInFlight
  /\ req' = [req EXCEPT ![r] = a]
  /\ late' = [late EXCEPT ![r] = a.token # Nil /\ Dead(a.token)]
  /\ \/ Fail("db", r, 500)
     \/ RequireTenant(a.tenant) # 0 /\ Reply(r, RequireTenant(a.tenant))
     \/ /\ RequireTenant(a.tenant) = 0
        /\ \/ a.op = "tokenize" /\ BeginTokenize(r, a)
           \/ a.op # "tokenize" /\ Goto(r, "findToken")
  /\ UNCHANGED <<dbVars, redisVars, panTok, prev, val>>

\* A body with neither field is left to Reject; tokens are not guessed.
Receive(r) ==
  \/ /\ "tokenize" \in Ops
     /\ \E a \in TokenizeInputs : <<a.pan, a.cvv>> # <<Nil, Nil>> /\ Begin(r, a)
  \/ \E a \in TokenInputs : a.op \in Ops /\ a.token \in Issued /\ Begin(r, a)

-----------------------------------------------------------------------------
(* POST /vault/tokenize *)

\* FindByBlindIndex takes a row of any status: a PAN whose token has been
\* deactivated is answered with that token.
TokenizeFindByBlindIndex(r) ==
  /\ pc[r] = "findIndex"
  /\ LET a == req[r]
         found == FindByBlindIndex(a.tenant, ComputeBlindIndex(a.tenant, a.pan))
     IN  \/ \E k \in found :
              panTok' = [panTok EXCEPT ![r] = k] /\ Goto(r, "auditPAN")
         \/ found = {} /\ UNCHANGED panTok /\ Goto(r, "encrypt")
         \/ UNCHANGED panTok /\ Fail("db", r, 500)
  /\ UNCHANGED <<dbVars, redisVars, req, prev, val, late>>

\* encryptPAN asks KMS for a data key under the tenant's key.  The key is new
\* and the encryption local, so VaultCreate can name both results.
TokenizeEncryptPAN(r) ==
  /\ pc[r] = "encrypt"
  /\ Goto(r, "tokenCreate") \/ Fail("kms", r, 503)
  /\ UNCHANGED <<dbVars, redisVars, req, panTok, prev, val, late>>

\* Mutant: the token is handed on without its vault entry.
TokenizeTokenCreateOnly(r) ==
  /\ pc[r] = "tokenCreate"
  /\ LET a == req[r]
         bi == ComputeBlindIndex(a.tenant, a.pan)
     IN  IF TokenCreateAccepted(a.tenant, PanTok(r), bi)
         THEN /\ TokenCreate(a.tenant, PanTok(r), bi)
              /\ panTok' = [panTok EXCEPT ![r] = PanTok(r)]
              /\ Goto(r, "auditPAN")
         ELSE UNCHANGED <<tokens, panTok>> /\ Reply(r, 500)
  /\ UNCHANGED <<tenants, vault, audit, redisVars, req, prev, val, late>>

TokenizeTokenCreate(r) ==
  /\ pc[r] = "tokenCreate"
  /\ LET a == req[r]
         bi == ComputeBlindIndex(a.tenant, a.pan)
     IN  \/ /\ TokenCreateAccepted(a.tenant, PanTok(r), bi)
            /\ TokenCreate(a.tenant, PanTok(r), bi)
            /\ Goto(r, "vaultCreate") \/ Fail("db", r, 500)
         \/ /\ ~TokenCreateAccepted(a.tenant, PanTok(r), bi)
            /\ UNCHANGED tokens
            /\ Reply(r, 500)
         \/ UNCHANGED tokens /\ Fail("db", r, 500)
  /\ UNCHANGED <<tenants, vault, audit, redisVars, req, panTok, prev, val, late>>

\* A statement of its own: no transaction ties it to the row of "tokens".
TokenizeVaultCreate(r) ==
  /\ pc[r] = "vaultCreate"
  /\ LET a == req[r]
         k == PanTok(r)
     IN  \/ /\ VaultCreateAccepted(k)
            /\ VaultCreate(a.tenant, k, Encrypt(a.pan, k), GenerateDataKey(a.tenant, k))
            /\ \/ panTok' = [panTok EXCEPT ![r] = k] /\ Goto(r, "auditPAN")
               \/ UNCHANGED panTok /\ Fail("db", r, 500)
         \/ /\ ~VaultCreateAccepted(k)
            /\ UNCHANGED <<vault, panTok>>
            /\ Reply(r, 500)
         \/ UNCHANGED <<vault, panTok>> /\ Fail("db", r, 500)
  /\ UNCHANGED <<tenants, tokens, audit, redisVars, req, prev, val, late>>

\* Mutant: only a newly minted PAN token is audited.
TokenizeAuditPANNewOnly(r) ==
  /\ pc[r] = "auditPAN"
  /\ IF panTok[r] = PanTok(r) THEN Audited(r, panTok[r], "tokenize") ELSE UNCHANGED audit
  /\ BeginCVV(r, req[r].cvv, panTok[r])
  /\ UNCHANGED <<tenants, tokens, vault, redisVars, req, panTok, prev, val, late>>

\* The CVV is validated only here, after the PAN half is stored and audited.
TokenizeAuditPAN(r) ==
  /\ pc[r] = "auditPAN"
  /\ Audited(r, panTok[r], "tokenize")
  /\ BeginCVV(r, req[r].cvv, panTok[r])
  /\ UNCHANGED <<tenants, tokens, vault, redisVars, req, panTok, prev, val, late>>

TokenizeStoreCVVToken(r) ==
  /\ pc[r] = "storeCVV"
  /\ \/ /\ StoreCVVToken(req[r].tenant, CvvTok(r), Encrypt(req[r].cvv, CvvTok(r)))
        /\ \/ panTok[r] # Nil /\ Goto(r, "getOwner")
           \/ panTok[r] = Nil /\ Goto(r, "auditCVV")
           \/ Fail("redis", r, 500)
     \/ UNCHANGED redisVars /\ Fail("redis", r, 500)
  /\ UNCHANGED <<dbVars, req, panTok, prev, val, late>>

\* Mutant: the owner is read after it has been set to the new token.
TokenizeGetOwnerAfterSet(r) ==
  /\ pc[r] = "getOwner"
  /\ prev' = [prev EXCEPT ![r] = CvvTok(r)]
  /\ Goto(r, "delPrevious")
  /\ UNCHANGED <<dbVars, redisVars, req, panTok, val, late>>

\* InvalidatePreviousCVVToken, in its three commands; their errors are dropped.
TokenizeGetOwner(r) ==
  /\ pc[r] = "getOwner"
  /\ LET owner == cvvtokOwner[<<req[r].tenant, panTok[r]>>]
     IN  \/ /\ owner # Nil
            /\ prev' = [prev EXCEPT ![r] = owner]
            /\ Goto(r, "delPrevious")
         \/ /\ owner = Nil \/ "redis" \in Faults
            /\ UNCHANGED prev
            /\ Goto(r, "setOwner")
  /\ UNCHANGED <<dbVars, redisVars, req, panTok, val, late>>

TokenizeDelPrevious(r) ==
  /\ pc[r] = "delPrevious"
  /\ \/ DeleteCVVToken(req[r].tenant, prev[r])
     \/ "redis" \in Faults /\ UNCHANGED redisVars
  /\ Goto(r, "setOwner")
  /\ UNCHANGED <<dbVars, req, panTok, prev, val, late>>

\* Mutant: the method starts over when SET fails.
TokenizeSetOwnerRetry(r) ==
  /\ pc[r] = "setOwner"
  /\ \/ /\ SetCVVTokenOwner(req[r].tenant, panTok[r], CvvTok(r))
        /\ prev' = [prev EXCEPT ![r] = Nil]
        /\ Goto(r, "auditCVV")
     \/ "redis" \in Faults /\ UNCHANGED <<redisVars, prev>> /\ Goto(r, "getOwner")
  /\ UNCHANGED <<dbVars, req, panTok, val, late>>

TokenizeSetOwner(r) ==
  /\ pc[r] = "setOwner"
  /\ \/ SetCVVTokenOwner(req[r].tenant, panTok[r], CvvTok(r))
     \/ "redis" \in Faults /\ UNCHANGED redisVars
  /\ prev' = [prev EXCEPT ![r] = Nil]
  /\ Goto(r, "auditCVV")
  /\ UNCHANGED <<dbVars, req, panTok, val, late>>

TokenizeAuditCVV(r) ==
  /\ pc[r] = "auditCVV"
  /\ Audited(r, CvvTok(r), "tokenize")
  /\ Reply(r, TokenizeStatus(r, panTok[r]))
  /\ UNCHANGED <<tenants, tokens, vault, redisVars, req, panTok, prev, val, late>>

-----------------------------------------------------------------------------
(* POST /internal/detokenize *)

\* Mutant: the status of the row is not looked at.
DetokenizeFindByTokenIDAnyStatus(r) ==
  /\ pc[r] = "findToken" /\ req[r].op = "detokenize"
  /\ Goto(r, IF FindByTokenID(req[r].tenant, req[r].token) = Nil THEN "retrieveCVV"
             ELSE "decrypt")
  /\ UNCHANGED <<dbVars, redisVars, req, panTok, prev, val, late>>

DetokenizeFindByTokenID(r) ==
  /\ pc[r] = "findToken" /\ req[r].op = "detokenize"
  /\ LET row == FindByTokenID(req[r].tenant, req[r].token)
     IN  \/ row = Nil /\ Goto(r, "retrieveCVV")
         \/ row # Nil /\ row.status # "active" /\ Reply(r, 404)
         \/ row # Nil /\ row.status = "active" /\ Goto(r, "decrypt")
         \/ Fail("db", r, 500)
  /\ UNCHANGED <<dbVars, redisVars, req, panTok, prev, val, late>>

\* decryptPAN: a vault row never changes once it is there and unwrapping has
\* no state, so the SELECT and the KMS call are one step.  A missing row is
\* no error: the value is then the empty string, Nil.
DetokenizeDecryptPAN(r) ==
  /\ pc[r] = "decrypt"
  /\ LET ve == VaultFindByTokenID(req[r].tenant, req[r].token)
         plain == Decrypt(ve.ciphertext, UnwrapKey(ve.dekEncrypted))
     IN  \/ ve = Nil /\ UNCHANGED val /\ Goto(r, "lastUsed")
         \/ /\ ve # Nil /\ plain # Nil
            /\ val' = [val EXCEPT ![r] = plain]
            /\ Goto(r, "lastUsed")
         \/ ve # Nil /\ plain = Nil /\ UNCHANGED val /\ Reply(r, 500)
         \/ UNCHANGED val /\ (Fail("db", r, 500) \/ Fail("kms", r, 500))
  /\ UNCHANGED <<dbVars, redisVars, req, panTok, prev, late>>

DetokenizeUpdateLastUsed(r) ==
  /\ pc[r] = "lastUsed"
  /\ \/ UpdateLastUsed(req[r].tenant, req[r].token)
     \/ "db" \in Faults /\ UNCHANGED tokens
  /\ Goto(r, "auditOp")
  /\ UNCHANGED <<tenants, vault, audit, redisVars, req, panTok, prev, val, late>>

\* retrieveCVVToken: the stored bytes carry their own key.  A failed GETDEL is
\* answered like an absent key, whether or not Redis ran it.
DetokenizeRetrieveCVVToken(r) ==
  /\ pc[r] = "retrieveCVV"
  /\ LET t == req[r].tenant
         k == req[r].token
         sealed == cvvtok[<<t, k>>]
     IN  \/ /\ sealed # Nil
            /\ RetrieveCVVToken(t, k)
            /\ val' = [val EXCEPT ![r] = Decrypt(sealed, sealed.dek)]
            /\ Goto(r, "auditOp")
         \/ sealed = Nil /\ UNCHANGED <<redisVars, val>> /\ Reply(r, 404)
         \/ /\ RetrieveCVVToken(t, k) \/ UNCHANGED redisVars
            /\ UNCHANGED val
            /\ Fail("redis", r, 404)
  /\ UNCHANGED <<dbVars, req, panTok, prev, late>>

-----------------------------------------------------------------------------
(* GET and DELETE /vault/tokens/{token_id} *)

StatusFindByTokenID(r) ==
  /\ pc[r] = "findToken" /\ req[r].op = "status"
  /\ LET row == FindByTokenID(req[r].tenant, req[r].token)
     IN  \/ row = Nil /\ UNCHANGED val /\ Goto(r, "existsCVV")
         \/ /\ row # Nil
            /\ val' = [val EXCEPT ![r] = row.status]
            /\ Goto(r, "auditOp")
         \/ UNCHANGED val /\ Fail("db", r, 500)
  /\ UNCHANGED <<dbVars, redisVars, req, panTok, prev, late>>

StatusExistsCVVToken(r) ==
  /\ pc[r] = "existsCVV"
  /\ LET exists == ExistsCVVToken(req[r].tenant, req[r].token)
     IN  \/ /\ exists
            /\ val' = [val EXCEPT ![r] = "active"]
            /\ Goto(r, "auditOp")
         \/ ~exists /\ UNCHANGED val /\ Reply(r, 404)
         \/ UNCHANGED val /\ Fail("redis", r, 404)
  /\ UNCHANGED <<dbVars, redisVars, req, panTok, prev, late>>

DeactivateFindByTokenID(r) ==
  /\ pc[r] = "findToken" /\ req[r].op = "deactivate"
  /\ LET row == FindByTokenID(req[r].tenant, req[r].token)
     IN  \/ row = Nil /\ Reply(r, 404)
         \/ row # Nil /\ Goto(r, "updateStatus")
         \/ Fail("db", r, 500)
  /\ UNCHANGED <<dbVars, redisVars, req, panTok, prev, val, late>>

DeactivateUpdateStatus(r) ==
  /\ pc[r] = "updateStatus"
  /\ \/ /\ UpdateStatus(req[r].tenant, req[r].token, "inactive")
        /\ \/ val' = [val EXCEPT ![r] = "inactive"] /\ Goto(r, "auditOp")
           \/ UNCHANGED val /\ Fail("db", r, 500)
     \/ UNCHANGED <<tokens, val>> /\ Fail("db", r, 500)
  /\ UNCHANGED <<tenants, vault, audit, redisVars, req, panTok, prev, late>>

AuditOperation(op) == IF op = "status" THEN "validate" ELSE op

\* The audit insert and the answer, common to the three token endpoints.
AuditAndAnswer(r) ==
  /\ pc[r] = "auditOp"
  /\ Audited(r, req[r].token, AuditOperation(req[r].op))
  /\ Reply(r, 200)
  /\ UNCHANGED <<tenants, tokens, vault, redisVars, req, panTok, prev, val, late>>

-----------------------------------------------------------------------------
(* The whole service *)

\* The process serving r dies, or the client goes away and the request's
\* context is cancelled: the handler makes no further call that has an effect.
Crash(r) ==
  /\ "crash" \in Faults
  /\ pc[r] \in Steps
  /\ pc' = [pc EXCEPT ![r] = "crashed"]
  /\ UNCHANGED <<dbVars, redisVars, req, panTok, prev, val, code, late>>

Tokenize(r) ==
  \/ TokenizeFindByBlindIndex(r)
  \/ TokenizeEncryptPAN(r)
  \/ TokenizeTokenCreate(r)
  \/ TokenizeVaultCreate(r)
  \/ TokenizeAuditPAN(r)
  \/ TokenizeStoreCVVToken(r)
  \/ TokenizeGetOwner(r)
  \/ TokenizeDelPrevious(r)
  \/ TokenizeSetOwner(r)
  \/ TokenizeAuditCVV(r)

UseToken(r) ==
  \/ DetokenizeFindByTokenID(r)
  \/ DetokenizeDecryptPAN(r)
  \/ DetokenizeUpdateLastUsed(r)
  \/ DetokenizeRetrieveCVVToken(r)
  \/ StatusFindByTokenID(r)
  \/ StatusExistsCVVToken(r)
  \/ DeactivateFindByTokenID(r)
  \/ DeactivateUpdateStatus(r)
  \/ AuditAndAnswer(r)

TenantDeactivated(t) == DeactivateTenant(t) /\ UNCHANGED <<redisVars, handlerVars>>

RedisExpiry(t, k) ==
  /\ CVVTokenExpires(t, k) \/ CVVTokenOwnerExpires(t, k)
  /\ UNCHANGED <<dbVars, handlerVars>>

Next ==
  \/ \E r \in Requests : Reject(r) \/ Receive(r) \/ Tokenize(r) \/ UseToken(r) \/ Crash(r)
  \/ \E t \in Tenants : TenantDeactivated(t)
  \/ \E t \in Tenants, k \in TokenIDs : RedisExpiry(t, k)

Spec == Init /\ [][Next]_vars

-----------------------------------------------------------------------------
(* Safety *)

Tokenized(r) == Succeeded(r) /\ req[r].op = "tokenize" /\ req[r].pan # Nil

\* Deduplication through the blind index and the unique index: two answers carry
\* the same PAN token exactly when they are for the same PAN of the same tenant,
\* however the requests interleave and whichever of them failed in between.
DeterministicTokens ==
  \A r, s \in Requests :
    Tokenized(r) /\ Tokenized(s) =>
      (panTok[r] = panTok[s] <=>
         req[r].tenant = req[s].tenant /\ req[r].pan = req[s].pan)

\* Reading back through the stores, the data keys and the tenant filters, a
\* detokenize call yields the very field for which its own tenant's token was
\* minted, or nothing.
RevealsWhatWasTokenized ==
  \A r \in Requests :
    req[r].op = "detokenize" /\ val[r] # Nil =>
      \E s \in Requests :
        /\ req[s].op = "tokenize" /\ req[s].tenant = req[r].tenant
        /\ \/ req[r].token = PanTok(s) /\ val[r] = req[s].pan
           \/ req[r].token = CvvTok(s) /\ val[r] = req[s].cvv

\* GETDEL makes a CVV token single-use: of all the detokenize calls that race
\* for it, with any failures of Redis, at most one obtains the CVV.
CVVSingleUse ==
  \A r, s \in Requests :
    /\ req[r].op = "detokenize" /\ val[r] # Nil
    /\ req[s].op = "detokenize" /\ val[s] # Nil
    /\ req[r].token = req[s].token /\ req[r].token[1] = "cvv"
    => r = s

\* Once a token is deactivated, consumed, expired or invalidated, no request
\* that arrives later reveals its value or reports it as active: deactivation
\* is irreversible and nothing stores a CVV token again.
NoAnswerFromDeadToken ==
  \A r \in Requests :
    late[r] => /\ req[r].op = "detokenize" => val[r] = Nil /\ ~Succeeded(r)
               /\ req[r].op = "status" => val[r] # "active"

\* The CVV tokens that have been stored together with the PAN token k.
CVVTokensOf(k) ==
  {CvvTok(r) : r \in {s \in Requests : panTok[s] = k /\ fate[CvvTok(s)] # "none"}}

\* However calls of InvalidatePreviousCVVToken interleave or fail half-way, they
\* never delete all the CVV tokens of a PAN token: each call deletes only a token
\* other than the one it has stored itself, and never the last to become owner.
SomeCVVSurvives ==
  \A k \in TokenIDs :
    CVVTokensOf(k) # {} => \E c \in CVVTokensOf(k) : fate[c] # "invalidated"

\* While PostgreSQL accepts the inserts into audit_log, every token in a
\* successful answer has an audit row of its request, operation and tenant.
AuditComplete ==
  \A r \in Requests :
    Succeeded(r) =>
      \A k \in IF req[r].op = "tokenize" THEN IssuedBy(r) ELSE {req[r].token} :
        [req |-> r, tenant |-> req[r].tenant, token |-> k,
         operation |-> AuditOperation(req[r].op)] \in audit

-----------------------------------------------------------------------------
(* What holds when requests are served one at a time *)

\* A valid tokenize request that gets past RequireTenant is not answered with
\* an internal error: 500 is for failures of a store only.
TokenizeSucceeds ==
  \A r \in Requests :
    Answered(r) /\ req[r].op = "tokenize" /\ Invalid \notin {req[r].pan, req[r].cvv}
      => code[r] # 500

\* InvalidatePreviousCVVToken leaves at most one CVV token of a PAN token in
\* Redis once the requests that store them have been answered.
OneLiveCVV ==
  InFlight = {} =>
    \A k \in TokenIDs :
      Cardinality({c \in CVVTokensOf(k) : fate[c] = "stored"}) <= 1

\* A successful detokenize call carries a value, never an empty string: the
\* vault entry is there whenever the token is.
NoEmptyReveal ==
  \A r \in Requests : req[r].op = "detokenize" /\ Succeeded(r) => val[r] # Nil

-----------------------------------------------------------------------------
(* Liveness, under the fairness of the handlers and while PostgreSQL and KMS work *)

\* Every request that is being served is answered, unless its handler dies.
EveryRequestAnswered ==
  \A r \in Requests : pc[r] \in Steps ~> Answered(r) \/ pc[r] = "crashed"

\* A PAN token in a client's hands can be revealed sooner or later: if it was
\* handed out before its vault entry was written, the entry follows, unless the
\* handler that was to write it dies.
IssuedTokensBecomeRevealable ==
  \A r \in Requests :
    PanTok(r) \in Issued ~> vault[PanTok(r)] # Nil \/ pc[r] = "crashed"

-----------------------------------------------------------------------------
(* Statements of the documents under specs/ that the code does not keep *)

\* A CVV token is of no use once its PAN token is inactive (003 spec.md:111):
\* no step reveals a CVV whose PAN token has been deactivated.
CVVDiesWithPAN ==
  [][\A r, s \in Requests :
       /\ val'[r] # val[r] /\ req[r].op = "detokenize"
       /\ req[r].token = CvvTok(s) /\ panTok[s] # Nil
       => tokens[panTok[s]].status = "active"]_vars
===============================================================================

---------------------------- MODULE PostgresStore ----------------------------
(***************************************************************************)
(* The PostgreSQL tables and the statements the repositories run on them.  *)
(* Each statement runs on its own (the code opens no transaction), so one  *)
(* operator here is one atomic step of the database.                       *)
(***************************************************************************)
EXTENDS VaultData

VARIABLES
  tenants,   \* tenants[t]: status of t's row in "tenants", or "absent"
  tokens,    \* tokens[k]: row of "tokens" with token_id = k, or Nil
  vault,     \* vault[k]: row of "vault_entries" with token_id = k, or Nil
  audit      \* rows of "audit_log"

dbVars == <<tenants, tokens, vault, audit>>

TokenRows == [tenant : Tenants, blindIndex : BlindIndexes,
              status : {"active", "inactive"}, used : BOOLEAN]
VaultRows == [tenant : Tenants, ciphertext : SealedPANs, dekEncrypted : WrappedDEKs]
AuditRows == [req : Requests, tenant : Tenants, token : TokenIDs,
              operation : {"tokenize", "detokenize", "validate", "deactivate"}]

ASSUME NoRowAssumption == Nil \notin TokenIDs \cup TokenRows \cup VaultRows

DbTypeOK ==
  /\ tenants \in [Tenants -> {"absent", "active", "inactive"}]
  /\ tokens \in [TokenIDs -> TokenRows \cup {Nil}]
  /\ vault \in [TokenIDs -> VaultRows \cup {Nil}]
  /\ audit \subseteq AuditRows

\* Any set of tenants has been provisioned; nothing is tokenized yet.
DbInit ==
  /\ tenants \in [Tenants -> {"absent", "active"}]
  /\ tokens = [k \in TokenIDs |-> Nil]
  /\ vault = [k \in TokenIDs |-> Nil]
  /\ audit = {}

-----------------------------------------------------------------------------
(* TokenRepo *)

\* Mutant: the lookup skips deactivated tokens, which the unique index does not.
FindByBlindIndexActiveOnly(t, bi) ==
  {k \in TokenIDs : /\ tokens[k] # Nil
                    /\ tokens[k].tenant = t
                    /\ tokens[k].blindIndex = bi
                    /\ tokens[k].status = "active"}

\* SELECT ... FROM tokens WHERE tenant_id = t AND pan_blind_index = bi
FindByBlindIndex(t, bi) ==
  {k \in TokenIDs : /\ tokens[k] # Nil
                    /\ tokens[k].tenant = t
                    /\ tokens[k].blindIndex = bi}

\* SELECT ... FROM tokens WHERE tenant_id = t AND token_id = k
FindByTokenID(t, k) ==
  IF tokens[k] # Nil /\ tokens[k].tenant = t THEN tokens[k] ELSE Nil

\* Mutant: migration 005 drops the unique index on pan_blind_index and creates
\* the one on (tenant_id, pan_blind_index) as a plain index.
TokenCreateAcceptedNoUniqueIndex(t, k, bi) ==
  tokens[k] = Nil /\ tenants[t] # "absent"

\* The unique indexes on token_id and on (tenant_id, pan_blind_index), and the
\* foreign key to tenants, under which INSERT INTO tokens is accepted.
TokenCreateAccepted(t, k, bi) ==
  /\ tokens[k] = Nil
  /\ \A j \in TokenIDs :
       tokens[j] # Nil => <<tokens[j].tenant, tokens[j].blindIndex>> # <<t, bi>>
  /\ tenants[t] # "absent"

\* Mutant: the row is inserted without a status, Go's zero value "".
TokenCreateNoStatus(t, k, bi) ==
  tokens' = [tokens EXCEPT ![k] = [tenant |-> t, blindIndex |-> bi,
                                   status |-> Nil, used |-> FALSE]]

TokenCreate(t, k, bi) ==
  tokens' = [tokens EXCEPT ![k] = [tenant |-> t, blindIndex |-> bi,
                                   status |-> "active", used |-> FALSE]]

\* UPDATE tokens SET status = s ... WHERE tenant_id = t AND token_id = k
UpdateStatus(t, k, s) ==
  tokens' = IF FindByTokenID(t, k) = Nil THEN tokens
            ELSE [tokens EXCEPT ![k].status = s]

\* Mutant: the UPDATE saves the whole struct the handler read, status included.
UpdateLastUsedSavesRow(t, k) ==
  tokens' = IF FindByTokenID(t, k) = Nil THEN tokens
            ELSE [tokens EXCEPT ![k].used = TRUE, ![k].status = "active"]

\* UPDATE tokens SET last_used_at = now ... WHERE tenant_id = t AND token_id = k
UpdateLastUsed(t, k) ==
  tokens' = IF FindByTokenID(t, k) = Nil THEN tokens
            ELSE [tokens EXCEPT ![k].used = TRUE]

-----------------------------------------------------------------------------
(* VaultRepo *)

\* The foreign key to tokens(token_id) and the unique token_id.
VaultCreateAccepted(k) == tokens[k] # Nil /\ vault[k] = Nil

VaultCreate(t, k, ciphertext, dekEncrypted) ==
  vault' = [vault EXCEPT ![k] = [tenant |-> t, ciphertext |-> ciphertext,
                                 dekEncrypted |-> dekEncrypted]]

\* Mutant: the SELECT filters by tenant only and takes the first row.
VaultFindByTokenIDFirstRow(t, k) ==
  LET rows == {vault[j] : j \in {i \in TokenIDs : vault[i] # Nil /\ vault[i].tenant = t}}
  IN  IF rows = {} THEN Nil ELSE CHOOSE row \in rows : TRUE

\* SELECT ... FROM vault_entries WHERE tenant_id = t AND token_id = k
VaultFindByTokenID(t, k) ==
  IF vault[k] # Nil /\ vault[k].tenant = t THEN vault[k] ELSE Nil

-----------------------------------------------------------------------------
(* AuditRepo and TenantRepo *)

AuditAppend(r, t, k, op) ==
  audit' = audit \cup {[req |-> r, tenant |-> t, token |-> k, operation |-> op]}

\* TenantHandler.Deactivate finds the row and sets its status; as nothing deletes
\* a tenant, the two statements are one step.
DeactivateTenant(t) ==
  /\ tenants[t] = "active"
  /\ tenants' = [tenants EXCEPT ![t] = "inactive"]
  /\ UNCHANGED <<tokens, vault, audit>>
===============================================================================

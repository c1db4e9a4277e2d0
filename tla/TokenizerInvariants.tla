------------------------- MODULE TokenizerInvariants -------------------------
(***************************************************************************)
(* The inductive invariants behind the safety properties of Tokenizer:     *)
(* what the handlers have established at each of their steps about their   *)
(* own variables, the tables and the keys, whatever the others do.         *)
(***************************************************************************)
EXTENDS Tokenizer

CVVSteps == {"storeCVV", "getOwner", "delPrevious", "setOwner", "auditCVV"}

\* What a handler knows of its own request at each step.
HandlerOK ==
  \A r \in Requests :
    /\ pc[r] = "idle" => req[r] = NoRequest
    /\ pc[r] \in TokenizeSteps => req[r] \in TokenizeInputs
    /\ pc[r] \in TokenSteps => req[r] \in TokenInputs
    /\ pc[r] \in {"findIndex", "encrypt", "tokenCreate", "vaultCreate", "auditPAN"}
         => req[r].pan \in PANs
    /\ pc[r] \in CVVSteps => req[r].cvv \in CVVs
    /\ pc[r] \in {"auditPAN", "getOwner", "delPrevious", "setOwner"} => panTok[r] # Nil
    /\ pc[r] = "delPrevious" => prev[r] # Nil
    /\ pc[r] \in {"decrypt", "lastUsed", "retrieveCVV"} => req[r].op = "detokenize"
    /\ pc[r] = "existsCVV" => req[r].op = "status"
    /\ pc[r] = "updateStatus" => req[r].op = "deactivate"
    /\ pc[r] \in {"idle", "findToken", "decrypt", "retrieveCVV", "existsCVV",
                 "updateStatus"} => val[r] = Nil

\* Row k of "tokens" is the one a tokenize request for this PAN made or found.
RowIsFor(k, r) ==
  /\ k # Nil /\ tokens[k] # Nil
  /\ tokens[k].tenant = req[r].tenant
  /\ tokens[k].blindIndex = ComputeBlindIndex(req[r].tenant, req[r].pan)

\* The directory of PAN tokens: one row per blind index, and every tokenize
\* request past its lookup or its insert is tied to the row of its PAN.
DirectoryOK ==
  /\ \A j, k \in TokenIDs :
       /\ tokens[j] # Nil /\ tokens[k] # Nil
       /\ tokens[j].tenant = tokens[k].tenant
       /\ tokens[j].blindIndex = tokens[k].blindIndex
       => j = k
  /\ \A r \in Requests :
       /\ panTok[r] # Nil => req[r].op = "tokenize" /\ RowIsFor(panTok[r], r)
       /\ pc[r] = "vaultCreate" => RowIsFor(PanTok(r), r)
       /\ (pc[r] \in {"auditPAN"} \cup CVVSteps \/ Tokenized(r)) /\ req[r].pan # Nil
            => panTok[r] # Nil

StepsBeforeStore ==
  {"idle", "findIndex", "encrypt", "tokenCreate", "vaultCreate", "auditPAN", "storeCVV"}

\* The life of a CVV token: only the request that mints it stores it, once and
\* under its own tenant, and its key is in Redis only until its fate is sealed.
CVVTokensOK ==
  /\ \A t \in Tenants, k \in TokenIDs :
       cvvtok[<<t, k>>] # Nil => /\ fate[k] = "stored" /\ k[1] = "cvv"
                                 /\ req[k[2]].tenant = t
  /\ \A r \in Requests :
       pc[r] \in StepsBeforeStore => fate[CvvTok(r)] = "none"
  /\ \A k \in TokenIDs : tokens[k] # Nil => k[1] = "pan"
  /\ \A r \in Requests : pc[r] = "decrypt" => tokens[req[r].token] # Nil

\* A request that holds a CVV has consumed its token, and it is the only one.
CVVHolders ==
  /\ \A r \in Requests :
       req[r].op = "detokenize" /\ val[r] # Nil /\ req[r].token[1] = "cvv"
         => fate[req[r].token] = "consumed"
  /\ CVVSingleUse

\* The inductive invariant.
Inv == TypeOK /\ HandlerOK /\ DirectoryOK /\ CVVTokensOK /\ CVVHolders

-----------------------------------------------------------------------------
(* The owner keys and InvalidatePreviousCVVToken *)

StepsBeforeSetOwner == {"getOwner", "delPrevious", "setOwner"}

\* Owner keys, and handlers that have read one, name CVV tokens of the same PAN
\* token, and only handlers that have stored their own token read them.
OwnersOK ==
  /\ \A t \in Tenants, k \in TokenIDs :
       cvvtokOwner[<<t, k>>] # Nil => cvvtokOwner[<<t, k>>] \in CVVTokensOf(k)
  /\ \A s \in Requests :
       /\ prev[s] # Nil => prev[s] \in CVVTokensOf(panTok[s])
       /\ prev[s] # Nil \/ pc[s] \in StepsBeforeSetOwner => fate[CvvTok(s)] # "none"

\* A token nobody has named yet, and so nobody can delete.
Unowned(c) ==
  /\ fate[c] # "invalidated"
  /\ \A key \in RedisKeys : cvvtokOwner[key] # c
  /\ \A s \in Requests : prev[s] # c

\* A handler that may delete another token has one that nobody has named.
NewTokensUnowned ==
  \A r \in Requests : pc[r] \in StepsBeforeSetOwner => Unowned(CvvTok(r))

\* Of the CVV tokens of a PAN token, one is not deleted, nor about to be.
SurvivorsOK ==
  \A k \in TokenIDs :
    CVVTokensOf(k) # {} =>
      \E c \in CVVTokensOf(k) : fate[c] # "invalidated" /\ \A s \in Requests : prev[s] # c

\* The inductive invariant of the invalidation.
OwnerInv == OwnersOK /\ NewTokensUnowned /\ SurvivorsOK

-----------------------------------------------------------------------------
(* What answers are made of *)

\* For good: nothing stores a CVV token again or makes a row active.
Ended(k) ==
  \/ tokens[k] # Nil /\ tokens[k].status = "inactive"
  \/ fate[k] \in {"consumed", "expired", "invalidated"}

\* A deactivation that gets to its answer has ended its token.
DeactivatesOK(r) ==
  req[r].op = "deactivate" =>
    /\ pc[r] = "updateStatus" => FindByTokenID(req[r].tenant, req[r].token) # Nil
    /\ pc[r] = "auditOp" \/ Succeeded(r) => Ended(req[r].token)

\* A request that came too late gets nowhere near a value.
LateOK(r) ==
  late[r] =>
    /\ pc[r] # "idle" /\ req[r] \in TokenInputs /\ Ended(req[r].token)
    /\ req[r].op = "detokenize" =>
         pc[r] \in {"findToken", "retrieveCVV", "done", "crashed"} /\ val[r] = Nil /\ ~Succeeded(r)
    /\ req[r].op = "status" => val[r] # "active"

\* What is stored under a token is the field of the request that minted it.
StoredOK ==
  /\ \A k \in TokenIDs : fate[k] # "none" => k[1] = "cvv"
  /\ \A k \in TokenIDs : tokens[k] # Nil =>
       LET a == req[k[2]]
       IN  /\ a.op = "tokenize" /\ a.pan \in PANs /\ tokens[k].tenant = a.tenant
           /\ tokens[k].blindIndex = ComputeBlindIndex(a.tenant, a.pan)
  /\ \A k \in TokenIDs : vault[k] # Nil =>
       LET a == req[k[2]]
       IN  /\ k[1] = "pan" /\ a.op = "tokenize" /\ vault[k].tenant = a.tenant
           /\ vault[k].ciphertext = Encrypt(a.pan, k) /\ vault[k].dekEncrypted.dek = k
  /\ \A t \in Tenants, k \in TokenIDs : cvvtok[<<t, k>>] # Nil =>
       /\ req[k[2]].op = "tokenize"
       /\ cvvtok[<<t, k>>] = Encrypt(req[k[2]].cvv, k)

\* The inductive invariant of the answers.
AnswerInv ==
  /\ StoredOK
  /\ \A r \in Requests : DeactivatesOK(r) /\ LateOK(r)
  /\ RevealsWhatWasTokenized

-----------------------------------------------------------------------------
(* Requests that are served one at a time *)

OneAtATime == \A r, s \in InFlight : r = s

\* A tokenize handler that has found no row for its PAN is still right, and no
\* reason is left to refuse its own.
MintingOK ==
  \A r \in Requests :
    LET t == req[r].tenant
    IN  /\ pc[r] \in {"idle", "findIndex", "encrypt", "tokenCreate"} => tokens[PanTok(r)] = Nil
        /\ pc[r] \in {"findIndex", "encrypt", "tokenCreate"} => tenants[t] # "absent"
        /\ pc[r] \in {"encrypt", "tokenCreate"} =>
             FindByBlindIndex(t, ComputeBlindIndex(t, req[r].pan)) = {}

StepsBeforeVault == {"idle", "findIndex", "encrypt", "tokenCreate", "vaultCreate"}

EntriesUnwritten ==
  \A r \in Requests : pc[r] \in StepsBeforeVault => vault[PanTok(r)] = Nil

\* A PAN token without a vault entry is in the hands of the handler that writes it.
EntriesOK ==
  \A k \in TokenIDs :
    tokens[k] # Nil => \/ pc[k[2]] = "vaultCreate"
                       \/ vault[k] # Nil /\ vault[k].tenant = tokens[k].tenant

RevealsOK ==
  \A r \in Requests :
    req[r].op = "detokenize" =>
      /\ pc[r] = "decrypt" => tokens[req[r].token].tenant = req[r].tenant
      /\ pc[r] \in {"lastUsed", "auditOp"} \/ Succeeded(r) => val[r] # Nil

\* A CVV token that is in Redis beside its PAN token is the one the owner key
\* names, but for the one whose handler has the owner key still to set.
LastOwnersOK ==
  \A r \in Requests :
    LET owner == cvvtokOwner[<<req[r].tenant, panTok[r]>>]
    IN  /\ panTok[r] # Nil /\ fate[CvvTok(r)] = "stored" =>
             /\ cvvtok[<<req[r].tenant, CvvTok(r)>>] # Nil
             /\ owner = CvvTok(r) \/ pc[r] \in StepsBeforeSetOwner
        /\ pc[r] = "delPrevious" => owner \in {prev[r], Nil}
        /\ pc[r] = "setOwner" /\ owner # Nil => fate[owner] # "stored"

SerialInv ==
  OneAtATime /\ MintingOK /\ EntriesUnwritten /\ EntriesOK /\ RevealsOK /\ LastOwnersOK
===============================================================================

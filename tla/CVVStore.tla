------------------------------- MODULE CVVStore -------------------------------
(***************************************************************************)
(* The Redis keys of redis.CVVStore.  Every command is atomic; a method    *)
(* that issues several commands is several operators.                      *)
(*                                                                         *)
(* Expiry: both kinds of key are SET with the same positive TTL, and the   *)
(* owner key of a request is SET after its CVV token key, so an owner key  *)
(* never expires while the CVV token it names is still there.              *)
(***************************************************************************)
EXTENDS VaultData

VARIABLES
  cvvtok,       \* cvvtok[<<t, k>>]: value of key cvvtok:t:k, or Nil
  cvvtokOwner,  \* cvvtokOwner[<<t, k>>]: value of key cvvtok_owner:t:k, or Nil
  fate          \* history: what has become of the CVV token k

redisVars == <<cvvtok, cvvtokOwner, fate>>

RedisKeys == Tenants \X TokenIDs

ASSUME NoKeyAssumption == Nil \notin TokenIDs \cup SealedCVVs

RedisTypeOK ==
  /\ cvvtok \in [RedisKeys -> SealedCVVs \cup {Nil}]
  /\ cvvtokOwner \in [RedisKeys -> TokenIDs \cup {Nil}]
  /\ fate \in [TokenIDs -> {"none", "stored", "consumed", "expired", "invalidated"}]

RedisInit ==
  /\ cvvtok = [key \in RedisKeys |-> Nil]
  /\ cvvtokOwner = [key \in RedisKeys |-> Nil]
  /\ fate = [k \in TokenIDs |-> "none"]

\* SET cvvtok:t:k sealed EX ttl
StoreCVVToken(t, k, sealed) ==
  /\ cvvtok' = [cvvtok EXCEPT ![<<t, k>>] = sealed]
  /\ fate' = [fate EXCEPT ![k] = "stored"]
  /\ UNCHANGED cvvtokOwner

\* Mutant: GET where the code uses GETDEL.
RetrieveCVVTokenGet(t, k) ==
  /\ fate' = IF cvvtok[<<t, k>>] = Nil THEN fate
             ELSE [fate EXCEPT ![k] = "consumed"]
  /\ UNCHANGED <<cvvtok, cvvtokOwner>>

\* GETDEL cvvtok:t:k; the reply is the value before the command.
RetrieveCVVToken(t, k) ==
  /\ cvvtok' = [cvvtok EXCEPT ![<<t, k>>] = Nil]
  /\ fate' = IF cvvtok[<<t, k>>] = Nil THEN fate
             ELSE [fate EXCEPT ![k] = "consumed"]
  /\ UNCHANGED cvvtokOwner

\* TTL cvvtok:t:k, negative when there is no such key.
ExistsCVVToken(t, k) == cvvtok[<<t, k>>] # Nil

\* Mutant: DEL cvv:t:k, the key of the older CVV scheme, which cvvKey still builds.
DeleteCVVTokenOldKey(t, k) ==
  UNCHANGED <<cvvtok, fate, cvvtokOwner>>

\* DEL cvvtok:t:k, in InvalidatePreviousCVVToken
DeleteCVVToken(t, k) ==
  /\ cvvtok' = [cvvtok EXCEPT ![<<t, k>>] = Nil]
  /\ fate' = IF cvvtok[<<t, k>>] = Nil THEN fate
             ELSE [fate EXCEPT ![k] = "invalidated"]
  /\ UNCHANGED cvvtokOwner

\* SET cvvtok_owner:t:panTok cvvTok EX ttl
SetCVVTokenOwner(t, panTok, cvvTok) ==
  /\ cvvtokOwner' = [cvvtokOwner EXCEPT ![<<t, panTok>>] = cvvTok]
  /\ UNCHANGED <<cvvtok, fate>>

\* The TTL of cvvtok:t:k runs out.
CVVTokenExpires(t, k) ==
  /\ cvvtok[<<t, k>>] # Nil
  /\ cvvtok' = [cvvtok EXCEPT ![<<t, k>>] = Nil]
  /\ fate' = [fate EXCEPT ![k] = "expired"]
  /\ UNCHANGED cvvtokOwner

\* The TTL of cvvtok_owner:t:panTok runs out, after that of the token it names.
CVVTokenOwnerExpires(t, panTok) ==
  /\ cvvtokOwner[<<t, panTok>>] # Nil
  /\ cvvtok[<<t, cvvtokOwner[<<t, panTok>>]>>] = Nil
  /\ cvvtokOwner' = [cvvtokOwner EXCEPT ![<<t, panTok>>] = Nil]
  /\ UNCHANGED <<cvvtok, fate>>
===============================================================================

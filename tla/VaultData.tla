------------------------------ MODULE VaultData ------------------------------
(***************************************************************************)
(* The data the tokenizer handles: token identifiers, blind indexes and    *)
(* sealed values.  Strings, bytes and keys are abstracted to what the      *)
(* properties tell apart: who minted a token, which tenant and PAN an      *)
(* index stands for, which key seals a value.                              *)
(***************************************************************************)
EXTENDS Integers, FiniteSets

CONSTANTS
  Requests,    \* HTTP requests; each one is served once
  Tenants,     \* tenant identifiers, valid as an X-Tenant-ID header
  PANs,        \* card numbers that pass validatePAN
  CVVs,        \* card codes that pass validateCVV
  Invalid,     \* a pan or cvv field that is no string or fails its validation
  Nil          \* Go's nil, and Go's "" for strings

ASSUME NilAssumption ==
  /\ Nil \notin Tenants \cup PANs \cup CVVs \cup {Invalid}
  /\ Invalid \notin PANs \cup CVVs

(***************************************************************************)
(* generateTokenID draws 160 random bits, so two calls never return the    *)
(* same identifier: a token is named by the request that minted it and the *)
(* field it replaces.  Identifiers are opaque to the code: nothing but the *)
(* place where it is found tells a PAN token from a CVV token.             *)
(***************************************************************************)
TokenIDs == {"pan", "cvv"} \X Requests
PanTok(r) == <<"pan", r>>
CvvTok(r) == <<"cvv", r>>

\* HMAC-SHA256 over "tenant:pan": injective, and it hides nothing here.
BlindIndexes == Tenants \X PANs
ComputeBlindIndex(tenant, pan) == <<tenant, pan>>

(***************************************************************************)
(* Envelope encryption.  A data key (DEK) is as random as a token id and   *)
(* is named by the token it is generated for; KMS wraps it under the       *)
(* tenant's key (KEK).  AES-GCM opens a sealed value under the sealing key *)
(* only; an authentication failure is Nil.                                 *)
(***************************************************************************)
DEKs == TokenIDs
WrappedDEKs == [kek : Tenants, dek : DEKs]
GenerateDataKey(kek, dek) == [kek |-> kek, dek |-> dek]
UnwrapKey(wrapped) == wrapped.dek

Encrypt(text, dek) == [dek |-> dek, text |-> text]
Decrypt(ciphertext, dek) ==
  IF ciphertext.dek = dek THEN ciphertext.text ELSE Nil

SealedPANs == [dek : DEKs, text : PANs]
SealedCVVs == [dek : DEKs, text : CVVs]
===============================================================================

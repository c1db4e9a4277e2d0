------------------------- MODULE TokenizerRefinement -------------------------
(***************************************************************************)
(* The tokenizer implements VaultContract.  The row of "tokens" binds a    *)
(* card, the key in Redis is the live CVV, the status column and the end   *)
(* of that key spend a token, and detokenize requests are the clients.     *)
(***************************************************************************)
EXTENDS Tokenizer

ASSUME NoRecordAssumption ==
  Nil \notin [tenant : Tenants, cvv : CVVs]
           \cup [tenant : Tenants, token : TokenIDs, usable : BOOLEAN]

Directory ==
  [card \in Tenants \X PANs |->
     LET found == FindByBlindIndex(card[1], card)
     IN  IF found = {} THEN Nil ELSE CHOOSE k \in found : TRUE]

CVVTokens ==
  [k \in TokenIDs |->
     LET holders == {t \in Tenants : cvvtok[<<t, k>>] # Nil}
     IN  IF holders = {} THEN Nil
         ELSE LET t == CHOOSE t \in holders : TRUE
              IN  [tenant |-> t, cvv |-> cvvtok[<<t, k>>].text]]

Spent == {k \in TokenIDs : Dead(k)}

Asked ==
  [r \in Requests |->
     IF req[r].op = "detokenize"
     THEN [tenant |-> req[r].tenant, token |-> req[r].token, usable |-> ~late[r]]
     ELSE Nil]

Revealed == [r \in Requests |-> IF req[r].op = "detokenize" THEN val[r] ELSE Nil]

Contract == INSTANCE VaultContract WITH
  Clients <- Requests,
  directory <- Directory, cvvs <- CVVTokens, spent <- Spent,
  asked <- Asked, revealed <- Revealed

\* Every step of every handler, every expiry and every failure is a step of
\* the contract or leaves what the contract speaks of unchanged.  This is
\* Contract!Spec with its stuttering steps, which are most, tried first.
ImplementsContract ==
  /\ Contract!Init
  /\ [][UNCHANGED Contract!contractVars \/ Contract!Next]_(Contract!contractVars)
===============================================================================

--------------------------- MODULE RefinementProofs ---------------------------
(***************************************************************************)
(* Three levels of the same system.  The tokenizer implements              *)
(* VaultContract: every call a handler makes is one step of the contract,  *)
(* or changes nothing the contract speaks of.  The tokenizer with real     *)
(* expiry implements the untimed one, for any TTL, because an owner key is *)
(* SET after the CVV token it names, with the same TTL, and a CVV token is *)
(* stored only once.                                                       *)
(***************************************************************************)
EXTENDS AnswerProofs, TokenizerRefinement, CVVLifetime

-----------------------------------------------------------------------------
(* The directory *)

\* The statements on "tokens" that insert no row leave these columns.
SameRows ==
  \A k \in TokenIDs :
    /\ tokens'[k] # Nil <=> tokens[k] # Nil
    /\ tokens[k] # Nil => /\ tokens'[k].tenant = tokens[k].tenant
                          /\ tokens'[k].blindIndex = tokens[k].blindIndex

\* Directory[card] is a row of the card if there is one.
LEMMA DirectoryIs ==
  ASSUME NEW card \in Tenants \X PANs
  PROVE  /\ FindByBlindIndex(card[1], card) = {} => Directory[card] = Nil
         /\ FindByBlindIndex(card[1], card) # {} =>
              Directory[card] \in FindByBlindIndex(card[1], card)
PROOF
  <1> DEFINE found == FindByBlindIndex(card[1], card)
  <1>1. Directory[card] = IF found = {} THEN Nil ELSE CHOOSE k \in found : TRUE
    BY DEF Directory
  <1> HIDE DEF found
  <1> QED
    BY <1>1 DEF found

\* The unique index leaves no choice: the card of a row has its token.
LEMMA DirectoryHas ==
  ASSUME Inv, StoredOK, NEW k \in TokenIDs, tokens[k] # Nil
  PROVE  LET card == <<req[k[2]].tenant, req[k[2]].pan>>
         IN  card \in Tenants \X PANs /\ card[1] = tokens[k].tenant /\ Directory[card] = k
PROOF
  <1> DEFINE card == <<req[k[2]].tenant, req[k[2]].pan>>
  <1>1. /\ req[k[2]].op = "tokenize" /\ req[k[2]].pan \in PANs
        /\ tokens[k].tenant = req[k[2]].tenant /\ tokens[k].blindIndex = card
    BY DEF StoredOK, ComputeBlindIndex
  <1>2. req[k[2]].tenant \in Tenants
    BY <1>1, PanToks DEF Inv, TypeOK, TokenizeInputs, TokenInputs, NoRequest
  <1>3. card \in Tenants \X PANs
    BY <1>1, <1>2
  <1>4. FindByBlindIndex(card[1], card) = {k}
    BY <1>1 DEF FindByBlindIndex, Inv, DirectoryOK
  <1>5. Directory[card] = k
    BY <1>3, <1>4, DirectoryIs
  <1> QED
    BY <1>1, <1>3, <1>5

\* Whatever is bound to a card is a row of "tokens".
LEMMA BoundHasRow ==
  ASSUME NEW k \in TokenIDs, Contract!Bound(k)
  PROVE  tokens[k] # Nil
PROOF
  <1>1. PICK card \in Tenants \X PANs : Directory[card] = k
    BY DEF Contract!Bound, Contract!Cards
  <1>2. k # Nil
    BY NoKeyAssumption
  <1> QED
    BY <1>1, <1>2, DirectoryIs DEF FindByBlindIndex

\* The directory depends on the columns of SameRows only.
LEMMA DirectoryStays ==
  ASSUME SameRows
  PROVE  Directory' = Directory
PROOF
  <1>1. \A t, bi : {k \in TokenIDs : tokens'[k] # Nil /\ tokens'[k].tenant = t
                                                     /\ tokens'[k].blindIndex = bi}
                   = {k \in TokenIDs : tokens[k] # Nil /\ tokens[k].tenant = t
                                                       /\ tokens[k].blindIndex = bi}
    BY DEF SameRows
  <1> DEFINE Find(t, bi) == {k \in TokenIDs : tokens[k] # Nil /\ tokens[k].tenant = t
                                                       /\ tokens[k].blindIndex = bi}
             FindNext(t, bi) == {k \in TokenIDs : tokens'[k] # Nil /\ tokens'[k].tenant = t
                                                     /\ tokens'[k].blindIndex = bi}
             Of(found) == IF found = {} THEN Nil ELSE CHOOSE k \in found : TRUE
  <1>2. Directory = [card \in Tenants \X PANs |-> Of(Find(card[1], card))]
    BY DEF Directory, FindByBlindIndex
  <1>3. Directory' = [card \in Tenants \X PANs |-> Of(FindNext(card[1], card))]
    BY DEF Directory, FindByBlindIndex
  <1>4. \A t, bi : Find(t, bi) = FindNext(t, bi)
    BY <1>1
  <1> HIDE DEF Of, Find, FindNext
  <1> QED
    BY <1>2, <1>3, <1>4

-----------------------------------------------------------------------------
(* The live CVVs *)

\* A key in Redis is the live CVV of its token.
LEMMA LiveCVV ==
  ASSUME Inv, NEW k \in TokenIDs, NEW t \in Tenants, cvvtok[<<t, k>>] # Nil
  PROVE  CVVTokens[k] = [tenant |-> t, cvv |-> cvvtok[<<t, k>>].text]
PROOF
  <1> DEFINE holders == {u \in Tenants : cvvtok[<<u, k>>] # Nil}
  <1>1. holders = {t}
    BY DEF Inv, CVVTokensOK
  <1>2. CVVTokens[k] = IF holders = {} THEN Nil
                       ELSE LET u == CHOOSE u \in holders : TRUE
                            IN  [tenant |-> u, cvv |-> cvvtok[<<u, k>>].text]
    BY DEF CVVTokens
  <1>3. (CHOOSE u \in holders : TRUE) = t
    BY <1>1
  <1> HIDE DEF holders
  <1> QED
    BY <1>1, <1>2, <1>3

\* A token without a key is the token of no live CVV.
LEMMA NoLiveCVV ==
  ASSUME NEW k \in TokenIDs, \A t \in Tenants : cvvtok[<<t, k>>] = Nil
  PROVE  CVVTokens[k] = Nil
PROOF
  BY DEF CVVTokens

\* The same of the next state.
LEMMA NoLiveCVVNext ==
  ASSUME NEW k \in TokenIDs, \A t \in Tenants : cvvtok'[<<t, k>>] = Nil
  PROVE  CVVTokens'[k] = Nil
PROOF
  BY DEF CVVTokens

\* A command on the keys of one token leaves the CVVs of the others.
LEMMA OtherCVVsStay ==
  ASSUME NEW k \in TokenIDs,
         \A t \in Tenants : cvvtok'[<<t, k>>] = cvvtok[<<t, k>>]
  PROVE  CVVTokens'[k] = CVVTokens[k]
PROOF
  <1> DEFINE holders == {u \in Tenants : cvvtok[<<u, k>>] # Nil}
             holdersNext == {u \in Tenants : cvvtok'[<<u, k>>] # Nil}
  <1>1. holders = holdersNext
    OBVIOUS
  <1>2. CVVTokens[k] = IF holders = {} THEN Nil
                       ELSE LET u == CHOOSE u \in holders : TRUE
                            IN  [tenant |-> u, cvv |-> cvvtok[<<u, k>>].text]
    BY DEF CVVTokens
  <1>3. CVVTokens'[k] = IF holdersNext = {} THEN Nil
                        ELSE LET u == CHOOSE u \in holdersNext : TRUE
                             IN  [tenant |-> u, cvv |-> cvvtok'[<<u, k>>].text]
    BY DEF CVVTokens
  <1>4. holders # {} => (CHOOSE u \in holders : TRUE) \in Tenants
    OBVIOUS
  <1> HIDE DEF holders, holdersNext
  <1> QED
    BY <1>1, <1>2, <1>3, <1>4

-----------------------------------------------------------------------------
(* Tokens that are spent *)

\* Every token that is dead has ended, and the other way round: a deactivation
\* that was answered has reached the row.
LEMMA SpentHaveEnded ==
  ASSUME TimelyOK
  PROVE  Spent = {k \in TokenIDs : Ended(k)}
PROOF
  BY DeadHaveEnded DEF Spent, Dead, Ended

\* The same of the next state.
LEMMA SpentHaveEndedNext ==
  ASSUME TimelyOK'
  PROVE  Spent' = {k \in TokenIDs : Ended(k)'}
PROOF
  BY DEF Spent, Dead, Ended, KnownInactive, TimelyOK, DeactivatesOK

\* Fates and the status column decide what is spent.
SameFates ==
  /\ UNCHANGED fate
  /\ \A k \in TokenIDs :
       tokens[k] # Nil => (tokens'[k].status = "inactive" <=> tokens[k].status = "inactive")

\* What spends nothing and inserts no row leaves the spent tokens and the directory.
LEMMA SpentStay ==
  ASSUME TimelyOK, TimelyOK', SameRows, SameFates
  PROVE  Spent' = Spent /\ Directory' = Directory
PROOF
  <1>1. \A k \in TokenIDs : Ended(k)' <=> Ended(k)
    BY DEF SameRows, SameFates, Ended
  <1>2. Spent = {k \in TokenIDs : Ended(k)} /\ Spent' = {k \in TokenIDs : Ended(k)'}
    BY SpentHaveEnded, SpentHaveEndedNext
  <1> QED
    BY <1>1, <1>2, DirectoryStays

-----------------------------------------------------------------------------
(* The clients of the contract *)

\* No detokenize request begins, and none obtains a value.
SameClients ==
  \A s \in Requests :
    /\ late'[s] = late[s]
    /\ req'[s].op = req[s].op \/ {req'[s].op, req[s].op} \cap {"detokenize"} = {}
    /\ req[s].op = "detokenize" => req'[s] = req[s] /\ val'[s] = val[s]

\* The clients of the contract are the detokenize requests.
LEMMA ClientsStay ==
  ASSUME SameClients
  PROVE  Asked' = Asked /\ Revealed' = Revealed
PROOF
  BY DEF SameClients, Asked, Revealed

\* A step the contract does not see.
LEMMA UnseenStep ==
  ASSUME TimelyOK, TimelyOK', SameRows, SameFates, SameClients, UNCHANGED cvvtok
  PROVE  UNCHANGED Contract!contractVars
PROOF
  <1>1. CVVTokens' = CVVTokens
    BY DEF CVVTokens
  <1> QED
    BY <1>1, SpentStay, ClientsStay DEF Contract!contractVars

\* Such is every step that leaves the tables, the keys and the clients.
LEMMA QuietStep ==
  ASSUME TimelyOK, TimelyOK', UNCHANGED <<tokens, cvvtok, fate>>, SameClients
  PROVE  UNCHANGED Contract!contractVars
PROOF
  BY UnseenStep DEF SameRows, SameFates

-----------------------------------------------------------------------------
(* Keys that go *)

\* GETDEL, DEL and expiry take the live CVV of a token and spend the token.
LEMMA KeyGoes ==
  ASSUME Inv, TimelyOK, TimelyOK', NEW t \in Tenants, NEW k \in TokenIDs,
         NEW w \in {"consumed", "expired", "invalidated"},
         cvvtok[<<t, k>>] # Nil,
         cvvtok' = [cvvtok EXCEPT ![<<t, k>>] = Nil],
         fate' = [fate EXCEPT ![k] = w],
         UNCHANGED tokens
  PROVE  /\ CVVTokens[k] = [tenant |-> t, cvv |-> cvvtok[<<t, k>>].text]
         /\ CVVTokens' = [CVVTokens EXCEPT ![k] = Nil]
         /\ Spent' = Spent \cup {k} /\ Directory' = Directory
PROOF
  <1>1. \A u \in Tenants, j \in TokenIDs :
          cvvtok'[<<u, j>>] = IF u = t /\ j = k THEN Nil ELSE cvvtok[<<u, j>>]
    BY DEF Inv, TypeOK, RedisTypeOK, RedisKeys
  <1>2. \A u \in Tenants : u # t => cvvtok[<<u, k>>] = Nil
    BY DEF Inv, CVVTokensOK
  <1>3. CVVTokens'[k] = Nil
    BY <1>1, <1>2, NoLiveCVVNext
  <1>4. \A j \in TokenIDs : j # k => CVVTokens'[j] = CVVTokens[j]
    BY <1>1, OtherCVVsStay
  <1>5. CVVTokens' = [CVVTokens EXCEPT ![k] = Nil]
    <2> DEFINE f == CVVTokens
               g == CVVTokens'
    <2>1. f = [j \in TokenIDs |-> f[j]] /\ g = [j \in TokenIDs |-> g[j]]
      BY DEF CVVTokens
    <2>2. g[k] = Nil /\ \A j \in TokenIDs : j # k => g[j] = f[j]
      BY <1>3, <1>4
    <2> HIDE DEF f, g
    <2>3. g = [f EXCEPT ![k] = Nil]
      BY <2>1, <2>2
    <2> QED
      BY <2>3 DEF f, g
  <1>6. \A j \in TokenIDs : Ended(j)' <=> Ended(j) \/ j = k
    <2>1. fate[k] = "stored"
      BY DEF Inv, CVVTokensOK
    <2>2. \A j \in TokenIDs : fate'[j] = IF j = k THEN w ELSE fate[j]
      BY DEF Inv, TypeOK, RedisTypeOK
    <2> QED
      BY <2>1, <2>2 DEF Ended
  <1>7. Spent' = Spent \cup {k}
    BY <1>6, SpentHaveEnded, SpentHaveEndedNext
  <1>8. Directory' = Directory
    BY DirectoryStays DEF SameRows
  <1> QED
    BY <1>5, <1>7, <1>8, LiveCVV

\* A CVV that nobody obtains is dropped.
LEMMA KeyDropped ==
  ASSUME Inv, TimelyOK, TimelyOK', NEW t \in Tenants, NEW k \in TokenIDs,
         NEW w \in {"consumed", "expired", "invalidated"},
         cvvtok[<<t, k>>] # Nil,
         cvvtok' = [cvvtok EXCEPT ![<<t, k>>] = Nil],
         fate' = [fate EXCEPT ![k] = w],
         UNCHANGED tokens, SameClients
  PROVE  Contract!DropCVV(k)
PROOF
  <1>1. cvvtok[<<t, k>>].text \in CVVs
    BY DEF Inv, TypeOK, RedisTypeOK, RedisKeys, SealedCVVs
  <1>2. CVVTokens[k] = [tenant |-> t, cvv |-> cvvtok[<<t, k>>].text]
    BY LiveCVV
  <1>3. [tenant |-> t, cvv |-> cvvtok[<<t, k>>].text] # Nil
    BY <1>1, NoRecordAssumption
  <1>4. CVVTokens[k] # Nil
    BY <1>2, <1>3
  <1> QED
    BY <1>4, KeyGoes, ClientsStay DEF Contract!DropCVV

\* The commands of Redis that may find no key.
LEMMA KeyRemoved ==
  ASSUME Inv, TimelyOK, TimelyOK', NEW t \in Tenants, NEW k \in TokenIDs,
         RetrieveCVVToken(t, k) \/ DeleteCVVToken(t, k) \/ CVVTokenExpires(t, k),
         UNCHANGED tokens, SameClients
  PROVE  Contract!DropCVV(k) \/ UNCHANGED Contract!contractVars
PROOF
  <1>1. <<t, k>> \in RedisKeys
    BY DEF RedisKeys
  <1>2. CASE cvvtok[<<t, k>>] = Nil
    <2>1. UNCHANGED <<cvvtok, fate>>
      BY <1>1, <1>2
      DEF RetrieveCVVToken, DeleteCVVToken, CVVTokenExpires, Inv, TypeOK, RedisTypeOK
    <2> QED
      BY <2>1, QuietStep
  <1>3. CASE cvvtok[<<t, k>>] # Nil
    <2>1. CASE RetrieveCVVToken(t, k)
      BY <1>3, <2>1, KeyDropped DEF RetrieveCVVToken
    <2>2. CASE DeleteCVVToken(t, k)
      BY <1>3, <2>2, KeyDropped DEF DeleteCVVToken
    <2>3. CASE CVVTokenExpires(t, k)
      BY <1>3, <2>3, KeyDropped DEF CVVTokenExpires
    <2> QED
      BY <2>1, <2>2, <2>3
  <1> QED
    BY <1>2, <1>3

-----------------------------------------------------------------------------
(* Steps of the handlers that the contract sees *)

\* Before and after a step.
Around == Inv /\ StoredOK /\ TimelyOK /\ Inv' /\ TimelyOK'

\* INSERT INTO tokens binds a card, and to no other token.
LEMMA TokenCreateStep ==
  ASSUME Around, NEW r \in Requests, TokenizeTokenCreate(r)
  PROVE  \/ \E card \in Contract!Cards, k \in TokenIDs : Contract!Bind(card, k)
         \/ UNCHANGED Contract!contractVars
PROOF
  <1> DEFINE k == PanTok(r)
             card == <<req[r].tenant, req[r].pan>>
  <1>1. /\ req[r].op = "tokenize" /\ req[r].tenant \in Tenants /\ req[r].pan \in PANs
        /\ k \in TokenIDs /\ k # Nil
    BY PanToks DEF TokenizeTokenCreate, Around, Inv, HandlerOK, TokenizeSteps, TokenizeInputs
  <1>2. SameClients /\ UNCHANGED <<cvvtok, fate>>
    BY DEF TokenizeTokenCreate, SameClients, redisVars
  <1>3. CASE UNCHANGED tokens
    BY <1>2, <1>3, QuietStep DEF Around
  <1>4. CASE ~ UNCHANGED tokens
    <2>1. /\ TokenCreateAccepted(req[r].tenant, k, card)
          /\ TokenCreate(req[r].tenant, k, card)
      BY <1>4 DEF TokenizeTokenCreate, ComputeBlindIndex
    <2>2. tokens[k] = Nil /\ FindByBlindIndex(card[1], card) = {}
      BY <2>1 DEF TokenCreateAccepted, FindByBlindIndex
    <2>3. tokens' = [tokens EXCEPT ![k] = [tenant |-> req[r].tenant, blindIndex |-> card,
                                           status |-> "active", used |-> FALSE]]
      BY <2>1 DEF TokenCreate
    <2>4. /\ tokens'[k].tenant = card[1] /\ tokens'[k].blindIndex = card
          /\ tokens'[k].status = "active" /\ tokens'[k] # Nil
          /\ \A j \in TokenIDs : j # k => tokens'[j] = tokens[j]
      <3> DEFINE row == [tenant |-> req[r].tenant, blindIndex |-> card,
                         status |-> "active", used |-> FALSE]
      <3>1. row \in TokenRows
        BY <1>1 DEF TokenRows, BlindIndexes
      <3>2. tokens' = [tokens EXCEPT ![k] = row] /\ tokens \in [TokenIDs -> TokenRows \cup {Nil}]
        BY <2>3 DEF Around, Inv, TypeOK, DbTypeOK
      <3>3. tokens'[k] = row /\ \A j \in TokenIDs : j # k => tokens'[j] = tokens[j]
        BY <1>1, <3>2
      <3>4. row # Nil
        BY <3>1, NoRowAssumption
      <3> QED
        BY <3>3, <3>4
    <2>5. card \in Tenants \X PANs /\ Directory[card] = Nil
      BY <1>1, <2>2, DirectoryIs
    <2>6. Contract!Fresh(k)
      <3>1. ~ Contract!Bound(k)
        BY <1>1, <2>2, BoundHasRow
      <3>2. fate[k] = "none"
        BY <1>1, PanToks DEF Around, StoredOK, Inv, TypeOK, RedisTypeOK
      <3>3. CVVTokens[k] = Nil
        BY <1>1, <3>2, NoLiveCVV DEF Around, Inv, CVVTokensOK
      <3>4. k \notin Spent
        BY <2>2, <3>2, SpentHaveEnded DEF Around, Ended
      <3> QED
        BY <3>1, <3>3, <3>4 DEF Contract!Fresh
    <2>7. Directory' = [Directory EXCEPT ![card] = k]
      <3> DEFINE f == Directory
                 g == Directory'
      <3>1. f = [c \in Tenants \X PANs |-> f[c]] /\ g = [c \in Tenants \X PANs |-> g[c]]
        BY DEF Directory
      <3>2. g[card] = k
        <4> DEFINE found == {j \in TokenIDs : tokens'[j] # Nil /\ tokens'[j].tenant = card[1]
                                                               /\ tokens'[j].blindIndex = card}
        <4>1. found = {k}
          BY <1>1, <2>2, <2>4 DEF FindByBlindIndex
        <4>2. \A c \in Tenants \X PANs :
                LET rows == {j \in TokenIDs : tokens'[j] # Nil /\ tokens'[j].tenant = c[1]
                                                               /\ tokens'[j].blindIndex = c}
                IN  g[c] = IF rows = {} THEN Nil ELSE CHOOSE j \in rows : TRUE
          BY DEF Directory, FindByBlindIndex
        <4>3. g[card] = IF found = {} THEN Nil ELSE CHOOSE j \in found : TRUE
          BY <4>2, <2>5
        <4> HIDE DEF g, found
        <4> QED
          BY <4>1, <4>3
      <3>3. ASSUME NEW c \in Tenants \X PANs, c # card
            PROVE  g[c] = f[c]
        <4> DEFINE now == {j \in TokenIDs : tokens[j] # Nil /\ tokens[j].tenant = c[1]
                                                            /\ tokens[j].blindIndex = c}
                   then == {j \in TokenIDs : tokens'[j] # Nil /\ tokens'[j].tenant = c[1]
                                                              /\ tokens'[j].blindIndex = c}
        <4>1. now = then
          BY <2>2, <2>4, <3>3
        <4>2. f[c] = IF now = {} THEN Nil ELSE CHOOSE j \in now : TRUE
          BY DEF Directory, FindByBlindIndex
        <4>3. g[c] = IF then = {} THEN Nil ELSE CHOOSE j \in then : TRUE
          BY DEF Directory, FindByBlindIndex
        <4> HIDE DEF f, g, now, then
        <4> QED
          BY <4>1, <4>2, <4>3
      <3> HIDE DEF f, g
      <3>4. g = [f EXCEPT ![card] = k]
        BY <2>5, <3>1, <3>2, <3>3
      <3> QED
        BY <3>4 DEF f, g
    <2>8. Spent' = Spent
      <3>1. \A j \in TokenIDs : Ended(j)' <=> Ended(j)
        BY <1>2, <2>2, <2>4 DEF Ended
      <3> QED
        BY <3>1, SpentHaveEnded, SpentHaveEndedNext DEF Around
    <2>9. CVVTokens' = CVVTokens
      BY <1>2 DEF CVVTokens
    <2> QED
      BY <1>1, <1>2, <2>5, <2>6, <2>7, <2>8, <2>9, ClientsStay
      DEF Contract!Bind, Contract!Cards
  <1> QED
    BY <1>3, <1>4

\* SET of a CVV token issues it, under an identifier never given out before.
LEMMA StoreCVVTokenStep ==
  ASSUME Around, NEW r \in Requests, TokenizeStoreCVVToken(r)
  PROVE  \/ \E k \in TokenIDs, live \in Contract!LiveCVVs : Contract!IssueCVV(k, live)
         \/ UNCHANGED Contract!contractVars
PROOF
  <1> DEFINE k == CvvTok(r)
             t == req[r].tenant
             live == [tenant |-> t, cvv |-> req[r].cvv]
  <1>1. t \in Tenants /\ req[r].cvv \in CVVs /\ k \in TokenIDs /\ k[1] = "cvv"
    BY CvvToks, PanToks
    DEF TokenizeStoreCVVToken, Around, Inv, HandlerOK, TokenizeSteps, TokenizeInputs, CVVSteps
  <1>2. SameClients /\ UNCHANGED tokens
    BY DEF TokenizeStoreCVVToken, SameClients, dbVars
  <1>3. CASE UNCHANGED redisVars
    BY <1>2, <1>3, QuietStep DEF Around, redisVars
  <1>4. CASE ~ UNCHANGED redisVars
    <2>1. StoreCVVToken(t, k, Encrypt(req[r].cvv, k))
      BY <1>4 DEF TokenizeStoreCVVToken
    <2>2. fate[k] = "none" /\ \A u \in Tenants : cvvtok[<<u, k>>] = Nil
      BY <1>1 DEF TokenizeStoreCVVToken, Around, Inv, CVVTokensOK, StepsBeforeStore
    <2>3. tokens[k] = Nil
      BY <1>1 DEF Around, Inv, CVVTokensOK
    <2>4. Contract!Fresh(k)
      <3>1. ~ Contract!Bound(k)
        BY <1>1, <2>3, BoundHasRow
      <3>2. CVVTokens[k] = Nil
        BY <1>1, <2>2, NoLiveCVV
      <3>3. k \notin Spent
        BY <2>2, <2>3, SpentHaveEnded DEF Around, Ended
      <3> QED
        BY <3>1, <3>2, <3>3 DEF Contract!Fresh
    <2>5. \A u \in Tenants, j \in TokenIDs :
            cvvtok'[<<u, j>>] = IF u = t /\ j = k THEN Encrypt(req[r].cvv, k)
                                ELSE cvvtok[<<u, j>>]
      BY <1>1, <2>1 DEF StoreCVVToken, Around, Inv, TypeOK, RedisTypeOK, RedisKeys
    <2>6. CVVTokens' = [CVVTokens EXCEPT ![k] = live]
      <3> DEFINE f == CVVTokens
                 g == CVVTokens'
      <3>1. f = [j \in TokenIDs |-> f[j]] /\ g = [j \in TokenIDs |-> g[j]]
        BY DEF CVVTokens
      <3>2. \A j \in TokenIDs : j # k => g[j] = f[j]
        BY <2>5, OtherCVVsStay
      <3>3. g[k] = live
        <4> DEFINE holders == {u \in Tenants : cvvtok'[<<u, k>>] # Nil}
        <4>1. Encrypt(req[r].cvv, k) # Nil /\ Encrypt(req[r].cvv, k).text = req[r].cvv
          <5>1. Encrypt(req[r].cvv, k) \in SealedCVVs
            BY <1>1 DEF Encrypt, SealedCVVs, DEKs
          <5> QED
            BY <5>1, NoKeyAssumption DEF Encrypt
        <4>2. holders = {t}
          BY <1>1, <2>2, <2>5, <4>1
        <4>3. g[k] = IF holders = {} THEN Nil
                     ELSE LET u == CHOOSE u \in holders : TRUE
                          IN  [tenant |-> u, cvv |-> cvvtok'[<<u, k>>].text]
          BY <1>1 DEF CVVTokens
        <4>4. (CHOOSE u \in holders : TRUE) = t
          BY <4>2
        <4>5. cvvtok'[<<t, k>>].text = req[r].cvv
          BY <1>1, <2>5, <4>1
        <4> HIDE DEF g, holders
        <4> QED
          BY <4>2, <4>3, <4>4, <4>5
      <3> HIDE DEF f, g
      <3>4. g = [f EXCEPT ![k] = live]
        BY <1>1, <3>1, <3>2, <3>3
      <3> QED
        BY <3>4 DEF f, g
    <2>7. Spent' = Spent
      <3>1. fate' = [fate EXCEPT ![k] = "stored"]
        BY <2>1 DEF StoreCVVToken
      <3>2. \A j \in TokenIDs : Ended(j)' <=> Ended(j)
        BY <1>1, <1>2, <2>2, <3>1 DEF Ended, Around, Inv, TypeOK, RedisTypeOK
      <3> QED
        BY <3>2, SpentHaveEnded, SpentHaveEndedNext DEF Around
    <2>8. Directory' = Directory
      BY <1>2, DirectoryStays DEF SameRows
    <2>9. live \in Contract!LiveCVVs
      BY <1>1 DEF Contract!LiveCVVs
    <2> QED
      BY <1>1, <1>2, <2>4, <2>6, <2>7, <2>8, <2>9, ClientsStay DEF Contract!IssueCVV
  <1> QED
    BY <1>3, <1>4

\* UPDATE of the status retires the token.
LEMMA DeactivateStep ==
  ASSUME Around, NEW r \in Requests, DeactivateUpdateStatus(r)
  PROVE  (\E k \in TokenIDs : Contract!Retire(k)) \/ UNCHANGED Contract!contractVars
PROOF
  <1> DEFINE k == req[r].token
             t == req[r].tenant
  <1>1. /\ t \in Tenants /\ k \in TokenIDs /\ req[r].op = "deactivate"
    BY DEF DeactivateUpdateStatus, Around, Inv, HandlerOK, TokenSteps, TokenInputs
  <1>2. SameClients /\ UNCHANGED <<cvvtok, fate>>
    BY <1>1 DEF DeactivateUpdateStatus, SameClients, redisVars, Around, Inv, TypeOK
  <1>3. CASE UNCHANGED tokens
    BY <1>2, <1>3, QuietStep DEF Around
  <1>4. CASE ~ UNCHANGED tokens
    <2>1. UpdateStatus(t, k, "inactive") /\ FindByTokenID(t, k) # Nil
      BY <1>4 DEF DeactivateUpdateStatus, UpdateStatus
    <2>2. tokens[k] # Nil /\ tokens[k] \in TokenRows
      BY <1>1, <2>1 DEF FindByTokenID, Around, Inv, TypeOK, DbTypeOK
    <2>3. SameRows
      BY <1>1, <2>1, UpdatesKeepRows DEF SameRows, Around, Inv, TypeOK
    <2>4. tokens' = [tokens EXCEPT ![k] = [tokens[k] EXCEPT !.status = "inactive"]]
      BY <2>1 DEF UpdateStatus
    <2>5. /\ tokens'[k] # Nil /\ tokens'[k].status = "inactive"
          /\ \A j \in TokenIDs : j # k => tokens'[j] = tokens[j]
      <3>1. tokens'[k] = [tokens[k] EXCEPT !.status = "inactive"]
        BY <1>1, <2>4 DEF Around, Inv, TypeOK, DbTypeOK
      <3>2. tokens'[k].status = "inactive"
        BY <2>2, <3>1 DEF TokenRows
      <3> QED
        BY <1>1, <2>2, <2>3, <2>4, <3>2 DEF SameRows, Around, Inv, TypeOK, DbTypeOK
    <2>6. Spent' = Spent \cup {k}
      <3>1. \A j \in TokenIDs : Ended(j)' <=> Ended(j) \/ j = k
        BY <1>2, <2>5 DEF Ended
      <3> QED
        BY <1>1, <3>1, SpentHaveEnded, SpentHaveEndedNext DEF Around
    <2>7. Contract!Bound(k)
      BY <1>1, <2>2, DirectoryHas DEF Contract!Bound, Contract!Cards, Around
    <2>8. CVVTokens' = CVVTokens
      BY <1>2 DEF CVVTokens
    <2>9. Directory' = Directory
      BY <2>3, DirectoryStays
    <2> QED
      BY <1>1, <1>2, <2>6, <2>7, <2>8, <2>9, ClientsStay DEF Contract!Retire
  <1> QED
    BY <1>3, <1>4

\* A detokenize handler past its lookup serves a client whose token was usable.
LEMMA ClientIsUsable ==
  ASSUME Inv, NEW r \in Requests, req[r] \in TokenInputs, req[r].op = "detokenize", ~ late[r]
  PROVE  /\ Asked[r] # Nil /\ Asked[r].usable
         /\ Asked[r].tenant = req[r].tenant /\ Asked[r].token = req[r].token
PROOF
  <1> DEFINE ask == [tenant |-> req[r].tenant, token |-> req[r].token, usable |-> ~ late[r]]
  <1>1. ask \in [tenant : Tenants, token : TokenIDs, usable : BOOLEAN]
    BY DEF TokenInputs
  <1>2. Asked[r] = ask
    BY DEF Asked
  <1>3. ask # Nil
    BY <1>1, NoRecordAssumption
  <1>4. ask.tenant = req[r].tenant /\ ask.token = req[r].token /\ ask.usable = (~ late[r])
    OBVIOUS
  <1> HIDE DEF ask
  <1>5. Asked[r].usable = (~ late[r])
    BY <1>2, <1>4
  <1>6. Asked[r].usable
    BY <1>5, Zenon
  <1> QED
    BY <1>2, <1>3, <1>4, <1>6

\* What a client gets becomes what is revealed to it.
LEMMA RevealedToClient ==
  ASSUME Inv, NEW r \in Requests, NEW v, req[r].op = "detokenize", UNCHANGED req,
         val' = [val EXCEPT ![r] = v]
  PROVE  Revealed' = [Revealed EXCEPT ![r] = v]
PROOF
  BY DEF Revealed, Inv, TypeOK

\* Unwrapping and opening the vault entry reveals the PAN of the directory.
LEMMA DecryptPANStep ==
  ASSUME Around, NEW r \in Requests, DetokenizeDecryptPAN(r)
  PROVE  (\E p \in PANs : Contract!RevealPAN(r, p)) \/ UNCHANGED Contract!contractVars
PROOF
  <1> DEFINE k == req[r].token
             t == req[r].tenant
             s == k[2]
             ve == VaultFindByTokenID(t, k)
  <1>1. /\ req[r] \in TokenInputs /\ k \in TokenIDs /\ t \in Tenants
        /\ req[r].op = "detokenize" /\ val[r] = Nil /\ ~ late[r] /\ tokens[k] # Nil
    BY DEF DetokenizeDecryptPAN, Around, Inv, HandlerOK, TokenSteps, TokenInputs, CVVTokensOK,
           TimelyOK, LateOK
  <1>2. UNCHANGED <<tokens, cvvtok, fate, req, late>>
    BY DEF DetokenizeDecryptPAN, dbVars, redisVars
  <1>3. CASE UNCHANGED val
    <2>1. SameClients
      BY <1>2, <1>3 DEF SameClients
    <2> QED
      BY <1>2, <2>1, QuietStep DEF Around
  <1>4. CASE ~ UNCHANGED val
    <2>1. /\ ve # Nil
          /\ val' = [val EXCEPT ![r] = Decrypt(ve.ciphertext, UnwrapKey(ve.dekEncrypted))]
      BY <1>4 DEF DetokenizeDecryptPAN
    <2>2. vault[k] # Nil /\ ve = vault[k] /\ vault[k].tenant = t
      BY <2>1 DEF VaultFindByTokenID
    <2>3. /\ req[s].tenant = t /\ vault[k].ciphertext = Encrypt(req[s].pan, k)
          /\ vault[k].dekEncrypted.dek = k /\ req[s].pan \in PANs
      BY <1>1, <2>2 DEF Around, StoredOK
    <2>4. val' = [val EXCEPT ![r] = req[s].pan]
      BY <2>1, <2>2, <2>3 DEF Decrypt, Encrypt, UnwrapKey
    <2>5. Directory[<<t, req[s].pan>>] = k
      BY <1>1, <2>3, DirectoryHas DEF Around
    <2>6. Revealed[r] = Nil /\ Revealed' = [Revealed EXCEPT ![r] = req[s].pan]
      BY <1>1, <1>2, <2>4, RevealedToClient DEF Revealed, Around
    <2>7. Asked' = Asked /\ CVVTokens' = CVVTokens
      BY <1>2 DEF Asked, CVVTokens
    <2>8. Spent' = Spent /\ Directory' = Directory
      BY <1>2, SpentStay DEF Around, SameRows, SameFates
    <2> QED
      BY <1>1, <2>3, <2>5, <2>6, <2>7, <2>8, ClientIsUsable DEF Contract!RevealPAN, Around
  <1> QED
    BY <1>3, <1>4

\* GETDEL reveals the CVV of a live token, or takes it from the client that asked.
LEMMA RetrieveCVVTokenStep ==
  ASSUME Around, NEW r \in Requests, DetokenizeRetrieveCVVToken(r)
  PROVE  \/ \E c \in CVVs : Contract!RevealCVV(r, c)
         \/ \E k \in TokenIDs : Contract!DropCVV(k)
         \/ UNCHANGED Contract!contractVars
PROOF
  <1> DEFINE k == req[r].token
             t == req[r].tenant
             sealed == cvvtok[<<t, k>>]
  <1>1. /\ req[r] \in TokenInputs /\ k \in TokenIDs /\ t \in Tenants
        /\ req[r].op = "detokenize" /\ val[r] = Nil
    BY DEF DetokenizeRetrieveCVVToken, Around, Inv, HandlerOK, TokenSteps, TokenInputs
  <1>2. UNCHANGED <<tokens, req, late>>
    BY DEF DetokenizeRetrieveCVVToken, dbVars
  <1>3. CASE UNCHANGED val
    <2>1. SameClients
      BY <1>2, <1>3 DEF SameClients
    <2>2. RetrieveCVVToken(t, k) \/ UNCHANGED redisVars
      BY <1>3 DEF DetokenizeRetrieveCVVToken
    <2>3. CASE RetrieveCVVToken(t, k)
      BY <1>1, <1>2, <2>1, <2>3, KeyRemoved DEF Around
    <2>4. CASE UNCHANGED redisVars
      BY <1>2, <2>1, <2>4, QuietStep DEF Around, redisVars
    <2> QED
      BY <2>2, <2>3, <2>4
  <1>4. CASE ~ UNCHANGED val
    <2>1. /\ sealed # Nil /\ RetrieveCVVToken(t, k)
          /\ val' = [val EXCEPT ![r] = Decrypt(sealed, sealed.dek)]
      BY <1>4 DEF DetokenizeRetrieveCVVToken
    <2>2. sealed \in SealedCVVs
      BY <1>1, <2>1 DEF Around, Inv, TypeOK, RedisTypeOK, RedisKeys
    <2>3. sealed.text \in CVVs /\ val' = [val EXCEPT ![r] = sealed.text]
      BY <2>1, <2>2 DEF SealedCVVs, Decrypt
    <2>4. /\ CVVTokens[k] = [tenant |-> t, cvv |-> sealed.text]
          /\ CVVTokens' = [CVVTokens EXCEPT ![k] = Nil]
          /\ Spent' = Spent \cup {k} /\ Directory' = Directory
      BY <1>1, <1>2, <2>1, KeyGoes DEF RetrieveCVVToken, Around
    <2>5. ~ late[r]
      BY <1>1, <2>1, NothingOfEndedTokens DEF Around, TimelyOK, LateOK
    <2>6. Revealed[r] = Nil /\ Revealed' = [Revealed EXCEPT ![r] = sealed.text]
      BY <1>1, <1>2, <2>3, RevealedToClient DEF Revealed, Around
    <2>7. Asked' = Asked
      BY <1>2 DEF Asked
    <2>8. /\ Asked[r] # Nil /\ Asked[r].usable
          /\ Asked[r].tenant = t /\ Asked[r].token = k
      BY <1>1, <2>5, ClientIsUsable DEF Around
    <2> HIDE DEF k, t, sealed
    <2>9. Contract!RevealCVV(r, sealed.text)
      BY <2>4, <2>6, <2>7, <2>8 DEF Contract!RevealCVV
    <2> QED
      BY <2>3, <2>9
  <1> QED
    BY <1>3, <1>4

\* A detokenize request that arrives asks, and is judged by what is spent by then.
LEMMA BeginStep ==
  ASSUME Around, NEW r \in Requests, NEW a \in TokenizeInputs \cup TokenInputs, Begin(r, a)
  PROVE  \/ \E t \in Tenants, k \in TokenIDs : Contract!Ask(r, t, k)
         \/ UNCHANGED Contract!contractVars
PROOF
  <1>1. /\ req[r] = NoRequest /\ req' = [req EXCEPT ![r] = a]
        /\ UNCHANGED <<tokens, cvvtok, fate, val>>
        /\ late' = [late EXCEPT ![r] = a.token # Nil /\ Dead(a.token)]
    BY DEF Begin, dbVars, redisVars, Around, Inv, HandlerOK
  <1>2. \A q \in Requests : q # r => req'[q] = req[q] /\ late'[q] = late[q]
    BY <1>1
  <1>3. req'[r] = a /\ req[r].op = "none" /\ val[r] = Nil
    BY <1>1 DEF Around, Inv, TypeOK, HandlerOK, NoRequest, Begin
  <1>4. CASE a.op # "detokenize"
    <2>1. Asked' = Asked /\ Revealed' = Revealed
      BY <1>1, <1>2, <1>3, <1>4 DEF Asked, Revealed
    <2>2. Spent' = Spent /\ Directory' = Directory
      BY <1>1, SpentStay DEF Around, SameRows, SameFates
    <2>3. CVVTokens' = CVVTokens
      BY <1>1 DEF CVVTokens
    <2> QED
      BY <2>1, <2>2, <2>3 DEF Contract!contractVars
  <1>5. CASE a.op = "detokenize"
    <2>1. a.token \in TokenIDs /\ a.tenant \in Tenants
      BY <1>5 DEF TokenizeInputs, TokenInputs
    <2>2. Spent' = Spent /\ Directory' = Directory
      BY <1>1, SpentStay DEF Around, SameRows, SameFates
    <2>3. CVVTokens' = CVVTokens
      BY <1>1 DEF CVVTokens
    <2>4. Revealed' = Revealed
      BY <1>1, <1>2, <1>3, <1>5 DEF Revealed
    <2>5. late'[r] = (a.token \in Spent)
      <3>1. late'[r] = (a.token # Nil /\ Dead(a.token))
        BY <1>1 DEF Around, Inv, TypeOK
      <3> QED
        BY <2>1, <3>1, NoKeyAssumption DEF Spent
    <2>6. Asked[r] = Nil
      BY <1>3 DEF Asked
    <2>7. Asked' = [Asked EXCEPT ![r] = [tenant |-> a.tenant, token |-> a.token,
                                         usable |-> a.token \notin Spent]]
      BY <1>2, <1>3, <1>5, <2>5 DEF Asked
    <2> QED
      BY <2>1, <2>2, <2>3, <2>4, <2>6, <2>7 DEF Contract!Ask
  <1> QED
    BY <1>4, <1>5

-----------------------------------------------------------------------------
(* The whole service *)

\* What a step may be for the contract.
Implemented == Contract!Next \/ UNCHANGED Contract!contractVars

\* Steps of the tokenize handler.
LEMMA TokenizeSimulated ==
  ASSUME Around, NEW r \in Requests, Tokenize(r)
  PROVE  Implemented
PROOF
  <1>1. CASE TokenizeTokenCreate(r)
    BY <1>1, TokenCreateStep DEF Implemented, Contract!Next
  <1>2. CASE TokenizeStoreCVVToken(r)
    BY <1>2, StoreCVVTokenStep DEF Implemented, Contract!Next
  <1>3. CASE TokenizeDelPrevious(r)
    <2>1. req[r].tenant \in Tenants /\ prev[r] \in TokenIDs
      BY <1>3
      DEF TokenizeDelPrevious, Around, Inv, TypeOK, HandlerOK, TokenizeSteps, TokenizeInputs
    <2>2. SameClients /\ UNCHANGED tokens
      BY <1>3 DEF TokenizeDelPrevious, SameClients, dbVars
    <2>3. DeleteCVVToken(req[r].tenant, prev[r]) \/ UNCHANGED redisVars
      BY <1>3 DEF TokenizeDelPrevious
    <2>4. CASE DeleteCVVToken(req[r].tenant, prev[r])
      BY <2>1, <2>2, <2>4, KeyRemoved DEF Around, Implemented, Contract!Next
    <2>5. CASE UNCHANGED redisVars
      BY <2>2, <2>5, QuietStep DEF Around, Implemented, redisVars
    <2> QED
      BY <2>3, <2>4, <2>5
  <1>4. CASE \/ TokenizeFindByBlindIndex(r) \/ TokenizeEncryptPAN(r) \/ TokenizeVaultCreate(r)
             \/ TokenizeAuditPAN(r) \/ TokenizeGetOwner(r) \/ TokenizeSetOwner(r)
             \/ TokenizeAuditCVV(r)
    <2>1. UNCHANGED <<tokens, cvvtok, fate>> /\ SameClients
      BY <1>4
      DEF TokenizeFindByBlindIndex, TokenizeEncryptPAN, TokenizeVaultCreate, TokenizeAuditPAN,
          TokenizeGetOwner, TokenizeSetOwner, SetCVVTokenOwner, TokenizeAuditCVV, dbVars,
          redisVars, SameClients
    <2> QED
      BY <2>1, QuietStep DEF Around, Implemented
  <1> QED
    BY <1>1, <1>2, <1>3, <1>4 DEF Tokenize

\* Steps of the handlers that use a token.
LEMMA UseTokenSimulated ==
  ASSUME Around, NEW r \in Requests, UseToken(r)
  PROVE  Implemented
PROOF
  <1>1. CASE DetokenizeDecryptPAN(r)
    BY <1>1, DecryptPANStep DEF Implemented, Contract!Next
  <1>2. CASE DetokenizeRetrieveCVVToken(r)
    BY <1>2, RetrieveCVVTokenStep DEF Implemented, Contract!Next
  <1>3. CASE DeactivateUpdateStatus(r)
    BY <1>3, DeactivateStep DEF Implemented, Contract!Next
  <1>4. CASE DetokenizeUpdateLastUsed(r)
    <2>1. req[r].tenant \in Tenants /\ req[r].token \in TokenIDs
      BY <1>4 DEF DetokenizeUpdateLastUsed, Around, Inv, HandlerOK, TokenSteps, TokenInputs
    <2>2. UNCHANGED <<cvvtok, fate>> /\ SameClients
      BY <1>4 DEF DetokenizeUpdateLastUsed, redisVars, SameClients
    <2>3. CASE UNCHANGED tokens
      BY <2>2, <2>3, QuietStep DEF Around, Implemented
    <2>4. CASE UpdateLastUsed(req[r].tenant, req[r].token)
      <3>1. SameRows
        BY <2>1, <2>4, UpdatesKeepRows DEF SameRows, Around, Inv, TypeOK
      <3>2. ASSUME NEW k \in TokenIDs, tokens[k] # Nil
            PROVE  tokens'[k].status = tokens[k].status
        <4>1. tokens \in [TokenIDs -> TokenRows \cup {Nil}] /\ tokens[k] \in TokenRows
          BY <3>2 DEF Around, Inv, TypeOK, DbTypeOK
        <4>2. tokens'[k] = tokens[k] \/ tokens'[k] = [tokens[k] EXCEPT !.used = TRUE]
          BY <2>1, <2>4, <4>1 DEF UpdateLastUsed
        <4> QED
          BY <4>1, <4>2 DEF TokenRows
      <3>3. SameFates
        BY <2>2, <3>2 DEF SameFates
      <3> QED
        BY <2>2, <3>1, <3>3, UnseenStep DEF Around, Implemented
    <2> QED
      BY <1>4, <2>3, <2>4 DEF DetokenizeUpdateLastUsed
  <1>5. CASE \/ DetokenizeFindByTokenID(r) \/ StatusFindByTokenID(r) \/ StatusExistsCVVToken(r)
             \/ DeactivateFindByTokenID(r) \/ AuditAndAnswer(r)
    <2>1. UNCHANGED <<tokens, cvvtok, fate>> /\ SameClients
      BY <1>5
      DEF DetokenizeFindByTokenID, StatusFindByTokenID, StatusExistsCVVToken,
          DeactivateFindByTokenID, AuditAndAnswer, dbVars, redisVars, SameClients, Around, Inv,
          TypeOK, HandlerOK
    <2> QED
      BY <2>1, QuietStep DEF Around, Implemented
  <1> QED
    BY <1>1, <1>2, <1>3, <1>4, <1>5 DEF UseToken

\* Every step of the tokenizer.
LEMMA StepSimulated ==
  ASSUME Around, [Next]_vars
  PROVE  Implemented
PROOF
  <1>1. ASSUME NEW r \in Requests, Reject(r) \/ Crash(r)
        PROVE  Implemented
    <2>1. UNCHANGED <<tokens, cvvtok, fate>> /\ SameClients
      BY <1>1 DEF Reject, Crash, dbVars, redisVars, SameClients
    <2> QED
      BY <2>1, QuietStep DEF Around, Implemented
  <1>2. ASSUME NEW r \in Requests, Receive(r)
        PROVE  Implemented
    <2>1. PICK a \in TokenizeInputs \cup TokenInputs : Begin(r, a)
      BY <1>2 DEF Receive
    <2> QED
      BY <2>1, BeginStep DEF Implemented, Contract!Next
  <1>3. ASSUME NEW t \in Tenants, NEW k \in TokenIDs, RedisExpiry(t, k)
        PROVE  Implemented
    <2>1. UNCHANGED tokens /\ SameClients
      BY <1>3 DEF RedisExpiry, dbVars, handlerVars, SameClients
    <2>2. CASE CVVTokenExpires(t, k)
      BY <2>1, <2>2, KeyRemoved DEF Around, Implemented, Contract!Next
    <2>3. CASE CVVTokenOwnerExpires(t, k)
      BY <2>1, <2>3, QuietStep DEF CVVTokenOwnerExpires, Around, Implemented
    <2> QED
      BY <1>3, <2>2, <2>3 DEF RedisExpiry
  <1>4. CASE (\E t \in Tenants : TenantDeactivated(t)) \/ UNCHANGED vars
    <2>1. UNCHANGED <<tokens, cvvtok, fate>> /\ SameClients
      BY <1>4
      DEF TenantDeactivated, DeactivateTenant, vars, dbVars, redisVars, handlerVars, SameClients
    <2> QED
      BY <2>1, QuietStep DEF Around, Implemented
  <1> QED
    BY <1>1, <1>2, <1>3, <1>4, TokenizeSimulated, UseTokenSimulated DEF Next

\* The tokenizer starts with an empty directory.
LEMMA ContractStart ==
  ASSUME Init
  PROVE  Contract!Init
PROOF
  <1>1. Directory = [card \in Contract!Cards |-> Nil]
    <2>1. \A t, bi : FindByBlindIndex(t, bi) = {}
      BY DEF Init, DbInit, FindByBlindIndex
    <2> QED
      BY <2>1 DEF Directory, Contract!Cards
  <1>2. CVVTokens = [k \in TokenIDs |-> Nil]
    BY DEF Init, RedisInit, RedisKeys, CVVTokens
  <1>3. Spent = {}
    BY DEF Init, DbInit, RedisInit, Spent, Dead, KnownInactive, NoRequest
  <1>4. /\ Asked = [r \in Requests |-> Nil]
        /\ Revealed = [r \in Requests |-> Nil]
    BY DEF Init, Asked, Revealed, NoRequest
  <1> QED
    BY <1>1, <1>2, <1>3, <1>4 DEF Contract!Init

\* ImplementsContract: the handlers, with all their interleavings, failures and
\* expiries, keep the promises of VaultContract: one token per card for ever, spent
\* tokens stay spent, a CVV is revealed once, and reveals say what was tokenized.
THEOREM TokenizerImplementsContract == Spec => ImplementsContract
PROOF
  <1>1. Init => Contract!Init
    BY ContractStart
  <1>2. Inv /\ AnswerInv /\ (Inv /\ AnswerInv)' /\ [Next]_vars
          => [UNCHANGED Contract!contractVars \/ Contract!Next]_(Contract!contractVars)
    BY StepSimulated DEF Around, AnswerInv, TimelyOK, Implemented
  <1> QED
    BY <1>1, <1>2, AnswerInvariant, PTL DEF Spec, ImplementsContract

-----------------------------------------------------------------------------
(* The inductive invariant *)

TimesLeft == IF CVVTTL > 0 THEN Gone..CVVTTL ELSE {Persistent, Gone}

TimersOK ==
  /\ tokenLeft \in [RedisKeys -> TimesLeft]
  /\ ownerLeft \in [RedisKeys -> TimesLeft]
  /\ \A key \in RedisKeys : /\ cvvtok[key] = Nil => tokenLeft[key] = Gone
                            /\ cvvtokOwner[key] = Nil => ownerLeft[key] = Gone

TimedInv == Inv /\ OwnerInv /\ TimersOK /\ OwnerOutlivesToken

-----------------------------------------------------------------------------
(* What a step of the tokenizer does to the keys *)

\* Only storeCVVToken puts a CVV token where there was none, one never stored before.
LEMMA NothingStoredTwice ==
  ASSUME TypeOK, HandlerOK, CVVTokensOK, NEW r \in Requests, Tokenize(r) \/ UseToken(r),
         NEW t \in Tenants, NEW j \in TokenIDs,
         cvvtok'[<<t, j>>] # Nil, cvvtok'[<<t, j>>] # cvvtok[<<t, j>>]
  PROVE  fate[j] = "none"
PROOF
  <1>1. <<t, j>> \in RedisKeys
    BY DEF RedisKeys
  <1>2. \A u, k : ~ RetrieveCVVToken(u, k) /\ ~ DeleteCVVToken(u, k)
    BY <1>1 DEF RetrieveCVVToken, DeleteCVVToken, TypeOK, RedisTypeOK
  <1>3. TokenizeStoreCVVToken(r) /\ ~ UNCHANGED redisVars
    BY <1>2
       DEF Tokenize, UseToken, redisVars, TokenizeFindByBlindIndex, TokenizeEncryptPAN,
           TokenizeTokenCreate, TokenizeVaultCreate, TokenizeAuditPAN, TokenizeStoreCVVToken,
           TokenizeGetOwner, TokenizeDelPrevious, TokenizeSetOwner, SetCVVTokenOwner,
           TokenizeAuditCVV, DetokenizeFindByTokenID, DetokenizeDecryptPAN,
           DetokenizeUpdateLastUsed, DetokenizeRetrieveCVVToken, StatusFindByTokenID,
           StatusExistsCVVToken, DeactivateFindByTokenID, DeactivateUpdateStatus, AuditAndAnswer
  <1>4. fate[CvvTok(r)] = "none"
    BY <1>3 DEF TokenizeStoreCVVToken, CVVTokensOK, StepsBeforeStore
  <1>5. j = CvvTok(r)
    BY <1>1, <1>3 DEF TokenizeStoreCVVToken, StoreCVVToken, TypeOK, RedisTypeOK
  <1> QED
    BY <1>4, <1>5

\* Arrivals, deaths and deactivations of tenants leave the keys alone.
LEMMA OtherStepsKeepKeys ==
  ASSUME \/ \E r \in Requests : Reject(r) \/ Receive(r) \/ Crash(r)
         \/ \E t \in Tenants : TenantDeactivated(t)
  PROVE  UNCHANGED redisVars
PROOF
  BY DEF Reject, Receive, Begin, Crash, TenantDeactivated

-----------------------------------------------------------------------------
(* What a step does to the timers *)

\* A TTL is one of the times a key can have left.
LEMMA TTLInRange == TokenTTL \in TimesLeft /\ OwnerTTL \in TimesLeft /\ Gone \in TimesLeft
PROOF
  BY CVVTTLAssumption DEF TokenTTL, OwnerTTL, SetTTL, TimesLeft, Persistent, Gone

\* Every command leaves every timer in its range, and none to a key that is not there.
LEMMA CommandsKeepTimers ==
  ASSUME TimersOK, RunTimers
  PROVE  TimersOK'
PROOF
  BY TTLInRange DEF TimersOK, RunTimers, Restart

\* The owner key stays ahead of the token it names: it has been given its time
\* after the token, as much of it, and the token gets no more.
LEMMA CommandsKeepOwnersAhead ==
  ASSUME RedisTypeOK, RedisTypeOK', OwnersOK, TimersOK, TimersOK', OwnerOutlivesToken, RunTimers,
         \A t \in Tenants, j \in TokenIDs :
           cvvtok'[<<t, j>>] # Nil /\ cvvtok'[<<t, j>>] # cvvtok[<<t, j>>] => fate[j] = "none"
  PROVE  OwnerOutlivesToken'
PROOF
  <1> SUFFICES ASSUME NEW t \in Tenants, NEW k \in TokenIDs, NEW c, c = cvvtokOwner'[<<t, k>>],
                      c # Nil, cvvtok'[<<t, c>>] # Nil, ownerLeft'[<<t, k>>] # Persistent
               PROVE  /\ tokenLeft'[<<t, c>>] # Persistent
                      /\ ownerLeft'[<<t, k>>] >= tokenLeft'[<<t, c>>]
    BY DEF OwnerOutlivesToken
  <1>1. <<t, k>> \in RedisKeys /\ c \in TokenIDs /\ <<t, c>> \in RedisKeys
    BY DEF RedisTypeOK, RedisKeys
  <1>2. CASE cvvtokOwner[<<t, k>>] # c
    <2>1. ownerLeft'[<<t, k>>] = OwnerTTL
      BY <1>1, <1>2 DEF RunTimers, Restart
    <2>2. tokenLeft'[<<t, c>>] \in TimesLeft
      BY <1>1 DEF TimersOK
    <2> QED
      BY <2>1, <2>2, CVVTTLAssumption DEF OwnerTTL, SetTTL, TimesLeft, Persistent, Gone
  <1>3. CASE cvvtokOwner[<<t, k>>] = c
    <2>1. fate[c] # "none" /\ cvvtok'[<<t, c>>] = cvvtok[<<t, c>>]
      BY <1>1, <1>3, TokensOfPAN DEF OwnersOK
    <2>2. ownerLeft'[<<t, k>>] = ownerLeft[<<t, k>>] /\ tokenLeft'[<<t, c>>] = tokenLeft[<<t, c>>]
      BY <1>1, <1>3, <2>1 DEF RunTimers, Restart
    <2> QED
      BY <1>3, <2>1, <2>2 DEF OwnerOutlivesToken
  <1> QED
    BY <1>2, <1>3

\* Time passes for both keys alike.
LEMMA TickKeepsTimers ==
  ASSUME RedisTypeOK, TimersOK, OwnerOutlivesToken, Tick
  PROVE  TimersOK' /\ OwnerOutlivesToken'
PROOF
  <1>1. UNCHANGED <<cvvtok, cvvtokOwner>>
    BY DEF Tick, vars, redisVars
  <1>2. \A i \in TimesLeft : i \in Int /\ (IF i > 0 THEN i - 1 ELSE i) \in TimesLeft
    BY CVVTTLAssumption DEF TimesLeft, Persistent, Gone
  <1>3. TimersOK'
    <2>1. ASSUME NEW left \in [RedisKeys -> TimesLeft]
          PROVE  /\ CountDown(left) \in [RedisKeys -> TimesLeft]
                 /\ \A key \in RedisKeys : left[key] = Gone => CountDown(left)[key] = Gone
      <3>1. \A key \in RedisKeys : left[key] \in TimesLeft
        OBVIOUS
      <3> QED
        BY <1>2, <3>1 DEF CountDown, Gone
    <2> QED
      BY <1>1, <2>1 DEF TimersOK, Tick
  <1>4. OwnerOutlivesToken'
    <2> SUFFICES ASSUME NEW t \in Tenants, NEW k \in TokenIDs, NEW c, c = cvvtokOwner'[<<t, k>>],
                        c # Nil, cvvtok'[<<t, c>>] # Nil, ownerLeft'[<<t, k>>] # Persistent
                 PROVE  /\ tokenLeft'[<<t, c>>] # Persistent
                        /\ ownerLeft'[<<t, k>>] >= tokenLeft'[<<t, c>>]
      BY DEF OwnerOutlivesToken
    <2> c = cvvtokOwner[<<t, k>>] /\ cvvtok[<<t, c>>] # Nil
      BY <1>1
    <2>1. <<t, k>> \in RedisKeys /\ <<t, c>> \in RedisKeys
      BY DEF RedisTypeOK, RedisKeys
    <2>2. ownerLeft[<<t, k>>] # Gone /\ tokenLeft[<<t, c>>] # Gone
      BY <2>1 DEF Tick, SomethingDue, TokenDue, OwnerDue
    <2>3. /\ ownerLeft[<<t, k>>] \in TimesLeft \cap Int
          /\ tokenLeft[<<t, c>>] \in TimesLeft \cap Int
      BY <1>2, <2>1 DEF TimersOK
    <2>4. ownerLeft[<<t, k>>] # Persistent
      BY <2>1 DEF Tick, CountDown, Persistent, TimersOK
    <2>5. /\ tokenLeft[<<t, c>>] # Persistent
          /\ ownerLeft[<<t, k>>] >= tokenLeft[<<t, c>>]
      BY <2>4 DEF OwnerOutlivesToken
    <2>6. tokenLeft[<<t, c>>] > 0 /\ ownerLeft[<<t, k>>] > 0
      BY <2>2, <2>3, <2>4, <2>5, CVVTTLAssumption DEF TimesLeft, Persistent, Gone
    <2>7. /\ ownerLeft'[<<t, k>>] = ownerLeft[<<t, k>>] - 1
          /\ tokenLeft'[<<t, c>>] = tokenLeft[<<t, c>>] - 1
      BY <2>1, <2>6 DEF Tick, CountDown
    <2> QED
      BY <2>3, <2>5, <2>6, <2>7 DEF Persistent
  <1> QED
    BY <1>3, <1>4

-----------------------------------------------------------------------------
(* A key that is due may go in the untimed system, too *)

\* When the timer of an owner key has run out, the key of the token it names is gone.
LEMMA DueOwnersMayExpire ==
  ASSUME RedisTypeOK, TimersOK, OwnerOutlivesToken,
         NEW t \in Tenants, NEW k \in TokenIDs, ExpireOwner(t, k)
  PROVE  RedisExpiry(t, k)
PROOF
  <1> DEFINE c == cvvtokOwner[<<t, k>>]
  <1>1. <<t, k>> \in RedisKeys /\ c # Nil /\ ownerLeft[<<t, k>>] = Gone
    BY DEF ExpireOwner, OwnerDue, RedisKeys
  <1>2. c \in TokenIDs /\ <<t, c>> \in RedisKeys
    BY <1>1 DEF RedisTypeOK, RedisKeys
  <1>3. ASSUME cvvtok[<<t, c>>] # Nil
        PROVE  FALSE
    <2>1. tokenLeft[<<t, c>>] # Persistent /\ Gone >= tokenLeft[<<t, c>>]
      BY <1>1, <1>3 DEF OwnerOutlivesToken, Persistent, Gone
    <2>2. tokenLeft[<<t, c>>] = Gone
      BY <1>2, <2>1, CVVTTLAssumption DEF TimersOK, TimesLeft, Persistent, Gone
    <2> QED
      BY <1>2, <1>3, <2>2 DEF ExpireOwner, TokenDue
  <1> QED
    BY <1>1, <1>3 DEF ExpireOwner, RedisExpiry, CVVTokenOwnerExpires

-----------------------------------------------------------------------------
(* Every step *)

\* A command, an arrival or a death is a step of the untimed system that runs the timers.
LEMMA CommandSteps ==
  ASSUME TimedInv, RunTimers,
         \/ \E r \in Requests : Reject(r) \/ Receive(r) \/ Crash(r) \/ Tokenize(r) \/ UseToken(r)
         \/ \E t \in Tenants : TenantDeactivated(t)
  PROVE  Next /\ TimedInv'
PROOF
  <1>1. Next
    BY DEF Next
  <1>2. Inv' /\ OwnerInv'
    BY <1>1, InvariantStep, OwnerStep DEF TimedInv
  <1>3. /\ TypeOK /\ HandlerOK /\ CVVTokensOK /\ OwnersOK /\ TimersOK /\ OwnerOutlivesToken
        /\ RedisTypeOK /\ RedisTypeOK'
    BY <1>2 DEF TimedInv, Inv, OwnerInv, TypeOK
  <1>5. \A t \in Tenants, j \in TokenIDs :
          cvvtok'[<<t, j>>] # Nil /\ cvvtok'[<<t, j>>] # cvvtok[<<t, j>>] => fate[j] = "none"
    BY <1>3, NothingStoredTwice, OtherStepsKeepKeys DEF redisVars
  <1>6. TimersOK'
    BY <1>3, CommandsKeepTimers
  <1>7. OwnerOutlivesToken'
    BY <1>3, <1>5, <1>6, CommandsKeepOwnersAhead
  <1> QED
    BY <1>1, <1>2, <1>6, <1>7 DEF TimedInv

\* A key that goes when its time is up takes nothing but itself.
LEMMA ExpirySteps ==
  ASSUME TimedInv, NEW t \in Tenants, NEW k \in TokenIDs, ExpireToken(t, k) \/ ExpireOwner(t, k)
  PROVE  RedisExpiry(t, k) /\ TimedInv'
PROOF
  <1>1. TimersOK /\ OwnerOutlivesToken /\ RedisTypeOK
    BY DEF TimedInv, Inv, TypeOK
  <1>2. RedisExpiry(t, k)
    BY <1>1, DueOwnersMayExpire DEF ExpireToken, RedisExpiry
  <1>3. Inv' /\ OwnerInv'
    BY <1>2, InvariantStep, OwnerStep DEF TimedInv, Next
  <1>5. \A key \in RedisKeys :
          /\ cvvtok'[key] = IF key = <<t, k>> /\ ExpireToken(t, k) THEN Nil ELSE cvvtok[key]
          /\ cvvtokOwner'[key] = IF key = <<t, k>> /\ ExpireOwner(t, k) THEN Nil
                                 ELSE cvvtokOwner[key]
    BY <1>1 DEF RedisTypeOK, ExpireToken, ExpireOwner, CVVTokenExpires, TokenDue
  <1>6. TimersOK'
    BY <1>1, <1>5 DEF TimersOK, ExpireToken, ExpireOwner, TokenDue, OwnerDue, timers
  <1>7. OwnerOutlivesToken'
    BY <1>1, <1>5 DEF OwnerOutlivesToken, ExpireToken, ExpireOwner, timers, RedisKeys, RedisTypeOK
  <1> QED
    BY <1>2, <1>3, <1>6, <1>7 DEF TimedInv

\* Every timed step is a step of Tokenizer and keeps the timers in order.
LEMMA TimedStep ==
  ASSUME TimedInv, [TimedNext]_timedVars
  PROVE  [Next]_vars /\ TimedInv'
PROOF
  <1>1. CASE \E r \in Requests : Arrive(r) \/ Serve(r) \/ Die(r)
    BY <1>1, CommandSteps DEF Arrive, Serve, Die
  <1>2. CASE \E t \in Tenants : Administer(t)
    BY <1>2, CommandSteps DEF Administer
  <1>3. CASE Tick
    <2>1. UNCHANGED vars
      BY <1>3 DEF Tick
    <2>2. Inv' /\ OwnerInv'
      BY <2>1, InvariantStep, OwnerStep DEF TimedInv
    <2> QED
      BY <1>3, <2>1, <2>2, TickKeepsTimers DEF TimedInv, Inv, TypeOK
  <1>4. CASE Expire
    BY <1>4, ExpirySteps DEF Expire, Next
  <1>5. CASE UNCHANGED timedVars
    <2>1. UNCHANGED <<vars, tokenLeft, ownerLeft>>
      BY <1>5 DEF timedVars, timers
    <2>2. Inv' /\ OwnerInv'
      BY <2>1, InvariantStep, OwnerStep DEF TimedInv
    <2>3. TimersOK' /\ OwnerOutlivesToken'
      BY <2>1 DEF TimedInv, TimersOK, OwnerOutlivesToken, vars, redisVars
    <2> QED
      BY <2>1, <2>2, <2>3 DEF TimedInv
  <1> QED
    BY <1>1, <1>2, <1>3, <1>4, <1>5 DEF TimedNext

\* The timed system starts like the untimed one, with no key and no timer.
LEMMA TimedStart ==
  ASSUME TimedInit
  PROVE  Init /\ TimedInv
PROOF
  <1>1. Inv
    BY TypeInit, DirectoryInit, CVVInit DEF TimedInit, Inv
  <1>2. OwnerInv
    BY OwnerStart DEF TimedInit
  <1>3. TimersOK /\ OwnerOutlivesToken
    BY TTLInRange DEF TimedInit, Init, RedisInit, TimersOK, OwnerOutlivesToken, RedisKeys
  <1> QED
    BY <1>1, <1>2, <1>3 DEF TimedInit, TimedInv

-----------------------------------------------------------------------------
\* With keys that expire when their TTL is up and handlers of any speed, dead or
\* alive, the system does nothing that Tokenizer does not: the TTLs of the two
\* SETs (cvv_store.go:52, :109) are all it takes.
THEOREM TimedImplementsTokenizer == TimedSpec => ImplementsTokenizer
PROOF
  <1>1. TimedInit => Init /\ TimedInv
    BY TimedStart
  <1>2. TimedInv /\ [TimedNext]_timedVars => [Next]_vars /\ TimedInv'
    BY TimedStep
  <1> QED
    BY <1>1, <1>2, PTL DEF TimedSpec, Spec, ImplementsTokenizer

\* The invariant of the timed system.
LEMMA TimedInvariant == TimedSpec => []TimedInv
PROOF
  BY TimedStart, TimedStep, PTL DEF TimedSpec

\* A key that is there has at most its TTL left, and no timer runs for one that is
\* not: what one handler sets, deletes or consumes resets no timer of another's key.
THEOREM TimedTypes == TimedSpec => []TimedTypeOK
PROOF
  <1>1. TimedInv => TimedTypeOK
    <2>1. TimesLeft \subseteq {Persistent, Gone} \cup 1..CVVTTL
      BY CVVTTLAssumption DEF TimesLeft, Persistent, Gone
    <2> QED
      BY <2>1 DEF TimedInv, TimersOK, TimedTypeOK
  <1> QED
    BY <1>1, TimedInvariant, PTL

\* While a CVV token is in Redis, the owner key that names it does not run out
\* before it, whatever the TTL.
THEOREM OwnersOutliveTokens == TimedSpec => []OwnerOutlivesToken
PROOF
  <1>1. TimedInv => OwnerOutlivesToken
    BY DEF TimedInv
  <1> QED
    BY <1>1, TimedInvariant, PTL

\* For every positive TTL, the rounding of TTL and the comparison with 0 in
\* ExistsCVVToken (cvv_store.go:78) see a key exactly while GETDEL would find it.
THEOREM StatusIsExact ==
  ASSUME CVVTTL > 0
  PROVE  TimedSpec => []StatusSeesWhatDetokenizeReveals
PROOF
  <1>1. TimedInv => StatusSeesWhatDetokenizeReveals
    <2> SUFFICES ASSUME TimedInv, NEW t \in Tenants, NEW k \in TokenIDs
                 PROVE  ExistsByTTL(t, k) <=> ExistsCVVToken(t, k)
      BY DEF StatusSeesWhatDetokenizeReveals
    <2>1. tokenLeft[<<t, k>>] \in Gone..CVVTTL
      BY DEF TimedInv, TimersOK, TimesLeft, RedisKeys
    <2> QED
      BY <2>1, CVVTTLAssumption DEF ExistsByTTL, ExistsCVVToken, Persistent, Gone
  <1> QED
    BY <1>1, TimedInvariant, PTL

-----------------------------------------------------------------------------
(* From level to level *)

\* ImplementsContract, with keys that expire when their TTL is up.
THEOREM TimedImplementsContract == TimedSpec => ImplementsContract
PROOF
  BY TimedImplementsTokenizer, TokenizerImplementsContract, PTL DEF ImplementsTokenizer

\* The invariants of Tokenizer with real expiry: no TTL, no rounding of it and no speed
\* of a handler gives a card a second token, reveals a CVV twice or to the wrong request,
\* loses every CVV of a card to an invalidation, or answers from a dead token.
THEOREM TimedTokenizerIsSafe ==
  TimedSpec => [](/\ DeterministicTokens /\ RevealsWhatWasTokenized
                  /\ CVVSingleUse /\ SomeCVVSurvives /\ NoAnswerFromDeadToken)
PROOF
  BY TimedImplementsTokenizer, TokensAreDeterministic, RevealsAreTrue,
     CVVTokensAreSingleUse, InvalidationLeavesOne, DeadTokensAreDead, PTL
  DEF ImplementsTokenizer
===============================================================================

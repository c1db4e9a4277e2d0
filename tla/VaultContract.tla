---------------------------- MODULE VaultContract ----------------------------
(***************************************************************************)
(* What the tokenizer promises, with no stores, handlers or failures: a    *)
(* directory that maps each PAN of each tenant to one token forever,       *)
(* tokens that once spent stay so, CVV tokens that are revealed            *)
(* at most once, and reveals that answer with what the directory says.     *)
(***************************************************************************)
CONSTANTS Tenants, PANs, CVVs, TokenIDs, Clients, Nil

VARIABLES
  directory,   \* directory[<<t, p>>]: the token of PAN p of tenant t, or Nil
  cvvs,        \* cvvs[k]: the CVV behind the live CVV token k, or Nil
  spent,       \* the tokens that were deactivated, used, expired or replaced
  asked,       \* asked[q]: the reveal client q asks for, or Nil
  revealed     \* revealed[q]: the value q got, or Nil

contractVars == <<directory, cvvs, spent, asked, revealed>>

Cards == Tenants \X PANs
LiveCVVs == [tenant : Tenants, cvv : CVVs]
Asks == [tenant : Tenants, token : TokenIDs, usable : BOOLEAN]
Bound(k) == \E card \in Cards : directory[card] = k
\* A token identifier that has never been given out.
Fresh(k) == ~Bound(k) /\ cvvs[k] = Nil /\ k \notin spent

Init ==
  /\ directory = [card \in Cards |-> Nil]
  /\ cvvs = [k \in TokenIDs |-> Nil]
  /\ spent = {}
  /\ asked = [q \in Clients |-> Nil]
  /\ revealed = [q \in Clients |-> Nil]

\* A card is given a token no card or CVV has.
Bind(card, k) ==
  /\ directory[card] = Nil /\ Fresh(k)
  /\ directory' = [directory EXCEPT ![card] = k]
  /\ UNCHANGED <<cvvs, spent, asked, revealed>>

Retire(k) ==
  /\ Bound(k)
  /\ spent' = spent \cup {k}
  /\ UNCHANGED <<directory, cvvs, asked, revealed>>

IssueCVV(k, live) ==
  /\ Fresh(k)
  /\ cvvs' = [cvvs EXCEPT ![k] = live]
  /\ UNCHANGED <<directory, spent, asked, revealed>>

\* Consumed, expired, invalidated or lost.
DropCVV(k) ==
  /\ cvvs[k] # Nil
  /\ cvvs' = [cvvs EXCEPT ![k] = Nil]
  /\ spent' = spent \cup {k}
  /\ UNCHANGED <<directory, asked, revealed>>

\* A reveal is judged by the state of the token when it is asked for: a request
\* already under way when the token is spent may still be answered.
Ask(q, t, k) ==
  /\ asked[q] = Nil
  /\ asked' = [asked EXCEPT ![q] = [tenant |-> t, token |-> k, usable |-> k \notin spent]]
  /\ UNCHANGED <<directory, cvvs, spent, revealed>>

RevealPAN(q, p) ==
  /\ asked[q] # Nil /\ asked[q].usable /\ revealed[q] = Nil
  /\ directory[<<asked[q].tenant, p>>] = asked[q].token
  /\ revealed' = [revealed EXCEPT ![q] = p]
  /\ UNCHANGED <<directory, cvvs, spent, asked>>

RevealCVV(q, c) ==
  /\ asked[q] # Nil /\ asked[q].usable /\ revealed[q] = Nil
  /\ cvvs[asked[q].token] = [tenant |-> asked[q].tenant, cvv |-> c]
  /\ cvvs' = [cvvs EXCEPT ![asked[q].token] = Nil]
  /\ spent' = spent \cup {asked[q].token}
  /\ revealed' = [revealed EXCEPT ![q] = c]
  /\ UNCHANGED <<directory, asked>>

Next ==
  \/ \E card \in Cards, k \in TokenIDs : Bind(card, k)
  \/ \E k \in TokenIDs : Retire(k) \/ DropCVV(k)
  \/ \E k \in TokenIDs, live \in LiveCVVs : IssueCVV(k, live)
  \/ \E q \in Clients, t \in Tenants, k \in TokenIDs : Ask(q, t, k)
  \/ \E q \in Clients, p \in PANs : RevealPAN(q, p)
  \/ \E q \in Clients, c \in CVVs : RevealCVV(q, c)

Spec == Init /\ [][Next]_contractVars
===============================================================================

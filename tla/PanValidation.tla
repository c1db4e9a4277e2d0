---------------------------- MODULE PanValidation ----------------------------
(***************************************************************************)
(* The check the tokenize handler makes of a card number, and the request  *)
(* it decides on.  A string is a sequence of characters, of which only the *)
(* digits have a value.  Tokenizer only tells a valid field, a member of   *)
(* PANs, from Invalid; here the first client types what it sends.          *)
(***************************************************************************)
EXTENDS Tokenizer, Sequences

CONSTANT Typed    \* the strings the client may type

VARIABLE field    \* what the client has typed, empty before and after

Digits == 0..9
Letter == -1     \* any character strconv.Atoi does not take for a digit

ASSUME TypedAssumption == Typed \subseteq Seq(Digits \cup {Letter})

\* Mutant: the last digit is the first to be doubled.
LuhnStartDoubled == [sum |-> 0, alt |-> TRUE]

\* The variables of the loop before its first turn.
LuhnStart == [sum |-> 0, alt |-> FALSE]

\* Mutant: a product above 9 is reduced modulo 10.
DoubledModulo(d) == (d * 2) % 10

Doubled(d) == IF d * 2 > 9 THEN d * 2 - 9 ELSE d * 2

\* One turn of the loop.
LuhnStep(d, before) ==
  [sum |-> before.sum + (IF before.alt THEN Doubled(d) ELSE d), alt |-> ~before.alt]

\* The variables after each turn of the loop, from the last digit to the first.
LuhnLoop(pan) ==
  LET loop[n \in 0..Len(pan)] ==
        IF n = 0 THEN LuhnStart ELSE LuhnStep(pan[Len(pan) + 1 - n], loop[n - 1])
  IN  loop

validatePAN(pan) ==
  /\ Len(pan) \in 13..19
  /\ \A i \in DOMAIN pan : pan[i] \in Digits
  /\ LuhnLoop(pan)[Len(pan)].sum % 10 = 0

-----------------------------------------------------------------------------
TypedInit == Init /\ field = <<>>

\* The client of the first request fills in its field "pan".
Type ==
  /\ field = <<>>
  /\ \A r \in Requests : pc[r] = "idle"
  /\ field' \in Typed
  /\ UNCHANGED vars

\* The handler refuses it or goes on with it, as validatePAN says.
SendTyped ==
  /\ field # <<>>
  /\ \E r \in Requests :
       /\ Receive(r)
       /\ req'[r].op = "tokenize" /\ req'[r].pan \in PANs \cup {Invalid}
       /\ req'[r].pan \in PANs <=> validatePAN(field)
  /\ field' = <<>>

SendOther == field = <<>> /\ Next /\ UNCHANGED field

TypedSpec == TypedInit /\ [][Type \/ SendTyped \/ SendOther]_<<vars, field>>

-----------------------------------------------------------------------------
\* What 003 FR-016 (spec.md:133) asks of a PAN: 13 to 19 digits, and the Luhn check
\* as its standard, ISO/IEC 7812, states it: counted from the right, every second
\* digit is doubled and the digits of all the results are added up.
PlaceValue(place, d) ==
  LET digitSum(n) == (n \div 10) + (n % 10)
  IN  IF place % 2 = 0 THEN digitSum(2 * d) ELSE d

CheckSum(s) ==
  LET sum[n \in 0..Len(s)] ==
        IF n = 0 THEN 0 ELSE sum[n - 1] + PlaceValue(n, s[Len(s) + 1 - n])
  IN  sum[Len(s)]

IsCardNumber(s) ==
  /\ Len(s) >= 13 /\ Len(s) <= 19
  /\ \A i \in DOMAIN s : s[i] # Letter
  /\ CheckSum(s) % 10 = 0

\* validatePAN accepts the card numbers of FR-016 and nothing else.
AcceptsCardNumbersOnly == validatePAN(field) <=> IsCardNumber(field)

\* A mistyped digit, or two neighbours exchanged (but 0 and 9), never gives
\* another card number: what is tokenized is the card the client meant.
CatchesTypingErrors ==
  validatePAN(field) =>
    LET places == DOMAIN field
    IN  /\ \A i \in places, d \in Digits :
             d # field[i] => ~validatePAN([field EXCEPT ![i] = d])
        /\ \A i \in places \ {Len(field)} :
             field[i] # field[i + 1] /\ {field[i], field[i + 1]} # {0, 9} =>
               ~validatePAN([field EXCEPT ![i] = field[i + 1], ![i + 1] = field[i]])
===============================================================================

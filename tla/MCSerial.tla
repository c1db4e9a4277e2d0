------------------------------- MODULE MCSerial -------------------------------
(* Tokenizer one request at a time, with the checks of its input. *)
EXTENDS MCTokenizer, PanValidation

(* What is typed: every length around the bounds, zeros but for two characters. *)
Sparse(len, places, chars) ==
  {[n \in 1..len |-> IF n = i THEN c ELSE IF n = j THEN d ELSE 0] :
     i \in places, j \in places, c \in chars, d \in chars}

MCTyped ==
  UNION {Sparse(len, {1, len - 1, len}, Digits \cup {Letter}) : len \in {12, 13, 16, 19, 20}}
===============================================================================

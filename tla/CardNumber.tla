----------------------------- MODULE CardNumber -----------------------------
(***************************************************************************)
(* feature2.js: what the form takes for a card number.                     *)
(*                                                                         *)
(* A text of the card field is a sequence of codes: the digits 0..9, 10    *)
(* for a blank, 11 for a hyphen, 12 for any other character.               *)
(***************************************************************************)
EXTENDS Integers, Sequences

\* normalizeCreditCardNumber
Normalized(text) == SelectSeq(text, LAMBDA c : c \notin {10, 11})

\* Mutant: a doubled digit keeps its two digits' value.
DoubledWhole(d) == 2 * d

\* A doubled digit above 9 counts as the sum of its two digits.
Doubled(d) == IF 2 * d > 9 THEN 2 * d - 9 ELSE 2 * d

\* The loop of isValidCreditCardNumber: every second digit from the right is
\* doubled.
Luhn(number) ==
  LET n == Len(number)
      Weighted(i) == IF (n - i) % 2 = 1 THEN Doubled(number[i]) ELSE number[i]
      Sum[i \in 0..n] == IF i = 0 THEN 0 ELSE Sum[i - 1] + Weighted(i)
  IN  Sum[n]

\* isValidCreditCardNumber
IsValid(number) ==
  /\ Len(number) \in 13..19
  /\ \A i \in DOMAIN number : number[i] \in 0..9
  /\ Luhn(number) % 10 = 0
=============================================================================

------------------------------ MODULE CardSlip ------------------------------
(***************************************************************************)
(* A user types a card number into the form of feature2.js, and makes a    *)
(* slip: the checksum is there to find it.                                 *)
(***************************************************************************)
EXTENDS CardNumber

CONSTANT Numbers  \* card numbers, valid or not

ASSUME NumbersAssumption == Numbers \subseteq Seq(0..9)

VARIABLE number   \* the number in the field, without blanks and hyphens

CardTypeOK == number \in Seq(0..9)

CardInit == number \in Numbers

\* One digit is wrong, or two neighbours are swapped.
Slip ==
  \/ \E i \in DOMAIN number, d \in 0..9 : number' = [number EXCEPT ![i] = d]
  \/ \E i \in 1..Len(number) - 1 :
       number' = [number EXCEPT ![i] = number[i + 1], ![i + 1] = number[i]]

\* Bound: one slip.
CardNext == number \in Numbers /\ Slip

CardSpec == CardInit /\ [][CardNext]_number

\* The checksum cannot tell a 0 and a 9 that are swapped.
ZeroNine == \E i \in 1..Len(number) - 1 :
  /\ {number[i], number[i + 1]} = {0, 9}
  /\ number'[i] # number[i] /\ number'[i + 1] # number[i + 1]

\* isValidCreditCardNumber: no other slip leads from a number that the form
\* accepts to one that it accepts.
SlipsAreSeen == [][IsValid(number) => ~IsValid(number') \/ ZeroNine]_number
=============================================================================

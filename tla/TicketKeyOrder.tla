---------------------------- MODULE TicketKeyOrder ----------------------------
(***************************************************************************)
(* TicketKeys against the strings themselves: the sort keys of the queue's  *)
(* entries, spelt out in digits.                                           *)
(***************************************************************************)
EXTENDS TicketKeys

\* pad as a string of digits, and the order of strings.

Ten(j) == IF j = 0 THEN 1 ELSE Pow10[j]
\* The decimal digit of k that j others follow.
Digit(k, j) == (k \div Ten(j)) % 10
DigitCount(k) == CHOOSE d \in 1..7 : k < Ten(d) /\ (d > 1 => k >= Ten(d - 1))
\* padStart: zeros in front up to the width.
PadString(k, width) ==
  LET count == DigitCount(k)
      length == IF count < width THEN width ELSE count
  IN  [i \in 1..length |-> IF i <= length - count THEN 0 ELSE Digit(k, length - i)]

\* At the first place where they differ, s has the smaller character or has ended.
StringBefore(s, t) ==
  \E i \in DOMAIN t : /\ \A j \in 1..(i - 1) : j \in DOMAIN s /\ s[j] = t[j]
                      /\ i \in DOMAIN s => s[i] < t[i]
===============================================================================

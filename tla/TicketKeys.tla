------------------------------ MODULE TicketKeys ------------------------------
(***************************************************************************)
(* Ticket numbers as DynamoDB sort keys.                                   *)
(*                                                                         *)
(* An entry is stored under "ENTRY#" followed by its number padded with    *)
(* zeros to the queue's padWidth (shared/keys.js).  padStart never cuts, so *)
(* a number of more digits than padWidth keeps them all, and the store     *)
(* compares keys as strings.  Only that order matters to the engine: the   *)
(* two range reads below are defined by it, and it is written here with    *)
(* arithmetic on the numbers.                                              *)
(***************************************************************************)
EXTENDS Integers, FiniteSets

\* numbering.js: MAX_PAD_WIDTH and MAX_NUMBER (a number of six digits).
MaxPadWidth == 6
MaxNumber == 999999

\* Pow10[d] is the first number that needs more than d digits.
Pow10 == <<10, 100, 1000, 10000, 100000, 1000000, 10000000>>

\* normalizeNumberingConfig: an absent or unusable width becomes 3, a large one 6.
NormalWidth(width) ==
  IF width < 1 THEN 3 ELSE IF width > MaxPadWidth THEN MaxPadWidth ELSE width

\* The length of the decimal form of n.
Digits(n) ==
  CHOOSE d \in 1..7 : /\ n < Pow10[d]
                      /\ \A e \in 1..7 : n < Pow10[e] => d <= e

\* The length of pad(n, w): padStart(w, '0') lengthens and never shortens.
KeyLength(n, w) == IF n < Pow10[w] THEN w ELSE Digits(n)

\* n with d zeros appended.
Shift(n, d) == IF d = 0 THEN n ELSE n * Pow10[d]

\* pad(n, w) sorts strictly before pad(m, w) as a string.  A key that is a proper
\* prefix of another sorts before it.
KeyBefore(n, m, w) ==
  LET ln == KeyLength(n, w)
      lm == KeyLength(m, w)
  IN  \/ ln = lm /\ n < m
      \/ ln < lm /\ Shift(n, lm - ln) <= m
      \/ ln > lm /\ n < Shift(m, ln - lm)

\* Variants of the read: without its lower bound; from the other end.
KeysAnywhere(waiting, after, w) == waiting
IsLastKey(t, keys, w) == t \in keys /\ \A u \in keys \ {t} : KeyBefore(u, t, w)

\* nextWaitingEntry: the entries a `SK > :after` read ranges over, and its first.
KeysAfter(waiting, after, w) == { t \in waiting : KeyBefore(after, t, w) }
IsFirstKey(t, keys, w) == t \in keys /\ \A u \in keys \ {t} : KeyBefore(t, u, w)

\* The upper bound without its `- 1`.
HighBoundInclusive(ticket) == ticket

\* countWaitingBefore: BETWEEN pad(1) AND pad(max(1, ticket - 1)).
HighBound(ticket) == IF ticket - 1 > 1 THEN ticket - 1 ELSE 1
CountedBefore(waiting, ticket, w) ==
  { u \in waiting : /\ ~ KeyBefore(u, 1, w)
                    /\ ~ KeyBefore(HighBound(ticket), u, w) }
===============================================================================

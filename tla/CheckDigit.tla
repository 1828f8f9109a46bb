------------------------------ MODULE CheckDigit ------------------------------
(***************************************************************************)
(* The check digit of a GTIN and its padding (src/resolver/parser.py).  A  *)
(* GTIN is the sequence of its digits; a text with anything else in it is  *)
(* the empty sequence.                                                     *)
(***************************************************************************)
EXTENDS Integers, Sequences

Digit  == 0..9
GTIN14 == [1..14 -> Digit]

(* Mutation: all digits weigh the same. *)
WeightedAlike(g) ==
    g[1] + g[2] + g[3] + g[4] + g[5] + g[6] + g[7] + g[8] + g[9] + g[10] + g[11] + g[12] + g[13]

Weighted(g) ==
    3 * (g[1] + g[3] + g[5] + g[7] + g[9] + g[11] + g[13])
      + (g[2] + g[4] + g[6] + g[8] + g[10] + g[12])

validate_gtin14(g) == g \in GTIN14 /\ (10 - (Weighted(g) % 10)) % 10 = g[14]

pad_gtin_to_14(g) ==
    LET zeros == 14 - Len(g)
    IN  IF Len(g) \in {8, 12, 13, 14}
          THEN [i \in 1..14 |-> IF i <= zeros THEN 0 ELSE g[i - zeros]]
          ELSE g

-------------------------------------------------------------------------------
(* What the check digit is for: the two common errors of a hand that copies  *)
(* a number.                                                                 *)

Miswritten(g, i, d) == [g EXCEPT ![i] = d]
Swapped(g, i)       == [g EXCEPT ![i] = g[i + 1], ![i + 1] = g[i]]

CatchesMistyping(g) ==
    /\ \A i \in 1..14 : \A d \in Digit \ {g[i]} : ~ validate_gtin14(Miswritten(g, i, d))
    /\ \A i \in 1..13 : (g[i] - g[i + 1]) % 5 # 0 => ~ validate_gtin14(Swapped(g, i))

===============================================================================

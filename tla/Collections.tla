----------------------------- MODULE Collections -----------------------------
(***************************************************************************)
(* Python's list comprehension with a condition, the keys of a dict, and   *)
(* dict.update, where proofs are about them: SelectSeq and @@ have no      *)
(* definition that a proof can unfold.                                     *)
(***************************************************************************)
EXTENDS Naturals, Sequences

(* The members of s at the positions I, in their order. *)
Picked(s, I) ==
    LET from[i \in 1..(Len(s) + 1)] ==
            IF i > Len(s) THEN <<>>
            ELSE IF i \in I THEN <<s[i]>> \o from[i + 1]
            ELSE from[i + 1]
    IN  from[1]

(* Those that are in S: [x for x in s if x in S]. *)
Only(s, S) == Picked(s, {i \in DOMAIN s : s[i] \in S})

(* The keys of a dict that are put in as s has them: a key put in again      *)
(* stays where it is.                                                        *)
Firsts(s) == Picked(s, {i \in DOMAIN s : \A j \in 1..(i - 1) : s[j] # s[i]})

Updated(dict, by) ==
    [key \in DOMAIN dict \cup DOMAIN by |-> IF key \in DOMAIN by THEN by[key] ELSE dict[key]]

==============================================================================

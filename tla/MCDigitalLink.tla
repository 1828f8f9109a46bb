---------------------------- MODULE MCDigitalLink ----------------------------
(* Carriers for TLC, printed one token at a time or one pair at a time. *)
EXTENDS DigitalLink

(* Numbers that are primary keys and a qualifier; a name; a value; tokens    *)
(* that urlparse cuts to a value, to a name and to nothing; and the token    *)
(* between two slashes.                                                      *)
Tokens == {"01", "8003", "21", "SER", "A", "A;B", "ser;B", ";B", ""}
OneToken == {<<t>> : t \in Tokens}

(* Pairs of every category, qualifiers in and out of the key's order,        *)
(* attributes of two to four digits, short GTINs and values to be quoted.    *)
OnePair ==
    {<<"01", "short">>, <<"gtin", "long">>, <<"01", "ser">>, <<"8003", "a b">>,
     <<"10", "A;B">>, <<"LOT", "21">>, <<"21", "a%20b">>, <<"ser", "A">>,
     <<"235", "A">>, <<"17", "A">>, <<"90", "A">>, <<"7003", "lot">>,
     <<"99", "A">>}

Printers == {[chunks |-> OneToken, tokens |-> 5], [chunks |-> OnePair, tokens |-> 8]}

NumberTokens == Range(NAME_TO_AI) \cup {"99"}

Lowered(t) == CASE t = "SER" -> "ser" [] t = "LOT" -> "lot" [] OTHER -> t

Shortened(t) ==
    CASE t = "A;B" -> "A" [] t = "ser;B" -> "ser" [] t = ";B" -> "" [] OTHER -> t

Padded(t) == IF t = "short" THEN "long" ELSE t

Quoted(t)   == CASE t = "a b" -> "a%20b" [] t = "a%20b" -> "a%2520b" [] OTHER -> t
Unquoted(t) == CASE t = "a%20b" -> "a b" [] t = "a%2520b" -> "a%20b" [] OTHER -> t

===============================================================================

----------------------------- MODULE MCResolution -----------------------------
(***************************************************************************)
(* Configs and carriers for TLC: GTINs that are right, mistyped and short, *)
(* values with placeholders, semicolons and encoded signs in them, and     *)
(* templates with queries.  Words are taken for the characters of a text.  *)
(***************************************************************************)
EXTENDS Resolution

CONSTANTS bad, null, number

LinkType(href, title) == [href |-> href, title |-> title]

Match(match, target) ==
    [match |-> match, target |-> target, link_types |-> <<>>, forward_query |-> <<>>]

Everything == Match(<<>>, << <<"fallback/">>, Hole("gtin") >>)

Books ==
    [Match([gtin_prefix |-> "095"],
           << <<"book/">>, Hole("gtin"), <<"?", "+", "=">>, Hole("serial"), <<"#", "top">> >>)
        EXCEPT !.link_types = << LinkType(<< <<"pip/">>, Hole("01") >>, <<>>),
                                 LinkType(<< <<"verify/">>, Hole("lot"), Hole("gtin") >>,
                                       << <<"for ">>, Hole("ser") >>) >>]

Items ==
    [Match([has_qualifier |-> "21"],
           << <<"item/">>, Hole("ser"), <<"/of/">>, Hole("gtin"), <<"/">>, Hole("ser"),
              <<"?", "lot", "=">>, Hole("batch") >>)
        EXCEPT !.forward_query = << <<"nk">>, <<"qk">> >>,
               !.link_types = << LinkType(<< <<"pip/">>, Hole("21"), <<"?", "lang", "=", "en">> >>, <<>>),
                                 LinkType(<< Hole("batch") >>, <<>>) >>]

Lots == Match([gtin_regex |-> "095[0-9]*", has_qualifier |-> "10"],
              << <<"lot/">>, Hole("10"), <<"/">>, Hole("serial"), <<"{">>, Hole("17") >>)

Assets == Match([primary_ai |-> "8003"], << <<"asset/">>, Hole("8003"), Hole("grai") >>)

Recalled == Match([serial_in |-> {"A"}, primary_ai |-> "8003"], << <<"recall/">>, Hole("ser") >>)

BadPattern == Match([gtin_regex |-> "[", has_qualifier |-> "21"], << <<"x">> >>)
BadSerials == Match([serial_in |-> null], << <<"x">> >>)
BadMatch   == [Everything EXCEPT !.match = bad]
BadForward == [Everything EXCEPT !.forward_query = bad]
BadTitle   == [Items EXCEPT !.link_types[1].title = number]
OpenHost   == [Items EXCEPT !.target = << <<"//", "[">>, Hole("21") >>]
NullLinks  == [Everything EXCEPT !.link_types = null]

MCRule == {Everything, Books, Items, Lots, Assets, Recalled, BadPattern, BadSerials,
           BadMatch, BadForward, BadTitle, OpenHost, NullLinks}

MCPair ==
    {<<"01", "09506000134345">>, <<"gtin", "09506000134354">>, <<"01", "9506000134345">>,
     <<"8003", "A">>, <<"21", "A">>, <<"21", "A%3BB">>, <<"ser", "%7Bbatch%7D">>,
     <<"LOT", "a%7Bser%7Db">>, <<"10", "B">>, <<"10", "B%26utm%3D1">>,
     <<"21", "A%3Fnk=x">>, <<"17", "A%23B">>, <<"10", "A%2F17">>, <<"17", "B">>,
     <<"235", "B">>, <<"99", "B">>, <<"">>, <<"17", "(2048 characters)">>}

MCParam == {<< <<"qk">>, <<"1">> >>, << <<"qk">>, <<"2">> >>,
            << <<"nk">>, <<"1">> >>, << <<"utm">>, <<"1">> >>}

MCBound ==
    {[rules |-> 2, tokens |-> 4, params |-> 0, declared |-> {{}}],
     [rules |-> 2, tokens |-> 2, params |-> 0, declared |-> {{"8003"}, {"999"}, bad}],
     [rules |-> 1, tokens |-> 4, params |-> 2, declared |-> {{}}],
     [rules |-> 1, tokens |-> 6, params |-> 0, declared |-> {{}}]}

MCNumber == Range(NAME_TO_AI) \cup {"99"}

MCOversized == {"(2048 characters)"}

MCCharacter == STRING

MCSpelt(v) ==
    CASE v = ""          -> <<>>
      [] v = "{batch}"   -> <<"{", "batch", "}">>
      [] v = "a{ser}b"   -> <<"a", "{", "ser", "}", "b">>
      [] v = "B&utm=1"   -> <<"B", "&", "utm", "=", "1">>
      [] OTHER           -> <<v>>

MCPlain(t) ==
    CASE t = "A%2F17"       -> <<"A", "/", "17">>
      [] t = "A%3Fnk=x"     -> <<"A", "?", "nk", "=", "x">>
      [] t = "A%23B"        -> <<"A", "#", "B">>
      [] t = "%7Bbatch%7D"  -> MCSpelt("{batch}")
      [] t = "a%7Bser%7Db"  -> MCSpelt("a{ser}b")
      [] t = "B%26utm%3D1"  -> MCSpelt("B&utm=1")
      [] OTHER              -> MCSpelt(t)

MCDecoded(t) ==
    CASE t = "%7Bbatch%7D"  -> <<"{batch}">>
      [] t = "a%7Bser%7Db"  -> <<"a{ser}b">>
      [] t = "B%26utm%3D1"  -> <<"B&utm=1">>
      [] t = "A%3BB"        -> <<"A;B">>
      [] t = "A%2F17"       -> <<"A", "17">>
      [] t = "A%3Fnk=x"     -> <<"A">>
      [] t = "A%23B"        -> <<"A">>
      [] OTHER              -> <<t>>

MCQuote(v) ==
    CASE v = "{batch}" -> "%7Bbatch%7D"
      [] v = "a{ser}b" -> "a%7Bser%7Db"
      [] v = "B&utm=1" -> "B%26utm%3D1"
      [] v = "A;B"     -> "A%3BB"
      [] OTHER         -> v

MCCut(t) == IF t = "A;B" THEN "A" ELSE t

MCPlus(text) == [i \in DOMAIN text |-> IF text[i] = "+" THEN " " ELSE text[i]]

MCSplits(text) == "[" \notin Range(text)

MCLower(t) == IF t = "LOT" THEN "lot" ELSE t

MCPad(v) == IF v = "9506000134345" THEN "09506000134345" ELSE v

MCDigitsOf(v) ==
    CASE v = "09506000134345" -> <<0, 9, 5, 0, 6, 0, 0, 0, 1, 3, 4, 3, 4, 5>>
      [] v = "09506000134354" -> <<0, 9, 5, 0, 6, 0, 0, 0, 1, 3, 4, 3, 5, 4>>
      [] v = "9506000134345"  -> <<9, 5, 0, 6, 0, 0, 0, 1, 3, 4, 3, 4, 5>>
      [] OTHER                -> <<>>

MCStartsWith(v, prefix) == prefix = "095" /\ v \in {"09506000134345", "09506000134354"}

MCFullMatch(v, pattern) ==
    IF pattern = "[" THEN "raises" ELSE YesIf(MCStartsWith(v, "095"))

MCAmong(v, serials) == IF serials = null THEN "raises" ELSE YesIf(v \in serials)
===============================================================================

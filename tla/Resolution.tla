------------------------------ MODULE Resolution ------------------------------
(***************************************************************************)
(* One request from the carrier's link to a target (src/resolver/app.py,   *)
(* resolve): the request is received, its URI rebuilt and parsed, the GTIN *)
(* checked, and the rules of the config tried.  The operator writes the    *)
(* config rule by rule and the carrier is printed piece by piece, so that  *)
(* every config and every link up to a bound is tried.                     *)
(***************************************************************************)
EXTENDS Parser, Routing, CheckDigit

CONSTANTS
    Rule,       \* rules that the config may have
    Pair,       \* pieces of a path, as printed: percent-encoded tokens
    Param,      \* query parameters: the texts of a name and a value
    Bound,      \* bounds on the rules, tokens and parameters that go together,
                \* with the sets of primary keys that a config may declare
    Character,  \* what texts are made of
    Plain(_),   \* the text that a printed token decodes to
    Decoded(_), \* the tokens in that text, up to a "?" or "#"
    Oversized,  \* tokens that take the URI over MAX_URI_LENGTH
    DigitsOf(_) \* the digits of a value; <<>> if it is no number

VARIABLES
    bound,      \* the bounds of this behaviour
    rules,      \* the resolvers of routes.yaml
    declared,   \* its well_known.supported_primary_keys: a set, {} for none
    path,       \* the path of the link, a sequence of printed tokens
    query       \* its query, a sequence of name and value

vars == <<bound, rules, declared, path, query>>

ASSUME BoundAssumption ==
    \A b \in Bound : b.rules \in Nat /\ b.tokens \in Nat /\ b.params \in Nat

IsSequence(s) == s \in Seq(Range(s))

(* Fields that the checks of the config pass are lists of what they say. *)
ASSUME RulesAssumption ==
    \A rule \in Rule :
        /\ rule.forward_query # Malformed => IsSequence(rule.forward_query)
        /\ rule.target # Malformed => rule.target \in Seq(Seq(Character))
        /\ rule.link_types \notin {Malformed, Null} =>
               \A link \in Range(rule.link_types) :
                   /\ link.href \in Seq(Seq(Character))
                   /\ link.title # NoText => link.title \in Seq(Seq(Character))

(* What is printed, and what a value may be: a token of it, what urlparse    *)
(* leaves of one, or the AI of a name.                                       *)
Token == UNION {Range(pair) : pair \in Pair}
Text  == UNION {Range(Decoded(token)) : token \in Token}
Value == Text \cup {Cut(v) : v \in Text} \cup Range(NAME_TO_AI)

Signs == {"?", "#"}

ASSUME CarrierAssumption ==
    /\ \A pair \in Pair : IsSequence(pair)
    /\ \A token \in Token : IsSequence(Decoded(token)) /\ Plain(token) \in Seq(Character)
    /\ \A param \in Param :
          IsSequence(param) /\ Len(param) = 2 /\ Range(param) \subseteq Seq(Character)

(* Quoting is undone by the server's decoding, and padding leaves GTINs of   *)
(* fourteen digits alone.                                                    *)
ASSUME QuotingAssumption ==
    /\ \A v \in Value :
          /\ Decoded(Quote(v)) = <<v>> /\ Range(Plain(Quote(v))) \cap Signs = {}
          /\ DigitsOf(v) \in GTIN14 => Pad(v) = v
    /\ \A ai \in PRIMARY_AIS \cup QUALIFIER_AIS \cup ATTRIBUTE_AIS :
          Decoded(ai) = <<ai>> /\ Range(Plain(ai)) \cap Signs = {}

(* What a template may name. *)
Placeholder ==
    LET ais == PRIMARY_AIS \cup QUALIFIER_AIS \cup ATTRIBUTE_AIS
    IN  ais \cup {AI_TO_NAME[ai] : ai \in ais} \cup {"serial", "batch", "expiry"}

BraceFree(text) == Range(text) \cap {LeftBrace, RightBrace} = {}

ASSUME SpellingAssumption ==
    /\ \A v \in Value \cup {""} : Spelt(v) \in Seq(Character)
    /\ \A key \in Placeholder :
          /\ Len(key) \in 1..14
          /\ Spelt(key) \in Seq(Character) /\ BraceFree(Spelt(key))
          /\ \A other \in Placeholder : Spelt(key) = Spelt(other) => key = other
    /\ LeftBrace \in Character /\ RightBrace \in Character

Init ==
    /\ bound \in Bound /\ declared \in bound.declared
    /\ rules = <<>> /\ path = <<>> /\ query = <<>>

AddRule(rule) ==
    /\ Len(rules) < bound.rules
    /\ rules' = Append(rules, rule)
    /\ UNCHANGED <<bound, declared, path, query>>

Extend(pair) ==
    /\ Len(path) + Len(pair) <= bound.tokens
    /\ path' = path \o pair
    /\ UNCHANGED <<bound, declared, rules, query>>

Ask(param) ==
    /\ Len(query) < bound.params
    /\ query' = Append(query, param)
    /\ UNCHANGED <<bound, declared, rules, path>>

Next ==
    \/ \E rule \in Rule : AddRule(rule)
    \/ \E pair \in Pair : Extend(pair)
    \/ \E param \in Param : Ask(param)

Spec == Init /\ [][Next]_vars

-------------------------------------------------------------------------------
(* What resolve() makes of a request. *)

(* The server decodes the path, and resolve() puts it in front of the query  *)
(* as it is: a "?" or "#" that was encoded in a value now ends the path, an  *)
(* encoded slash starts a token.                                             *)
Ends(printed) == {i \in DOMAIN printed : Range(Plain(printed[i])) \cap Signs # {}}

Received(printed) ==
    LET ends == Ends(printed)
        last == IF ends = {} THEN Len(printed) ELSE Min(ends)
    IN  FlattenSeq([i \in 1..last |-> Decoded(printed[i])])

(* The query as it is printed. *)
Raw(params) ==
    FlattenSeq([i \in DOMAIN params |->
        <<IF i = 1 THEN "?" ELSE "&">> \o params[i][1] \o <<"=">> \o params[i][2]])

(* When the path has a sign, the query is what stands behind the first "?",  *)
(* the rest of the path and the query itself in one, up to a "#".            *)
ReceivedQuery(printed, params) ==
    LET ends == Ends(printed)
        plain == FlattenSeq([i \in DOMAIN printed |-> <<"/">> \o Plain(printed[i])])
    IN  IF ends = {} THEN params ELSE urlsplit(plain \o Raw(params)).query

(* The link as the router sees it. *)
Seen(link, params, order) ==
    [primary_ai |-> link.primary_ai, primary_value |-> link.primary_value,
     qualifiers |-> link.qualifiers, attributes |-> link.attributes,
     query_params |-> params, ctx |-> as_dict(link), order |-> order]

Link(printed, params) ==
    Seen(parse(Received(printed)), ReceivedQuery(printed, params),
         as_dict_order(Received(printed)))

Accepted(printed) ==
    /\ Range(printed) \cap Oversized = {}
    /\ Parses(Received(printed))
    /\ LET link == parse(Received(printed))
       IN  link.primary_ai = "01" => validate_gtin14(DigitsOf(link.primary_value))

(* The answer to a request: 400, 500 on a config that does not load or a     *)
(* rule that raises, 404, or where the rules lead.                           *)
Answer(config, keys, printed, params) ==
    IF ~ Accepted(printed) THEN [outcome |-> "bad_request"]
    ELSE IF load(config, keys) # "loaded" THEN [outcome |-> "config_error"]
    ELSE resolve(config, Link(printed, params))

answer == Answer(rules, declared, path, query)

-------------------------------------------------------------------------------
(* Properties. *)

(* A config that loads has rules that resolve() can use, and answers are of  *)
(* the kinds that the service handles (_validate_config, Router.load).       *)
TypeOK ==
    /\ bound \in Bound /\ declared \in bound.declared
    /\ Len(rules) <= bound.rules /\ Len(path) <= bound.tokens /\ Len(query) <= bound.params
    /\ load(rules, declared) = "loaded" =>
         \A i \in DOMAIN rules :
             /\ rules[i].target # Malformed /\ rules[i].forward_query # Malformed
             /\ rules[i].link_types \notin {Malformed, Null}
    /\ LET given == answer
       IN  /\ given.outcome \in {"bad_request", "config_error", "none", "raises", "match"}
           /\ given.outcome = "match" =>
                 \A url \in {given.target} \cup {link.href : link \in Range(given.links)} :
                    \A i \in DOMAIN url.query : Len(url.query[i]) = 2

Searched == Accepted(path) /\ load(rules, declared) = "loaded"
Routed   == answer.outcome = "match"
TheLink  == Link(path, query)
TheRule  == rules[FirstMatch(rules, TheLink)]

(* Rules are tried from the top and the first match wins: a rule added at    *)
(* the end answers only the requests that no rule answered before, and       *)
(* changes none of the others, not even one that fails (Router.resolve).     *)
LaterRulesYield ==
    [][ (/\ UNCHANGED <<declared, path, query>>
         /\ Searched /\ load(rules', declared) = "loaded"
         /\ answer.outcome # "none")
          => Answer(rules', declared, path, query) = answer ]_vars

(* A template whose braces are those of placeholders, and nothing else. *)
Tidy(template) ==
    \A part \in Range(template) :
        \/ BraceFree(part)
        \/ /\ Len(part) > 1 /\ part[1] = LeftBrace /\ part[Len(part)] = RightBrace
           /\ BraceFree(SubSeq(part, 2, Len(part) - 1))

(* Its parts side by side, each placeholder that has a value replaced by it. *)
SideBySide(template, ctx) ==
    FlattenSeq([i \in DOMAIN template |->
        IF \E key \in DOMAIN ctx : template[i] = Hole(key)
          THEN Spelt(ctx[CHOOSE key \in DOMAIN ctx : template[i] = Hole(key)])
          ELSE template[i]])

NoBracesIn(link) == \A v \in Range(link.ctx) : BraceFree(Spelt(v))

(* Templates are filled from the link alone: each placeholder it has a value *)
(* for is replaced by that value, wherever it stands and in whatever order   *)
(* the keys are taken, and nothing else is touched - as long as the braces   *)
(* of the template are those of placeholders, and no value of the link has   *)
(* one: a value that reads like a placeholder, or becomes a part of one, is  *)
(* replaced in turn (_fill, GS1ParseResult.as_dict).                         *)
FilledFromTheLink ==
    Routed /\ NoBracesIn(TheLink) =>
        LET given == answer
            rule  == TheRule
            link  == TheLink
            Fills(url, template) == Tidy(template) =>
                url = _append_query(SideBySide(template, link.ctx), forwarded(rule, link))
        IN  /\ Fills(given.target, rule.target)
            /\ \A i \in DOMAIN given.links :
                  LET title == rule.link_types[i].title
                  IN  /\ Fills(given.links[i].href, rule.link_types[i].href)
                      /\ Tidy(title) => given.links[i].title = SideBySide(title, link.ctx)

(* What a rule lists of the query reaches the target and every link, all the *)
(* values of a parameter in their order, and what it does not list stays     *)
(* behind: in front of the parameters are the pairs that the filled template *)
(* reads as - a value with a "&" may have made some of them - and with a     *)
(* template that is filled with nothing goes no query. (A name that is       *)
(* listed twice brings its values twice.) (Route.forwarded, _append_query)   *)
ForwardsWhatIsListed ==
    Routed =>
        LET given  == answer
            rule   == TheRule
            link   == TheLink
            listed == rule.forward_query
            Once(n) == \A m \in DOMAIN listed : listed[m] = listed[n] => m = n
            Forwards(url, template) ==
                LET text  == _fill(template, link)
                    own   == urlsplit(text).query
                    added == SubSeq(url.query, Len(own) + 1, Len(url.query))
                IN  text # <<>> =>
                      /\ SubSeq(url.query, 1, Len(own)) = own
                      /\ {pair[1] : pair \in Range(added)} \subseteq Range(listed)
                      /\ \A n \in DOMAIN listed : Once(n) =>
                             Given(added, listed[n]) = Given(link.query_params, listed[n])
        IN  /\ Forwards(given.target, rule.target)
            /\ \A i \in DOMAIN given.links :
                  Forwards(given.links[i].href, rule.link_types[i].href)

(* Discovery and routing agree where a clause names the key: unless the      *)
(* operator declares the keys, the description advertises the key of every   *)
(* link that a rule with a primary_ai clause led somewhere, and GTINs when a *)
(* rule with a prefix or a pattern led one there (derive_primary_keys,       *)
(* Route.matches).  Of the other clauses see RoutedKeysAreAdvertised.        *)
PinnedKeysAreAdvertised ==
    /\ Routed /\ declared = {}
    /\ \/ "primary_ai" \in DOMAIN TheRule.match
       \/ TheLink.primary_ai = "01" /\ DOMAIN TheRule.match \cap {"gtin_prefix", "gtin_regex"} # {}
    => TheLink.primary_ai \in build_well_known(rules, declared)

(* The canonical form of a link resolves as the link does, to the same       *)
(* target and links: pairs that it reorders, names that it turns to numbers  *)
(* and AIs that it drops make no difference to the rules or the templates -  *)
(* when the form does not end in a value that urlparse cuts at a ";", when   *)
(* braces are those of the templates' placeholders only, and when quoting    *)
(* does not make the link too long (canonicalise, Router.resolve).           *)
CanonicalResolvesAlike ==
    Routed /\ NoBracesIn(TheLink) =>
        LET form     == canonicalise(TheLink)
            received == Received(form)
            last     == received[Len(received)]
            rule     == TheRule
        IN  /\ Range(form) \cap Oversized = {} /\ Cut(last) = last
            /\ Tidy(rule.target)
            /\ \A link \in Range(rule.link_types) : Tidy(link.href) /\ Tidy(link.title)
            => Answer(rules, declared, form, TheLink.query_params) = answer

(* A GTIN that resolves is not one that was copied wrongly: had one digit    *)
(* been another, or two neighbours been swapped that do not differ by five,  *)
(* the request would have been refused (validate_gtin14).                    *)
MistypedGtinIsRefused ==
    Accepted(path) /\ TheLink.primary_ai = "01" =>
        CatchesMistyping(DigitsOf(TheLink.primary_value))

-------------------------------------------------------------------------------
(* What the documentation says, and the code does not do. *)

(* router.py:21: a rule may list "query parameters copied from the incoming  *)
(* URI onto the target and every link href, so a carrier key printed after   *)
(* the "?" [...] reaches the DPP endpoint".                                  *)
CarrierKeyIsForwarded ==
    Routed =>
        \A i \in DOMAIN query :
            query[i][1] \in Range(TheRule.forward_query) => query[i] \in Range(answer.target.query)

(* wellknown.py:22: "supportedPrimaryKeys defaults to the set of primary     *)
(* keys the configured routes can actually match"; the catch-all alone is    *)
(* said to be left out (wellknown.py:152). So the key of a link that a rule  *)
(* with clauses led somewhere should be advertised.                          *)
RoutedKeysAreAdvertised ==
    Routed /\ declared = {} /\ DOMAIN TheRule.match # {} =>
        TheLink.primary_ai \in build_well_known(rules, declared)

===============================================================================

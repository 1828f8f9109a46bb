------------------------------- MODULE Routing -------------------------------
(***************************************************************************)
(* From the rules of routes.yaml and a parsed link to a target and links   *)
(* (src/resolver/router.py), and the primary keys that the resolver        *)
(* description derives from the same rules (src/resolver/wellknown.py).    *)
(*                                                                         *)
(* A rule is a record: match, a function from the names of its clauses to  *)
(* what they ask for (empty for a catch-all); target; link_types, each a   *)
(* href and a title; and forward_query.  A text that is filled, split or   *)
(* forwarded is the sequence of its characters; a template is the sequence *)
(* of the texts that it is written in.  A URL is told by what it reads as: *)
(* the pairs of its query, and what stands before and behind them.         *)
(***************************************************************************)
EXTENDS Collections, SequencesExt

CONSTANTS
    StartsWith(_, _),  \* str.startswith
    FullMatch(_, _),   \* re.fullmatch: "yes", "no", or "raises" on a bad pattern
    Among(_, _),       \* `serial in serial_in`: it raises if that is no container
    Spelt(_),          \* the characters of a key or a value
    unquote_plus(_),   \* urllib's decoding of a query's names and values
    Splits(_),         \* whether urlsplit takes a text: it raises at an open bracket
    Malformed,         \* a field that _validate_config rejects
    Null,              \* link_types: null
    NoText             \* a title that is no string, which nothing checks

-------------------------------------------------------------------------------
(* Loading. *)

SUPPORTED_PRIMARY_KEYS ==
    {"all", "00", "01", "253", "255", "401", "402", "410", "411", "412", "413", "414",
     "415", "417", "8003", "8004", "8006", "8010", "8013", "8017", "8018"}

(* Mutation: the names to forward are not checked. *)
WellFormedForward(rule) ==
    /\ rule.match # Malformed /\ rule.target # Malformed
    /\ rule.link_types # Malformed

WellFormed(rule) ==
    /\ rule.match # Malformed /\ rule.target # Malformed
    /\ rule.forward_query # Malformed
    /\ rule.link_types # Malformed

(* Of the well_known block, the keys that the operator declares; a block of  *)
(* another form, or with a field that is unknown or ill-typed, is Malformed. *)
validate_well_known_config(declared) ==
    declared # Malformed /\ declared \subseteq SUPPORTED_PRIMARY_KEYS

_validate_config(rules, declared) ==
    /\ rules # <<>> /\ \A i \in DOMAIN rules : WellFormed(rules[i])
    /\ validate_well_known_config(declared)

(* The checks read `link_types: null` as no links; building the route then   *)
(* iterates over None.                                                       *)
load(rules, declared) ==
    IF ~ _validate_config(rules, declared) THEN "ConfigError"
    ELSE IF \E i \in DOMAIN rules : rules[i].link_types = Null THEN "TypeError"
    ELSE "loaded"

-------------------------------------------------------------------------------
(* Matching. *)

(* The clauses, in the order in which they are tried. *)
Clauses == <<"primary_ai", "gtin_prefix", "gtin_regex", "has_qualifier", "serial_in">>

YesIf(test) == IF test THEN "yes" ELSE "no"

Try(clause, wanted, link) ==
    CASE clause = "primary_ai"    -> YesIf(link.primary_ai = wanted)
      [] clause = "gtin_prefix"   -> YesIf(StartsWith(link.primary_value, wanted))
      [] clause = "gtin_regex"    -> FullMatch(link.primary_value, wanted)
      [] clause = "has_qualifier" -> YesIf(wanted \in DOMAIN link.qualifiers)
      [] clause = "serial_in"     -> IF "21" \in DOMAIN link.qualifiers
                                       THEN Among(link.qualifiers["21"], wanted) ELSE "no"

(* The first clause that does not hold decides; a later one that would raise *)
(* is not tried.                                                             *)
matches(rule, link) ==
    LET Holds(i) == Try(Clauses[i], rule.match[Clauses[i]], link)
        stops == {i \in 1..Len(Clauses) : Clauses[i] \in DOMAIN rule.match /\ Holds(i) # "yes"}
    IN  IF stops = {} THEN "yes" ELSE Holds(Min(stops))

Stops(rules, link) == {i \in DOMAIN rules : matches(rules[i], link) # "no"}

(* Mutation: the last match wins. *)
LastMatch(rules, link) == IF Stops(rules, link) = {} THEN 0 ELSE Max(Stops(rules, link))

(* The rule that settles the search: it matches, or raises; 0 if none does. *)
FirstMatch(rules, link) == IF Stops(rules, link) = {} THEN 0 ELSE Min(Stops(rules, link))

-------------------------------------------------------------------------------
(* Filling. *)

LeftBrace  == "{"
RightBrace == "}"

Hole(key) == <<LeftBrace>> \o Spelt(key) \o <<RightBrace>>

(* The longest keys first; sorted() leaves those of one length in the order  *)
(* of the dict.                                                              *)
Keys(link) ==
    LET longest == Max({Len(key) : key \in Range(link.order)})
        OfLength(n) == Only(link.order, {key \in Range(link.order) : Len(key) = n})
    IN  FlattenSeq([n \in 1..longest |-> OfLength(longest + 1 - n)])

(* str.replace: from the left, wherever the old text stands. *)
Replaced(text, old, new) ==
    LET next(i) == i + Len(old)
        from[i \in 1..(Len(text) + 1)] ==
            IF i > Len(text) THEN <<>>
            ELSE IF next(i) <= Len(text) + 1 /\ SubSeq(text, i, next(i) - 1) = old
                   THEN new \o from[next(i)]
                   ELSE <<text[i]>> \o from[i + 1]
    IN  from[1]

(* Mutation: of a placeholder that stands twice only the first is filled. *)
FillOnce(template, link) ==
    FlattenSeq([i \in DOMAIN template |->
        IF \E key \in DOMAIN link.ctx :
               template[i] = Hole(key) /\ \A j \in 1..(i - 1) : template[j] # template[i]
          THEN Spelt(link.ctx[CHOOSE key \in DOMAIN link.ctx : template[i] = Hole(key)])
          ELSE template[i]])

(* Each key in turn replaces its placeholder in the whole text, in the       *)
(* values that were filled in before too.                                    *)
_fill(template, link) ==
    LET keys == Keys(link)
        after[n \in 0..Len(keys)] ==
            IF n = 0 THEN FlattenSeq(template)
            ELSE Replaced(after[n - 1], Hole(keys[n]), Spelt(link.ctx[keys[n]]))
    IN  after[Len(keys)]

-------------------------------------------------------------------------------
(* Queries. *)

At(text, sign) == SelectInSeq(text, LAMBDA c : c = sign)

UpTo(text, sign) == IF At(text, sign) = 0 THEN text ELSE SubSeq(text, 1, At(text, sign) - 1)

Past(text, sign) ==
    IF At(text, sign) = 0 THEN <<>> ELSE SubSeq(text, At(text, sign) + 1, Len(text))

(* The pairs between the "&" of a query; a blank value is kept. *)
parse_qsl(text) ==
    LET ends == {i \in 1..(Len(text) + 1) : i <= Len(text) => text[i] = "&"}
        chunk(end) == SubSeq(text, Max({0} \cup {i \in ends : i < end}) + 1, end - 1)
        pair(end) == <<unquote_plus(UpTo(chunk(end), "=")), unquote_plus(Past(chunk(end), "="))>>
    IN  Picked([end \in 1..(Len(text) + 1) |-> pair(end)], {end \in ends : chunk(end) # <<>>})

urlsplit(text) ==
    LET unfragmented == UpTo(text, "#")
    IN  [base     |-> UpTo(unfragmented, "?"),
         query    |-> parse_qsl(Past(unfragmented, "?")),
         fragment |-> Past(text, "#")]

(* The pairs of a query that have this name, in their order. *)
Given(params, name) == Only(params, {pair \in Range(params) : pair[1] = name})

(* Mutation: a parameter's first value only. *)
ForwardedFirst(rule, link) ==
    FlattenSeq([n \in DOMAIN rule.forward_query |->
        LET all == Given(link.query_params, rule.forward_query[n])
        IN  SubSeq(all, 1, IF all = <<>> THEN 0 ELSE 1)])

(* The pairs of the query that a rule names, in the order of the rule. *)
forwarded(rule, link) ==
    FlattenSeq([n \in DOMAIN rule.forward_query |->
        Given(link.query_params, rule.forward_query[n])])

(* With nothing to forward the text is left as it is, and reads the same. *)
_append_query(text, pairs) ==
    IF text = <<>> THEN urlsplit(text) ELSE [urlsplit(text) EXCEPT !.query = @ \o pairs]

Filled(template, rule, link) == _append_query(_fill(template, link), forwarded(rule, link))

-------------------------------------------------------------------------------
(* Resolving. *)

(* What is filled for a rule can be: titles are strings, and where a query   *)
(* is appended, texts are URLs.                                              *)
Fillable(rule, link) ==
    LET Takes(template) == LET text == _fill(template, link) IN text = <<>> \/ Splits(text)
    IN  /\ forwarded(rule, link) # <<>> => Takes(rule.target)
        /\ \A i \in DOMAIN rule.link_types :
              /\ forwarded(rule, link) # <<>> => Takes(rule.link_types[i].href)
              /\ rule.link_types[i].title # NoText

(* Router.resolve: whether a rule was found, or raised, and what it gives. *)
resolve(rules, link) ==
    LET found == FirstMatch(rules, link)
        rule  == rules[found]
    IN  IF found = 0 THEN [outcome |-> "none"]
        ELSE IF matches(rule, link) # "yes" \/ ~ Fillable(rule, link) THEN [outcome |-> "raises"]
        ELSE [outcome |-> "match",
              target  |-> Filled(rule.target, rule, link),
              links   |-> [i \in DOMAIN rule.link_types |->
                              [href  |-> Filled(rule.link_types[i].href, rule, link),
                               title |-> _fill(rule.link_types[i].title, link)]]]

-------------------------------------------------------------------------------
(* Describing. *)

(* Mutation: a pattern pins no key, only a prefix does. *)
PinnedByPrefix(rule) ==
    {rule.match[clause] : clause \in DOMAIN rule.match \cap {"primary_ai"}}
      \cup {ai \in {"01"} : "gtin_prefix" \in DOMAIN rule.match}

(* The keys that the clauses of a rule pin. *)
Pinned(rule) ==
    {rule.match[clause] : clause \in DOMAIN rule.match \cap {"primary_ai"}}
      \cup {ai \in {"01"} : DOMAIN rule.match \cap {"gtin_prefix", "gtin_regex"} # {}}

OrGTIN(keys) == IF keys = {} THEN {"01"} ELSE keys

derive_primary_keys(rules) ==
    OrGTIN(SUPPORTED_PRIMARY_KEYS \cap UNION {Pinned(rules[i]) : i \in DOMAIN rules})

(* supportedPrimaryKeys: what the operator declares, or what the rules pin. *)
build_well_known(rules, declared) ==
    IF declared # {} THEN declared ELSE derive_primary_keys(rules)

=============================================================================

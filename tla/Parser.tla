------------------------------- MODULE Parser -------------------------------
(***************************************************************************)
(* The operators of src/resolver/parser.py: reading a GS1 Digital Link URI *)
(* and writing its canonical form.                                         *)
(*                                                                         *)
(* A URI is the sequence of the tokens between its slashes, in which AIs   *)
(* and values alternate.  Of these, urlparse takes some for the host and   *)
(* the parameters; in the path that it leaves, the parser finds AI/value   *)
(* pairs with a regular expression that may start anywhere, while alpha    *)
(* names are translated by position.                                       *)
(***************************************************************************)
EXTENDS AITable, Naturals

CONSTANTS
    Number,      \* the tokens of two to four digits
    Cut(_),      \* a token up to its first ";"
    Lower(_),    \* str.lower
    Pad(_),      \* pad_gtin_to_14
    Quote(_)     \* urllib's quote

ASSUME NumbersAssumption ==
    /\ Range(NAME_TO_AI) \subseteq Number
    /\ PRIMARY_AIS \cup QUALIFIER_AIS \cup ATTRIBUTE_AIS \subseteq Number
    /\ \A token \in Number : Lower(token) \notin DOMAIN NAME_TO_AI
    /\ "" \notin Number

ASSUME CutAssumption == Cut("") = ""

-------------------------------------------------------------------------------
(* Reading. *)

(* Behind "//" a token is the host. *)
WithoutHost(uri) ==
    IF Len(uri) > 1 /\ uri[1] = "" THEN SubSeq(uri, 3, Len(uri)) ELSE uri

(* Behind a ";" in the last token are what urlparse calls its parameters,    *)
(* which nobody reads.                                                       *)
CutAtTheEnd(p) == [i \in DOMAIN p |-> IF i = Len(p) THEN Cut(p[i]) ELSE p[i]]

urlparse(uri) == CutAtTheEnd(WithoutHost(uri))

(* Mutation: alpha names are translated wherever they stand. *)
NormaliseEverywhere(p) ==
    [i \in DOMAIN p |->
        IF Lower(p[i]) \in DOMAIN NAME_TO_AI THEN NAME_TO_AI[Lower(p[i])] ELSE p[i]]

(* Alpha names are translated at odd positions only, where AIs belong. *)
normalise_alpha(p) ==
    [i \in DOMAIN p |->
        IF i % 2 = 1 /\ Lower(p[i]) \in DOMAIN NAME_TO_AI THEN NAME_TO_AI[Lower(p[i])]
                                                          ELSE p[i]]

(* The matches of the regular expression, left to right: a number and the   *)
(* value after it.  A pair's value is never taken for an AI; a number with  *)
(* an empty value is passed over.                                           *)
FindAll(p) ==
    LET from[i \in 1..(Len(p) + 1)] ==
            IF i >= Len(p) THEN <<>>
            ELSE IF p[i] \in Number /\ p[i + 1] # ""
                   THEN << <<p[i], p[i + 1]>> >> \o from[i + 2]
                   ELSE from[i + 1]
    IN  from[1]

Segments(p) == FindAll(normalise_alpha(p))

(* Mutation: a later primary key takes over. *)
LastPrimaryIndex(p) == SelectLastInSeq(Segments(p), LAMBDA seg : seg[1] \in PRIMARY_AIS)

(* Mutation: whatever comes first is the primary key. *)
FirstIndex(p) == IF Segments(p) = <<>> THEN 0 ELSE 1

(* The index of the first primary key; 0 if there is none, an error. *)
PrimaryIndex(p) == SelectInSeq(Segments(p), LAMBDA seg : seg[1] \in PRIMARY_AIS)

HasKey(p) == PrimaryIndex(p) # 0

Parses(uri) == HasKey(urlparse(uri))

(* Mutation: only what follows the primary key is read. *)
ByAIAfterKey(segs, key, ais) ==
    LET of(ai) == {i \in DOMAIN segs : i > key /\ segs[i][1] = ai}
    IN  [ai \in {a \in ais : of(a) # {}} |-> segs[Max(of(ai))][2]]

(* The value of each AI of a category: the last one, the routing key aside. *)
ByAI(segs, key, ais) ==
    LET of(ai) == {i \in DOMAIN segs \ {key} : segs[i][1] = ai}
    IN  [ai \in {a \in ais : of(a) # {}} |-> segs[Max(of(ai))][2]]

(* A primary key after the first is an attribute. *)
Classified(segs, key) ==
    [primary_ai    |-> segs[key][1],
     primary_value |-> segs[key][2],
     qualifiers    |-> ByAI(segs, key, QUALIFIER_AIS),
     attributes    |-> ByAI(segs, key, PRIMARY_AIS \cup ATTRIBUTE_AIS),
     unknown_ais   |-> Only(segs, {seg \in Range(segs) : ~is_known(seg[1])})]

ParsedPath(p) == Classified(Segments(p), PrimaryIndex(p))

parse(uri) == ParsedPath(urlparse(uri))

(* GS1ParseResult.as_dict: what a template may name. *)
as_dict(link) ==
    LET key     == [ai \in {link.primary_ai} |-> link.primary_value]
        carried == Updated(Updated(key, link.qualifiers), link.attributes)
        names   == [n \in {AI_TO_NAME[ai] : ai \in DOMAIN carried} |-> carried[NAME_TO_AI[n]]]
        get(values, ai) == IF ai \in DOMAIN values THEN values[ai] ELSE ""
        aliases == [serial |-> get(link.qualifiers, "21"),
                    batch  |-> get(link.qualifiers, "10"),
                    expiry |-> get(link.attributes, "17")]
    IN  Updated(Updated(aliases, carried), names)

(* The order of its keys: the primary key, qualifiers, attributes - each as  *)
(* the path has them first, by name and by AI - and the aliases.             *)
OrderOf(segs, key) ==
    LET rest(ais) == Picked(segs, {i \in DOMAIN segs \ {key} : segs[i][1] \in ais})
        puts == <<segs[key]>> \o rest(QUALIFIER_AIS) \o rest(PRIMARY_AIS \cup ATTRIBUTE_AIS)
    IN  Firsts(FlattenSeq([i \in DOMAIN puts |-> <<AI_TO_NAME[puts[i][1]], puts[i][1]>>])
                 \o <<"serial", "batch", "expiry">>)

as_dict_order(uri) ==
    LET p == urlparse(uri) IN OrderOf(Segments(p), PrimaryIndex(p))

-------------------------------------------------------------------------------
(* Writing. *)

(* The path that carries these pairs. *)
Printed(pairs) ==
    [i \in 1..(2 * Len(pairs)) |-> pairs[(i + 1) \div 2][IF i % 2 = 1 THEN 1 ELSE 2]]

Valued(values, ais) == [i \in DOMAIN ais |-> <<ais[i], values[ais[i]]>>]

KeyPair(link) ==
    <<link.primary_ai,
      IF link.primary_ai = "01" THEN Pad(link.primary_value) ELSE link.primary_value>>

(* Mutation: qualifiers that the primary key does not order are left out. *)
PairsOfTheOrder(link) ==
    LET ordered == Only(QUALIFIER_ORDER(link.primary_ai), DOMAIN link.qualifiers)
    IN  <<KeyPair(link)>> \o Valued(link.qualifiers, ordered)
                          \o Valued(link.attributes, sorted(DOMAIN link.attributes))

(* Ordered qualifiers, the other qualifiers, then attributes; sorted() sorts *)
(* the AIs as strings.  The query is dropped, and so are unknown AIs.        *)
CanonicalPairs(link) ==
    LET ordered == Only(QUALIFIER_ORDER(link.primary_ai), DOMAIN link.qualifiers)
        others  == sorted(DOMAIN link.qualifiers \ Range(ordered))
    IN  <<KeyPair(link)>> \o Valued(link.qualifiers, ordered \o others)
                          \o Valued(link.attributes, sorted(DOMAIN link.attributes))

canonicalise(link) ==
    LET pairs == CanonicalPairs(link)
    IN  Printed([i \in DOMAIN pairs |-> <<pairs[i][1], Quote(pairs[i][2])>>])

=============================================================================

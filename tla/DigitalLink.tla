---------------------------- MODULE DigitalLink ----------------------------
(***************************************************************************)
(* A carrier's GS1 Digital Link URI, read and written by the operators of  *)
(* module Parser (src/resolver/parser.py). The path is printed token by    *)
(* token, so that every path up to a length is read.                       *)
(***************************************************************************)
EXTENDS Parser

CONSTANTS
    Printer,     \* how carriers are printed: the token sequences that one may
                 \* print next, and a bound on the length of its paths
    Unquote(_)   \* the web server's decoding of a request's path

VARIABLES
    printer,   \* the printer of this carrier
    path       \* what it has printed

vars == <<printer, path>>

Token == UNION {UNION {Range(c) : c \in p.chunks} : p \in Printer}

(* The tokens of the path that urlparse leaves. *)
PathToken == Token \cup {Cut(t) : t \in Token}

ASSUME TokensAssumption ==
    \A p \in Printer : p.tokens \in Nat /\ p.chunks \subseteq Seq(Token)

(* What the parser may take for a value: one of them, or the AI of a name. *)
Value == PathToken \cup Range(NAME_TO_AI)

ASSUME ConversionsAssumption ==
    /\ \A v \in Value : v # "" => Pad(v) # ""
    /\ \A v \in Value \cup {Pad(w) : w \in Value} : Unquote(Quote(v)) = v
    /\ \A ai \in PRIMARY_AIS \cup QUALIFIER_AIS \cup ATTRIBUTE_AIS : Unquote(ai) = ai

Init == printer \in Printer /\ path = <<>>

Extend(c) ==
    /\ Len(path) + Len(c) <= printer.tokens
    /\ path' = path \o c
    /\ UNCHANGED printer

Next == \E c \in printer.chunks : Extend(c)

Spec == Init /\ [][Next]_vars

-------------------------------------------------------------------------------
(* Properties. *)

(* Every parse gives each AI its place: a primary key that is one, and      *)
(* qualifiers, attributes and unknown AIs that are what they are filed as.  *)
TypeOK ==
    /\ printer \in Printer /\ path \in Seq(Token)
    /\ Parses(path) =>
         LET link == parse(path)
         IN  /\ link.primary_ai \in PRIMARY_AIS
             /\ DOMAIN link.qualifiers \subseteq QUALIFIER_AIS
             /\ DOMAIN link.attributes \subseteq PRIMARY_AIS \cup ATTRIBUTE_AIS
             /\ \A seg \in Range(link.unknown_ais) : seg[1] \in Number

IsAI(token) == token \in Number \/ Lower(token) \in DOMAIN NAME_TO_AI
AI(token)   == IF token \in Number THEN token ELSE NAME_TO_AI[Lower(token)]

(* A well-formed path: pairs of an AI, by number or by name, and a value. *)
Aligned(p) ==
    /\ Len(p) % 2 = 0
    /\ \A i \in DOMAIN p : IF i % 2 = 1 THEN IsAI(p[i]) ELSE p[i] # ""

(* On a well-formed path the positional translation of names and the       *)
(* scanning regular expression agree: the parser reads exactly the pairs   *)
(* of the path that urlparse leaves, even when a value looks like an AI or *)
(* like an alpha name.                                                     *)
ReadsThePairs ==
    LET p == urlparse(path)
    IN  Aligned(p) =>
            Segments(p) = [i \in 1..(Len(p) \div 2) |-> <<AI(p[2*i - 1]), p[2*i]>>]

(* There is nothing in the last token that urlparse cuts off. *)
EndsWhole(uri) == Cut(uri[Len(uri)]) = uri[Len(uri)]

(* What a link identifies is settled by its first primary key: tokens       *)
(* printed after it never make the parser fail, or change the key; they     *)
(* change its value only where it was the last token and lost what stood    *)
(* behind a ";", which it has when it is the last no more.                  *)
KeyIsSettled ==
    [][Parses(path) =>
         LET p == urlparse(path)
         IN  /\ Parses(path')
             /\ parse(path').primary_ai = parse(path).primary_ai
             /\ \/ parse(path').primary_value = parse(path).primary_value
                \/ PrimaryIndex(p) = Len(Segments(p)) /\ ~ EndsWhole(path)]_vars

(* A resolver that is handed the canonical form of a link - its path decoded *)
(* by the web server - reads what it read from the link, unless the form     *)
(* ends in a value with a ";": nothing is lost but the unknown AIs, and only *)
(* a short GTIN is rewritten.                                                *)
CanonicalReadsAlike ==
    Parses(path) =>
        LET link == parse(path)
            form == canonicalise(link)
            received == [i \in DOMAIN form |-> Unquote(form[i])]
            key  == IF link.primary_ai = "01" THEN Pad(link.primary_value)
                                              ELSE link.primary_value
        IN  EndsWhole(received) =>
                parse(received) = [link EXCEPT !.primary_value = key, !.unknown_ais = <<>>]

(* Canonical forms deduplicate links (docs/ARCHITECTURE.md, "Canonical URI  *)
(* generation"): whatever order the pairs of a link with one primary key    *)
(* are printed in, the canonical form is the same - if the order does not   *)
(* end in a value that urlparse cuts at a ";".                              *)
CanonicalDeduplicates ==
    LET segs == Segments(urlparse(path))
        keys == {i \in 1..Len(segs) : segs[i][1] \in PRIMARY_AIS}
        form == canonicalise(parse(path))
    IN  (/\ Cardinality(keys) = 1
         /\ \A i, j \in 1..Len(segs) : segs[i][1] = segs[j][1] => i = j)
          => \A order \in Bijection(1..Len(segs), 1..Len(segs)) :
                LET printed == Printed([i \in 1..Len(segs) |-> segs[order[i]]])
                IN  EndsWhole(printed) => canonicalise(parse(printed)) = form

-------------------------------------------------------------------------------
(* What comments and docs say, and the code does not. *)

(* resolver/parser.py, _normalise_alpha: "values at the value position are  *)
(* left untouched" - every value the parser reports stands in the path.     *)
ValuesAreVerbatim ==
    LET p == urlparse(path) IN \A seg \in Range(Segments(p)) : seg[2] \in Range(p)

=============================================================================

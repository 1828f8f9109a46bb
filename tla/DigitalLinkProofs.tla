-------------------------- MODULE DigitalLinkProofs --------------------------
(***************************************************************************)
(* Proofs about the carriers of module DigitalLink: what the parser reads  *)
(* from a path of any length, printed by any printer.                      *)
(***************************************************************************)
EXTENDS DigitalLink, ParserProofs, FiniteSetTheorems

(* Every path is a sequence of the printers' tokens: what the lemmas about  *)
(* the parser ask of a path.                                                *)
PathType == printer \in Printer /\ path \in Seq(Token)

(* So is what urlparse leaves of it. *)
LEMMA PathTokens ==
    ASSUME NEW uri \in Seq(Token)
    PROVE  urlparse(uri) \in Seq(PathToken)
BY UrlparseType DEF Parsed, PathToken

(* It is at the start. *)
LEMMA InitPath == Init => PathType
BY DEF Init, PathType

(* It stays so. *)
LEMMA StepPath ==
    ASSUME PathType, [Next]_vars
    PROVE  PathType'
<1>1. CASE UNCHANGED vars
    BY <1>1 DEF PathType, vars
<1>2. ASSUME NEW c \in printer.chunks, Extend(c)
      PROVE  PathType'
    <2> DEFINE T == Token
    <2>1. c \in Seq(T)
        BY TokensAssumption DEF PathType
    <2>2. path \in Seq(T)
        BY DEF PathType
    <2>3. path' = path \o c /\ printer' = printer
        BY <1>2 DEF Extend
    <2> HIDE DEF T
    <2>4. path' \in Seq(T)
        BY <2>1, <2>2, <2>3
    <2> QED
        BY <2>3, <2>4 DEF PathType, T
<1> QED
    BY <1>1, <1>2 DEF Next

(* Every path is printed from tokens, and every parse of one files the      *)
(* AIs where they belong (parse, by the categories of ai_table.py).         *)
THEOREM TypeCorrect == Spec => []TypeOK
<1>1. PathType => TypeOK
    BY PathTokens, ParseType DEF PathType, TypeOK, Parses, parse
<1> QED
    BY <1>1, InitPath, StepPath, PTL DEF Spec

-------------------------------------------------------------------------------
(* What is read. *)

(* A well-formed path has numbers, once its names are translated, where AIs *)
(* belong; the scan then takes its pairs.                                   *)
LEMMA AlignedReads ==
    ASSUME NEW T, NEW p \in Seq(T), Aligned(p)
    PROVE  Segments(p) = [i \in 1..(Len(p) \div 2) |-> <<AI(p[2*i - 1]), p[2*i]>>]
<1> DEFINE V == Translated(T)
           q == normalise_alpha(p)
           n == Len(p) \div 2
<1>1. Len(p) \in Nat /\ DOMAIN p = 1..Len(p)
    OBVIOUS
<1>2. n \in Nat /\ Len(p) = 2*n
    <2>1. Len(p) % 2 = 0
        BY Zenon DEF Aligned
    <2>2. \A m \in Nat : m % 2 = 0 => m \div 2 \in Nat /\ m = 2 * (m \div 2)
        OBVIOUS
    <2> QED
        BY <1>1, <2>1, <2>2, Zenon
<1>3. q \in Seq(V) /\ Len(q) = Len(p)
    BY NormaliseAlpha DEF Translated
<1> HIDE DEF n, V
<1>4. ASSUME NEW k \in 1..n
      PROVE  2*k - 1 \in 1..Len(p) /\ 2*k \in 1..Len(p)
    BY <1>2
<1>5. ASSUME NEW k \in 1..n
      PROVE  (2*k - 1) % 2 = 1 /\ (2*k) % 2 = 0
    BY <1>2
<1>6. ASSUME NEW k \in 1..n
      PROVE  /\ q[2*k - 1] = AI(p[2*k - 1]) /\ q[2*k - 1] \in Number
             /\ q[2*k] = p[2*k] /\ q[2*k] # ""
    <2> DEFINE a == 2*k - 1
               b == 2*k
    <2>1. a \in DOMAIN p /\ b \in DOMAIN p /\ a % 2 = 1 /\ b % 2 # 1
        BY <1>1, <1>4, <1>5
    <2> HIDE DEF a, b
    <2>2. IsAI(p[a]) /\ p[b] # ""
        <3>1. \A i \in DOMAIN p : IF i % 2 = 1 THEN IsAI(p[i]) ELSE p[i] # ""
            BY Zenon DEF Aligned
        <3> QED
            BY <2>1, <3>1, Zenon
    <2>3. /\ q[a] = IF Lower(p[a]) \in DOMAIN NAME_TO_AI THEN NAME_TO_AI[Lower(p[a])] ELSE p[a]
          /\ q[b] = p[b]
        BY <2>1 DEF normalise_alpha
    <2>4. CASE p[a] \in Number
        <3>1. q[a] = p[a]
            BY <2>3, <2>4, NumbersAssumption
        <3> QED
            BY <2>2, <2>3, <2>4, <3>1 DEF AI, a, b
    <2>5. CASE p[a] \notin Number
        <3>1. Lower(p[a]) \in DOMAIN NAME_TO_AI
            BY <2>2, <2>5 DEF IsAI
        <3>2. NAME_TO_AI[Lower(p[a])] \in Number
            BY <3>1, NumbersAssumption DEF Range
        <3> QED
            BY <2>2, <2>3, <2>5, <3>1, <3>2 DEF AI, a, b
    <2> QED
        BY <2>4, <2>5
<1> HIDE DEF q
<1>7. PairsUp(q, n)
    BY <1>2, <1>3, <1>6, Zenon DEF PairsUp
<1>8. FindAll(q) = [k \in 1..n |-> <<q[2*k - 1], q[2*k]>>]
    BY <1>2, <1>3, <1>7, FindAllAligned
<1>9. FindAll(q) = [k \in 1..n |-> <<AI(p[2*k - 1]), p[2*k]>>]
    BY <1>6, <1>8, Zenon
<1> QED
    BY <1>9 DEF Segments, q, n

(* The positional translation of names and the scan of the regular          *)
(* expression, _normalise_alpha and _AI_PATH_RE, read a well-formed         *)
(* path as the pairs printed on it, whatever its values look like.          *)
THEOREM PairsAreRead == Spec => []ReadsThePairs
<1>1. PathType => ReadsThePairs
    BY PathTokens, AlignedReads DEF PathType, ReadsThePairs
<1> QED
    BY <1>1, InitPath, StepPath, PTL DEF Spec

(* What is printed behind a primary key never changes what the parser takes *)
(* for the routing key, and never makes it fail; its value changes only     *)
(* where it was printed last, and urlparse cut it.                          *)
THEOREM KeyStaysSettled == Spec => KeyIsSettled
<1> DEFINE Settled ==
        Parses(path) =>
            /\ Parses(path')
            /\ parse(path').primary_ai = parse(path).primary_ai
            /\ \/ parse(path').primary_value = parse(path).primary_value
               \/ /\ PrimaryIndex(urlparse(path)) = Len(Segments(urlparse(path)))
                  /\ ~ EndsWhole(path)
<1>1. ASSUME PathType, [Next]_vars
      PROVE  [Settled]_vars
    <2>1. ASSUME NEW c \in printer.chunks, Extend(c), Parses(path)
          PROVE  Settled
        <3> DEFINE T == Token
                   W == PathToken
        <3>1. c \in Seq(T) /\ path \in Seq(T)
            BY <1>1, TokensAssumption DEF PathType
        <3>2. path' = path \o c
            BY <2>1 DEF Extend
        <3>3. HasKey(urlparse(path)) /\ urlparse(path) \in Seq(W)
            BY <2>1, <3>1, PathTokens DEF Parses
        <3>4. \A t \in T : t \in W /\ Cut(t) \in W
            BY DEF PathToken
        <3>5. W = Parsed(T)
            BY DEF Parsed, PathToken
        <3> HIDE DEF T, W
        <3>6. CASE c = <<>>
            <4>1. path' = path
                BY <3>1, <3>2, <3>6
            <4> QED
                BY <2>1, <4>1, Zenon
        <3>7. CASE c # <<>>
            <4> DEFINE l == path[Len(path)]
            <4>1. Len(urlparse(path)) > 1
                BY <3>3, KeyNeedsTwo
            <4>2. PICK p \in Seq(T), d \in Seq(W) :
                      /\ urlparse(path) = p \o <<Cut(l)>>
                      /\ urlparse(path \o c) = (p \o <<l>>) \o d
                <5>1. Uncut(path, c, T)
                    BY <3>1, <3>7, <4>1, UrlparseExtends
                <5> QED
                    BY <3>5, <5>1, Zenon DEF Uncut
            <4>3. l \in T /\ Len(path) \in Nat
                <5>1. path # <<>>
                    <6>1. ASSUME path = <<>>
                          PROVE  urlparse(path) = <<>>
                        BY <6>1 DEF urlparse, WithoutHost, CutAtTheEnd
                    <6> QED
                        BY <4>1, <6>1
                <5> QED
                    BY <3>1, <5>1
            <4>4. p \in Seq(W) /\ l \in W /\ Cut(l) \in W
                <5>1. T \subseteq W
                    BY <3>4
                <5> QED
                    BY <3>4, <4>2, <4>3, <5>1, SeqMonotonic
            <4>5. EndsWhole(path) <=> Cut(l) = l
                BY DEF EndsWhole
            <4>6. AsFull(l, Cut(l))
                BY CutAssumption, Zenon DEF AsFull
            <4> DEFINE q == p \o <<Cut(l)>>
                       r == (p \o <<l>>) \o d
            <4> HIDE DEF l
            <4>7. /\ HasKey(r)
                  /\ ParsedPath(r).primary_ai = ParsedPath(q).primary_ai
                  /\ \/ ParsedPath(r).primary_value = ParsedPath(q).primary_value
                     \/ PrimaryIndex(q) = Len(Segments(q))
                BY <3>3, <4>2, <4>4, <4>6, KeyOutlastsItsToken
            <4>8. Cut(l) = l => ParsedPath(r).primary_value = ParsedPath(q).primary_value
                <5> SUFFICES ASSUME Cut(l) = l
                             PROVE  ParsedPath(q \o d).primary_value = ParsedPath(q).primary_value
                    OBVIOUS
                <5>1. q \in Seq(W)
                    BY <4>4
                <5>2. HasKey(q)
                    BY <3>3, <4>2
                <5> HIDE DEF q, r
                <5> QED
                    BY <4>2, <5>1, <5>2, KeySettles
            <4>9. urlparse(path) = q /\ urlparse(path') = r
                BY <3>2, <4>2
            <4> HIDE DEF q, r
            <4> QED
                BY <4>5, <4>7, <4>8, <4>9, Zenon DEF Parses, parse
        <3> QED
            BY <3>6, <3>7
    <2> QED
        BY <1>1, <2>1 DEF Next
<1> QED
    BY <1>1, InitPath, StepPath, PTL DEF Spec, KeyIsSettled

-------------------------------------------------------------------------------
(* What is written. *)

(* The web server's decoding of a canonical path gives the path of its      *)
(* pairs, as they were before they were quoted.                             *)
LEMMA Decoded ==
    ASSUME NEW V, NEW pairs \in Seq(Pairs(V)),
           \A v \in V : Unquote(Quote(v)) = v,
           \A i \in 1..Len(pairs) : Unquote(pairs[i][1]) = pairs[i][1],
           NEW quoted, quoted = [i \in DOMAIN pairs |-> <<pairs[i][1], Quote(pairs[i][2])>>]
    PROVE  [i \in DOMAIN Printed(quoted) |-> Unquote(Printed(quoted)[i])] = Printed(pairs)
<1> DEFINE n == Len(pairs)
<1>1. n \in Nat /\ DOMAIN pairs = 1..n
    OBVIOUS
<1>2. Len(quoted) = n
    BY <1>1
<1>3. ASSUME NEW i \in 1..n
      PROVE  /\ Unquote(quoted[i][1]) = pairs[i][1]
             /\ Unquote(quoted[i][2]) = pairs[i][2]
    <2>1. pairs[i] \in Pairs(V)
        OBVIOUS
    <2>2. pairs[i][2] \in V
        BY <2>1, PairParts
    <2> QED
        BY <1>1, <2>2
<1> HIDE DEF n
<1>4. Printed(quoted) = [i \in 1..(2*n) |-> quoted[(i + 1) \div 2][IF i % 2 = 1 THEN 1 ELSE 2]]
    BY <1>2 DEF Printed
<1>5. Printed(pairs) = [i \in 1..(2*n) |-> pairs[(i + 1) \div 2][IF i % 2 = 1 THEN 1 ELSE 2]]
    BY DEF Printed, n
<1>6. ASSUME NEW i \in 1..(2*n)
      PROVE  Unquote(Printed(quoted)[i]) = Printed(pairs)[i]
    <2> DEFINE k == (i + 1) \div 2
    <2>1. k \in 1..n
        BY <1>1
    <2>2. /\ Printed(quoted)[i] = quoted[k][IF i % 2 = 1 THEN 1 ELSE 2]
          /\ Printed(pairs)[i] = pairs[k][IF i % 2 = 1 THEN 1 ELSE 2]
        BY <1>4, <1>5
    <2> HIDE DEF k
    <2> QED
        BY <1>3, <2>1, <2>2
<1>7. DOMAIN Printed(quoted) = 1..(2*n)
    BY <1>4
<1>8. Printed(pairs) = [i \in 1..(2*n) |-> Printed(pairs)[i]]
    BY <1>5
<1> QED
    BY <1>6, <1>7, <1>8, Zenon

(* The canonical form of a link that was parsed from a path, decoded, is    *)
(* parsed as that link, when there is nothing to cut at its end.            *)
LEMMA CanonicalIsRead ==
    ASSUME NEW p \in Seq(Token), Parses(p)
    PROVE  LET link == parse(p)
               form == canonicalise(link)
               received == [i \in DOMAIN form |-> Unquote(form[i])]
           IN  EndsWhole(received) =>
                   parse(received)
                     = [link EXCEPT !.primary_value = KeyPair(link)[2], !.unknown_ais = <<>>]
<1> DEFINE T == PathToken
           u == urlparse(p)
           V == Padded(Translated(T))
           link == parse(p)
           pairs == CanonicalPairs(link)
           quoted == [i \in DOMAIN pairs |-> <<pairs[i][1], Quote(pairs[i][2])>>]
           q == Printed(pairs)
<1>1. /\ \A v \in Translated(T) : v # "" => Pad(v) # ""
      /\ \A v \in V : Unquote(Quote(v)) = v
    BY ConversionsAssumption DEF Translated, Value, Padded
<1>2. u \in Seq(T) /\ HasKey(u) /\ link = ParsedPath(u)
    BY PathTokens DEF Parses, parse
<1> HIDE DEF u
<1>3. /\ link.primary_ai \in PRIMARY_AIS
      /\ DOMAIN link.qualifiers \subseteq QUALIFIER_AIS
      /\ DOMAIN link.attributes \subseteq PRIMARY_AIS \cup ATTRIBUTE_AIS
    BY <1>2, ParseType
<1>4. /\ link.qualifiers = [ai \in DOMAIN link.qualifiers |-> link.qualifiers[ai]]
      /\ link.attributes = [ai \in DOMAIN link.attributes |-> link.attributes[ai]]
    BY <1>2, ParseValues
<1>5. PICK ai, value, Q, A, unknown :
          link = [primary_ai |-> ai, primary_value |-> value, qualifiers |-> Q,
                  attributes |-> A, unknown_ais |-> unknown]
    BY <1>2, Zenon DEF ParsedPath, Classified
<1>6. pairs \in Seq(Pairs(V))
    <2> HIDE DEF T
    <2>1. CanonicalPairs(ParsedPath(u)) \in Seq(Pairs(Padded(Translated(T))))
        BY <1>1, <1>2, CanonicalPairsType
    <2> QED
        BY <1>2, <2>1
<1>7. \A i \in 1..Len(pairs) : Unquote(pairs[i][1]) = pairs[i][1]
    <2>1. PICK rest \in Seq(PairsOf(link.qualifiers) \cup PairsOf(link.attributes)) :
              pairs = <<KeyPair(link)>> \o rest
        BY <1>3, CanonicalPairsAre
    <2> DEFINE AIs == PRIMARY_AIS \cup QUALIFIER_AIS \cup ATTRIBUTE_AIS
               all == {KeyPair(link)} \cup PairsOf(link.qualifiers) \cup PairsOf(link.attributes)
    <2>2. \A pair \in all : pair[1] \in AIs
        BY <1>3 DEF KeyPair, PairsOf
    <2>3. rest \in Seq(all)
        BY <2>1, SeqMonotonic
    <2>4. KeyPair(link) \in all
        OBVIOUS
    <2> HIDE DEF all, link, pairs
    <2>5. pairs \in Seq(all)
        BY <2>1, <2>3, <2>4, Prefixed
    <2>6. \A i \in 1..Len(pairs) : pairs[i] \in all
        BY <2>5
    <2> QED
        BY <2>2, <2>6, ConversionsAssumption
<1>8. canonicalise(link) = Printed(quoted)
    BY DEF canonicalise
<1> HIDE DEF T, V, link, pairs, quoted
<1>9. [i \in DOMAIN Printed(quoted) |-> Unquote(Printed(quoted)[i])] = q
    BY <1>1, <1>6, <1>7, Decoded DEF quoted
<1>10. q \in Seq(V \cup Number) /\ Segments(q) = pairs
    BY <1>6, PrintedReads
<1> HIDE DEF q
<1>11. ParsedPath(q) = [primary_ai    |-> link.primary_ai,
                        primary_value |-> KeyPair(link)[2],
                        qualifiers    |-> link.qualifiers,
                        attributes    |-> link.attributes,
                        unknown_ais   |-> <<>>]
    <2> DEFINE W == V \cup Number
    <2>1. q \in Seq(W) /\ Segments(q) = CanonicalPairs(link)
        BY <1>10 DEF pairs
    <2> HIDE DEF W
    <2> QED
        BY <2>1, <1>3, <1>4, CanonicalReads
<1>12. ParsedPath(q) = [link EXCEPT !.primary_value = KeyPair(link)[2], !.unknown_ais = <<>>]
    <2> DEFINE k == KeyPair(link)[2]
    <2> HIDE DEF k
    <2>1. ParsedPath(q) = [primary_ai |-> ai, primary_value |-> k, qualifiers |-> Q,
                      attributes |-> A, unknown_ais |-> <<>>]
        BY <1>5, <1>11 DEF k
    <2> DEFINE once == [link EXCEPT !.primary_value = k]
    <2>2. once = [primary_ai |-> ai, primary_value |-> k, qualifiers |-> Q,
                  attributes |-> A, unknown_ais |-> unknown]
        BY <1>5
    <2>3. [link EXCEPT !.primary_value = k, !.unknown_ais = <<>>] = [once EXCEPT !.unknown_ais = <<>>]
        BY <1>5
    <2> HIDE DEF once
    <2>4. [once EXCEPT !.unknown_ais = <<>>]
            = [primary_ai |-> ai, primary_value |-> k, qualifiers |-> Q,
               attributes |-> A, unknown_ais |-> <<>>]
        BY <2>2
    <2> QED
        BY <2>1, <2>3, <2>4 DEF k
<1>13. EndsWhole(q) => urlparse(q) = q
    <2>1. Len(pairs) # 0
        <3>1. PICK rest \in Seq(PairsOf(link.qualifiers) \cup PairsOf(link.attributes)) :
                  pairs = <<KeyPair(link)>> \o rest
            BY <1>3, CanonicalPairsAre DEF pairs
        <3> HIDE DEF pairs
        <3> QED
            BY <3>1
    <2> QED
        BY <1>6, <2>1, PrintedIsLeft DEF EndsWhole, q
<1>14. EndsWhole(q) => parse(q) = [link EXCEPT !.primary_value = KeyPair(link)[2], !.unknown_ais = <<>>]
    BY <1>12, <1>13, Zenon DEF parse
<1> QED
    BY <1>8, <1>9, <1>14, Zenon DEF link

(* A link's canonical URI, decoded as web servers decode the path of a      *)
(* request, is parsed as that link: canonicalise loses nothing but unknown  *)
(* AIs, and rewrites nothing but a short GTIN.                              *)
THEOREM CanonicalFormsReadAlike == Spec => []CanonicalReadsAlike
<1>1. PathType => CanonicalReadsAlike
    BY CanonicalIsRead DEF PathType, CanonicalReadsAlike, KeyPair
<1> QED
    BY <1>1, InitPath, StepPath, PTL DEF Spec

(* Two paths whose pairs differ in their order only have one canonical      *)
(* form: there is one primary key in them, and no AI stands twice.          *)
OneKey(segs, key) == {i \in 1..Len(segs) : segs[i][1] \in PRIMARY_AIS} = {key}

(* A parse of such a path finds the same key and the same values. *)
LEMMA OrderIsIrrelevant ==
    ASSUME NEW T, NEW p \in Seq(T), NEW perm \in Seq(Pairs(Translated(T))),
           NEW order, NEW moved, NEW key,
           Reordered(perm, Segments(p), order, moved, key), OneKey(Segments(p), key)
    PROVE  /\ Len(perm) # 0
           /\ canonicalise(ParsedPath(Printed(perm))) = canonicalise(ParsedPath(p))
<1> DEFINE segs == Segments(p)
           n == Len(segs)
           S == Pairs(Translated(T))
           q == Printed(perm)
<1>1. segs \in Seq(S) /\ perm \in Seq(S)
    BY SegmentsType
<1>2. Reordered(perm, segs, order, moved, key) /\ OneKey(segs, key)
    OBVIOUS
<1>3. q \in Seq(Translated(T) \cup Number) /\ Segments(q) = perm
    <2> DEFINE V == Translated(T)
    <2>1. perm \in Seq(Pairs(V))
        OBVIOUS
    <2> HIDE DEF V
    <2>2. Printed(perm) \in Seq(V \cup Number) /\ Segments(Printed(perm)) = perm
        BY <2>1, PrintedReads
    <2> QED
        BY <2>2 DEF V
<1> HIDE DEF S
<1>4. ASSUME NEW ais
      PROVE  ByAI(perm, moved, ais) = ByAI(segs, key, ais)
    <2> HIDE DEF segs
    <2> QED
        BY <1>1, <1>2, ReorderedReads
<1>5. key \in 1..n /\ segs[key][1] \in PRIMARY_AIS
    BY <1>2 DEF OneKey
<1>6. PrimaryIndex(p) = key
    <2>1. PrimaryIndex(p) \in 1..n /\ segs[PrimaryIndex(p)][1] \in PRIMARY_AIS
        BY <1>5, PrimaryIndexFirst
    <2> QED
        BY <1>2, <2>1 DEF OneKey
<1>7. /\ Len(perm) = n /\ moved \in 1..n /\ order[moved] = key
      /\ \A i \in 1..n : perm[i] = segs[order[i]] /\ order[i] \in 1..n
      /\ \A i, j \in 1..n : order[i] = order[j] => i = j
    BY <1>2 DEF Reordered, Bijection, Injection, IsInjective
<1> HIDE DEF segs, n, q
<1>8. PrimaryIndex(q) = moved
    <2> DEFINE W == Translated(T) \cup Number
    <2>1. q \in Seq(W)
        BY <1>3
    <2> HIDE DEF W
    <2>2. moved \in 1..Len(perm) /\ perm[moved][1] \in PRIMARY_AIS
        BY <1>5, <1>7
    <2>3. HasKey(q)
        BY <1>3, <2>1, <2>2, PrimaryIndexFirst
    <2>4. PrimaryIndex(q) \in 1..n /\ perm[PrimaryIndex(q)][1] \in PRIMARY_AIS
        BY <1>3, <1>7, <2>1, <2>3, PrimaryIndexFirst
    <2>5. order[PrimaryIndex(q)] = key
        BY <1>2, <1>7, <2>4 DEF OneKey, n
    <2> QED
        BY <1>7, <2>4, <2>5
<1>9. /\ ParsedPath(q).primary_ai = ParsedPath(p).primary_ai
      /\ ParsedPath(q).primary_value = ParsedPath(p).primary_value
      /\ ParsedPath(q).qualifiers = ParsedPath(p).qualifiers
      /\ ParsedPath(q).attributes = ParsedPath(p).attributes
    <2>1. perm[moved] = segs[key]
        BY <1>7
    <2>2. /\ ParsedPath(p).primary_ai = segs[key][1] /\ ParsedPath(p).primary_value = segs[key][2]
          /\ ParsedPath(p).qualifiers = ByAI(segs, key, QUALIFIER_AIS)
          /\ ParsedPath(p).attributes = ByAI(segs, key, PRIMARY_AIS \cup ATTRIBUTE_AIS)
        BY <1>6 DEF ParsedPath, Classified, segs
    <2>3. /\ ParsedPath(q).primary_ai = perm[moved][1] /\ ParsedPath(q).primary_value = perm[moved][2]
          /\ ParsedPath(q).qualifiers = ByAI(perm, moved, QUALIFIER_AIS)
          /\ ParsedPath(q).attributes = ByAI(perm, moved, PRIMARY_AIS \cup ATTRIBUTE_AIS)
        BY <1>3, <1>8 DEF ParsedPath, Classified, q
    <2> QED
        BY <1>4, <2>1, <2>2, <2>3
<1>10. CanonicalPairs(ParsedPath(q)) = CanonicalPairs(ParsedPath(p))
    BY <1>9, Zenon DEF CanonicalPairs, KeyPair
<1>11. canonicalise(ParsedPath(q)) = canonicalise(ParsedPath(p))
    BY <1>10, Zenon DEF canonicalise
<1> QED
    <2>1. Len(perm) # 0
        BY <1>7
    <2> QED
        BY <1>11, <2>1 DEF q

(* Every arrangement of pairs moves the routing key somewhere. *)
LEMMA Rearranged ==
    ASSUME NEW S, NEW segs \in Seq(S), Distinct(segs), NEW key \in 1..Len(segs),
           NEW order \in Bijection(1..Len(segs), 1..Len(segs)),
           NEW perm, perm = [i \in 1..Len(segs) |-> segs[order[i]]]
    PROVE  perm \in Seq(S) /\ \E moved : Reordered(perm, segs, order, moved, key)
<1> DEFINE n == Len(segs)
<1>1. n \in Nat
    OBVIOUS
<1>2. \A i \in 1..n : order[i] \in 1..n
    BY DEF Bijection, Injection, Surjection
<1>3. PICK moved \in 1..n : order[moved] = key
    BY DEF Bijection, Surjection
<1>4. \A i \in 1..n : segs[order[i]] \in S
    BY <1>2
<1>5. Len(perm) = n /\ perm \in Seq(S) /\ \A i \in 1..n : perm[i] = segs[order[i]]
    <2>1. perm = [i \in 1..n |-> segs[order[i]]]
        OBVIOUS
    <2> HIDE DEF n
    <2> QED
        BY <1>1, <1>4, <2>1
<1>6. Reordered(perm, segs, order, moved, key)
    BY <1>3, <1>5, Zenon DEF Reordered
<1> QED
    BY <1>5, <1>6

(* The canonical URI of a link does not tell in which order its pairs were  *)
(* printed, unless they ended in a value that urlparse cuts: canonical URIs *)
(* deduplicate links (canonicalise).                                        *)
THEOREM CanonicalFormsDeduplicate == Spec => []CanonicalDeduplicates
<1>1. ASSUME PathType
      PROVE  CanonicalDeduplicates
    <2> DEFINE u == urlparse(path)
               segs == Segments(u)
               n == Len(segs)
               keys == {i \in 1..n : segs[i][1] \in PRIMARY_AIS}
    <2>1. SUFFICES ASSUME Cardinality(keys) = 1, Distinct(segs),
                          NEW order \in Bijection(1..n, 1..n),
                          EndsWhole(Printed([i \in 1..n |-> segs[order[i]]]))
                   PROVE  canonicalise(parse(Printed([i \in 1..n |-> segs[order[i]]])))
                            = canonicalise(ParsedPath(u))
        BY Zenon DEF CanonicalDeduplicates, Distinct, parse
    <2> DEFINE T == PathToken
               S == Pairs(Translated(T))
               perm == [i \in 1..n |-> segs[order[i]]]
    <2>2. u \in Seq(T)
        BY <1>1, PathTokens DEF PathType
    <2> HIDE DEF T, u
    <2>3. segs \in Seq(S)
        BY <2>2, SegmentsType
    <2>4. IsFiniteSet(keys)
        <3>1. n \in Nat
            BY <2>3
        <3>2. IsFiniteSet(1..n)
            BY <3>1, FS_Interval
        <3> QED
            BY <3>2, FS_Subset
    <2>5. PICK key : keys = {key}
        BY <2>1, <2>4, FS_Singleton
    <2>6. key \in 1..Len(segs) /\ OneKey(segs, key)
        BY <2>5 DEF OneKey
    <2>7. perm = [i \in 1..Len(segs) |-> segs[order[i]]] /\ Distinct(segs)
          /\ order \in Bijection(1..Len(segs), 1..Len(segs))
        BY <2>1
    <2> HIDE DEF segs, n, perm, keys, S
    <2>8. perm \in Seq(S) /\ \E moved : Reordered(perm, segs, order, moved, key)
        BY <2>3, <2>6, <2>7, Rearranged
    <2>9. PICK moved : Reordered(perm, segs, order, moved, key)
        BY <2>8
    <2>10. Len(perm) # 0 /\ canonicalise(ParsedPath(Printed(perm))) = canonicalise(ParsedPath(u))
        BY <2>2, <2>6, <2>8, <2>9, OrderIsIrrelevant DEF segs, S
    <2>11. EndsWhole(Printed(perm))
        BY <2>1 DEF perm, n
    <2>12. urlparse(Printed(perm)) = Printed(perm)
        <3> DEFINE V == Translated(T)
        <3>1. perm \in Seq(Pairs(V))
            BY <2>8 DEF S
        <3> HIDE DEF V
        <3> QED
            BY <2>10, <2>11, <3>1, PrintedIsLeft DEF EndsWhole
    <2>13. canonicalise(parse(Printed(perm))) = canonicalise(ParsedPath(u))
        BY <2>10, <2>12 DEF parse
    <2> QED
        BY <2>13 DEF perm, n
<1> QED
    BY <1>1, InitPath, StepPath, PTL DEF Spec

=============================================================================

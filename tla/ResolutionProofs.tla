--------------------------- MODULE ResolutionProofs ---------------------------
(***************************************************************************)
(* Proofs about module Resolution, for every config, every link and every  *)
(* way in which values are compared and matched: what later rules may      *)
(* change, which GTINs resolve, which keys are advertised, what templates  *)
(* are filled with and what is forwarded, and where a link's canonical     *)
(* form leads.                                                             *)
(***************************************************************************)
EXTENDS Resolution, ParserProofs

(* The check digit.  Check digit included, the weighted sum of a valid GTIN  *)
(* is a multiple of ten, and a mistake shifts it by less than that.          *)
Sum(g) == Weighted(g) + g[14]

(* A GTIN is a function to integers, and its sums are integers. *)
LEMMA DigitsAreIntegers ==
    ASSUME NEW g \in GTIN14
    PROVE  /\ g \in [1..14 -> Int]
           /\ Sum(g) \in Int /\ Weighted(g) \in Int
<1>1. g \in [1..14 -> Int]
  BY DEF GTIN14, Digit
<1>2. Weighted(g) \in Int
  BY <1>1 DEF Weighted
<1> QED
  BY <1>1, <1>2 DEF Sum

(* Being valid is being a multiple of ten. *)
LEMMA ValidSum ==
    ASSUME NEW g \in GTIN14
    PROVE  validate_gtin14(g) <=> Sum(g) % 10 = 0
<1>1. ASSUME NEW w \in Int, NEW d \in Digit
      PROVE  (10 - (w % 10)) % 10 = d <=> (w + d) % 10 = 0
  BY DEF Digit
<1>2. g[14] \in Digit
  BY DEF GTIN14
<1> QED
  BY <1>1, <1>2, DigitsAreIntegers DEF validate_gtin14, Sum

(* A wrong digit moves the sum by its error, or by three times its error. *)
LEMMA MiswrittenSum ==
    ASSUME NEW g \in [1..14 -> Int], NEW i \in 1..14, NEW d \in Int
    PROVE  \/ Sum(Miswritten(g, i, d)) = Sum(g) + 3 * (d - g[i])
           \/ Sum(Miswritten(g, i, d)) = Sum(g) + (d - g[i])
BY DEF Miswritten, Weighted, Sum

(* Two neighbours weigh one and three: swapping them moves it by twice their *)
(* difference.                                                               *)
LEMMA SwappedSum ==
    ASSUME NEW g \in [1..14 -> Int], NEW i \in 1..13
    PROVE  \/ Sum(Swapped(g, i)) = Sum(g) + 2 * (g[i + 1] - g[i])
           \/ Sum(Swapped(g, i)) = Sum(g) - 2 * (g[i + 1] - g[i])
BY DEF Swapped, Weighted, Sum

(* Which errors are multiples of ten. *)
LEMMA Multiples ==
    ASSUME NEW a \in Digit, NEW b \in Digit, NEW s \in Int, s % 10 = 0
    PROVE  /\ (s + 3 * (b - a)) % 10 = 0 => a = b
           /\ (s + (b - a)) % 10 = 0 => a = b
           /\ (s + 2 * (b - a)) % 10 = 0 => (a - b) % 5 = 0
           /\ (s - 2 * (b - a)) % 10 = 0 => (a - b) % 5 = 0
BY SMT DEF Digit

(* One wrong digit, wherever it stands, is always caught, and so are two     *)
(* neighbours the wrong way round unless they differ by five.                *)
THEOREM MistypingCaught ==
    \A g \in GTIN14 : validate_gtin14(g) => CatchesMistyping(g)
<1> SUFFICES ASSUME NEW g \in GTIN14, validate_gtin14(g)
             PROVE  CatchesMistyping(g)
  OBVIOUS
<1>1. Sum(g) \in Int /\ Sum(g) % 10 = 0 /\ g \in [1..14 -> Int]
  BY ValidSum, DigitsAreIntegers
<1>2. ASSUME NEW i \in 1..14, NEW d \in Digit \ {g[i]}
      PROVE  ~ validate_gtin14(Miswritten(g, i, d))
  <2>1. d \in Digit /\ d \in Int /\ g[i] \in Digit /\ d # g[i]
    BY DEF GTIN14, Digit
  <2>2. Miswritten(g, i, d) \in GTIN14
    BY <2>1 DEF Miswritten, GTIN14
  <2>3. CASE Sum(Miswritten(g, i, d)) = Sum(g) + 3 * (d - g[i])
    BY <1>1, <2>1, <2>2, <2>3, ValidSum, Multiples
  <2>4. CASE Sum(Miswritten(g, i, d)) = Sum(g) + (d - g[i])
    BY <1>1, <2>1, <2>2, <2>4, ValidSum, Multiples
  <2> QED
    BY <1>1, <2>1, <2>3, <2>4, MiswrittenSum
<1>3. ASSUME NEW i \in 1..13, (g[i] - g[i + 1]) % 5 # 0
      PROVE  ~ validate_gtin14(Swapped(g, i))
  <2>1. g[i] \in Digit /\ g[i + 1] \in Digit
    BY DEF GTIN14
  <2>2. Swapped(g, i) \in GTIN14
    BY <2>1 DEF Swapped, GTIN14
  <2>3. CASE Sum(Swapped(g, i)) = Sum(g) + 2 * (g[i + 1] - g[i])
    BY <1>1, <1>3, <2>1, <2>2, <2>3, ValidSum, Multiples
  <2>4. CASE Sum(Swapped(g, i)) = Sum(g) - 2 * (g[i + 1] - g[i])
    BY <1>1, <1>3, <2>1, <2>2, <2>4, ValidSum, Multiples
  <2> QED
    BY <1>1, <2>3, <2>4, SwappedSum
<1> QED
  BY <1>2, <1>3 DEF CatchesMistyping

(* Padding gives a number of a GTIN's length fourteen digits, once: what has *)
(* been padded, or needs none, stays as it is.                               *)
THEOREM PaddingSettles ==
    \A g \in Seq(Digit) :
        /\ pad_gtin_to_14(pad_gtin_to_14(g)) = pad_gtin_to_14(g)
        /\ g \in GTIN14 => pad_gtin_to_14(g) = g
        /\ Len(g) \in {8, 12, 13, 14} => pad_gtin_to_14(g) \in GTIN14
<1> SUFFICES ASSUME NEW g \in Seq(Digit)
             PROVE  /\ pad_gtin_to_14(pad_gtin_to_14(g)) = pad_gtin_to_14(g)
                    /\ g \in GTIN14 => pad_gtin_to_14(g) = g
                    /\ Len(g) \in {8, 12, 13, 14} => pad_gtin_to_14(g) \in GTIN14
  OBVIOUS
<1>1. ASSUME NEW h \in Seq(Digit), Len(h) = 14 PROVE pad_gtin_to_14(h) = h
  <2>1. h = [i \in 1..14 |-> h[i]]
    BY <1>1
  <2>2. \A i \in 1..14 : ~ (i <= 0) /\ i - 0 = i
    OBVIOUS
  <2>3. [i \in 1..14 |-> IF i <= 0 THEN 0 ELSE h[i - 0]] = [i \in 1..14 |-> h[i]]
    BY <2>2
  <2> QED
    BY <1>1, <2>1, <2>3 DEF pad_gtin_to_14
<1>2. ASSUME NEW h \in GTIN14 PROVE h \in Seq(Digit) /\ Len(h) = 14
  <2>1. [1..14 -> Digit] \subseteq Seq(Digit)
    BY SeqDef
  <2> QED
    BY <2>1, LenProperties DEF GTIN14
<1>3. ASSUME Len(g) \in {8, 12, 13, 14} PROVE pad_gtin_to_14(g) \in GTIN14
  <2> DEFINE zeros == 14 - Len(g)
  <2>1. \A i \in 1..14 : i > zeros => i - zeros \in 1..Len(g)
    BY <1>3
  <2>2. \A i \in 1..14 : i > zeros => g[i - zeros] \in Digit
    BY <2>1
  <2>3. 0 \in Digit /\ \A i \in 1..14 : i <= zeros \/ i > zeros
    BY <1>3 DEF Digit
  <2>4. [i \in 1..14 |-> IF i <= zeros THEN 0 ELSE g[i - zeros]] \in GTIN14
    BY <2>2, <2>3 DEF GTIN14
  <2> QED
    BY <1>3, <2>4 DEF pad_gtin_to_14
<1>4. Len(g) \notin {8, 12, 13, 14} => pad_gtin_to_14(g) = g
  BY DEF pad_gtin_to_14
<1> QED
  BY <1>1, <1>2, <1>3, <1>4

-------------------------------------------------------------------------------

(* The rules. *)

(* What the operator wrote and the carrier printed are sequences, within      *)
(* their bounds.                                                             *)
InputsAreSequences ==
    /\ bound \in Bound /\ declared \in bound.declared
    /\ rules \in Seq(Rule) /\ Len(rules) <= bound.rules
    /\ path \in Seq(Token) /\ Len(path) <= bound.tokens
    /\ query \in Seq(Param) /\ Len(query) <= bound.params

(* Rules behind the one that settles the search are not reached. *)
LEMMA AddedLast ==
    ASSUME NEW config \in Seq(Rule), NEW rule \in Rule, NEW link,
           FirstMatch(config, link) # 0
    PROVE  resolve(Append(config, rule), link) = resolve(config, link)
<1> DEFINE longer == Append(config, rule)
           Old == Stops(config, link)
           New == Stops(longer, link)
<1>1. /\ DOMAIN config = 1..Len(config) /\ DOMAIN longer = 1..(Len(config) + 1)
      /\ Len(config) \in Nat
      /\ \A i \in DOMAIN config : longer[i] = config[i]
    OBVIOUS
<1>2. /\ Old # {} /\ Old \subseteq New
      /\ \A i \in New : i \in Old \/ i = Len(config) + 1
      /\ New \in SUBSET Nat /\ Old \in SUBSET (1..Len(config))
    BY <1>1 DEF FirstMatch, Stops
<1> HIDE DEF longer, Old, New
<1>3. Min(New) = Min(Old)
    <2>1. /\ Min(Old) \in Old /\ \A n \in Old : Min(Old) <= n
          /\ Min(New) \in New /\ \A n \in New : Min(New) <= n
        BY <1>1, <1>2, LeastExists
    <2> QED
        BY <2>1, <1>1, <1>2
<1>4. FirstMatch(longer, link) = FirstMatch(config, link)
    BY <1>2, <1>3 DEF FirstMatch, Old, New
<1>5. FirstMatch(config, link) \in DOMAIN config
    BY <1>1, <1>2, LeastExists DEF FirstMatch, Old
<1>6. longer[FirstMatch(config, link)] = config[FirstMatch(config, link)]
    BY <1>1, <1>5
<1> QED
    BY <1>4, <1>6 DEF resolve, longer

(* They stay sequences of what they are made of. *)
LEMMA SequencesKept == Spec => []InputsAreSequences
<1>1. Init => InputsAreSequences
    BY BoundAssumption DEF Init, InputsAreSequences
<1>2. InputsAreSequences /\ [Next]_vars => InputsAreSequences'
    <2> SUFFICES ASSUME InputsAreSequences, [Next]_vars
                 PROVE  InputsAreSequences'
        OBVIOUS
    <2> USE DEF InputsAreSequences
    <2>1. ASSUME NEW rule \in Rule, AddRule(rule)
          PROVE  InputsAreSequences'
        BY <2>1, BoundAssumption DEF AddRule
    <2>2. ASSUME NEW pair \in Pair, Extend(pair)
          PROVE  InputsAreSequences'
        <3>1. pair \in Seq(Token)
            <4>1. pair \in Seq(Range(pair)) /\ Range(pair) \subseteq Token
                BY CarrierAssumption DEF IsSequence, Token
            <4> QED
                BY <4>1, SeqMonotonic
        <3>2. path \o pair \in Seq(Token) /\ Len(path \o pair) = Len(path) + Len(pair)
            BY <3>1
        <3> QED
            BY <2>2, <3>2 DEF Extend
    <2>3. ASSUME NEW param \in Param, Ask(param)
          PROVE  InputsAreSequences'
        BY <2>3, BoundAssumption DEF Ask
    <2>4. CASE UNCHANGED vars
        BY <2>4 DEF vars
    <2> QED
        BY <2>1, <2>2, <2>3, <2>4 DEF Next
<1> QED
    BY <1>1, <1>2, PTL DEF Spec

(* What a request is answered depends on the rules through load() and        *)
(* resolve() alone.                                                          *)
LEMMA AnsweredAlike ==
    ASSUME NEW old, NEW new, NEW keys, NEW printed, NEW params,
           load(old, keys) = "loaded", load(new, keys) = "loaded",
           resolve(new, Link(printed, params)) = resolve(old, Link(printed, params))
    PROVE  Answer(new, keys, printed, params) = Answer(old, keys, printed, params)
BY DEF Answer

(* The first match wins: a rule added at the end changes no answer that the  *)
(* rules before it gave (Router.resolve).                                    *)
THEOREM LaterRulesKept == Spec => LaterRulesYield
<1> DEFINE Settled == /\ UNCHANGED <<declared, path, query>>
                      /\ Searched /\ load(rules', declared) = "loaded"
                      /\ answer.outcome # "none"
           Kept == Answer(rules', declared, path, query) = answer
<1>1. InputsAreSequences /\ [Next]_vars => [Settled => Kept]_vars
    <2> SUFFICES ASSUME InputsAreSequences, Next, Settled
                 PROVE  Kept
        OBVIOUS
    <2>1. ASSUME rules' = rules
          PROVE  Kept
        BY <2>1 DEF answer
    <2>2. ASSUME NEW rule \in Rule, AddRule(rule)
          PROVE  Kept
        <3>1. answer = resolve(rules, TheLink)
            BY DEF Searched, answer, Answer, TheLink
        <3>2. FirstMatch(rules, TheLink) # 0
            BY <3>1 DEF resolve
        <3>3. resolve(rules', TheLink) = resolve(rules, TheLink)
            BY <2>2, <3>2, AddedLast DEF AddRule, InputsAreSequences
        <3> QED
            BY <3>3, AnsweredAlike DEF Searched, answer, TheLink
    <2> QED
        BY <2>1, <2>2 DEF Next, Extend, Ask
<1> QED
    BY <1>1, SequencesKept, PTL DEF Spec, LaterRulesYield

(* Whatever a path decodes to, a GTIN that resolve() accepts has a check     *)
(* digit that gives every single mistake away.                               *)
THEOREM MistypedRefused == Spec => []MistypedGtinIsRefused
<1>1. MistypedGtinIsRefused
    <2> SUFFICES ASSUME Accepted(path), TheLink.primary_ai = "01"
                 PROVE  CatchesMistyping(DigitsOf(TheLink.primary_value))
        BY DEF MistypedGtinIsRefused
    <2>1. validate_gtin14(DigitsOf(TheLink.primary_value))
        BY DEF Accepted, TheLink, Link, Seen
    <2>2. DigitsOf(TheLink.primary_value) \in GTIN14
        BY <2>1 DEF validate_gtin14
    <2> QED
        BY <2>1, <2>2, MistypingCaught
<1> QED
    BY <1>1, PTL

-------------------------------------------------------------------------------
(* str.replace. *)

(* The old text stands at position i. *)
Occurs(text, old, i) ==
    i + Len(old) <= Len(text) + 1 /\ SubSeq(text, i, (i + Len(old)) - 1) = old

(* What Replaced makes of a text from each of its positions on. *)
Replaces(f, text, old, new) ==
    \A i \in 1..(Len(text) + 1) :
        f[i] = IF i > Len(text) THEN <<>>
               ELSE IF Occurs(text, old, i) THEN new \o f[i + Len(old)]
               ELSE <<text[i]>> \o f[i + 1]

(* Replaced is the value at 1 of such a function. *)
LEMMA ReplacedIsComputed ==
    ASSUME NEW T, NEW text \in Seq(T), NEW old \in Seq(T), NEW new \in Seq(T), old # <<>>
    PROVE  \E f \in [1..(Len(text) + 1) -> Seq(T)] :
               Replaced(text, old, new) = f[1] /\ Replaces(f, text, old, new)
<1> DEFINE n == Len(text)
           m == n + 1
           k == Len(old)
           head == [i \in 1..n |-> IF Occurs(text, old, i) THEN new ELSE <<text[i]>>]
           next == [i \in 1..n |-> IF Occurs(text, old, i) THEN i + k ELSE i + 1]
           Body(g) == [i \in 1..(Len(text) + 1) |->
                          IF i > Len(text) THEN <<>>
                          ELSE IF i + Len(old) <= Len(text) + 1
                                    /\ SubSeq(text, i, (i + Len(old)) - 1) = old
                                 THEN new \o g[i + Len(old)]
                                 ELSE <<text[i]>> \o g[i + 1]]
           from == CHOOSE g : g = Body(g)
<1>1. /\ n \in Nat /\ m \in Nat /\ n < m /\ m = n + 1 /\ k \in Nat /\ k > 0
      /\ \A i \in 1..n : text[i] \in T
    OBVIOUS
<1>2. \A i \in 1..n : Occurs(text, old, i) => i + k <= m
    BY DEF Occurs
<1>3. Replaced(text, old, new) = from[1]
    BY Zenon DEF Replaced
<1> HIDE DEF from, n, m, k
<1>4. /\ next \in [1..n -> 1..m] /\ \A i \in 1..n : next[i] > i
      /\ \A i \in 1..n : next[i] = IF Occurs(text, old, i) THEN i + k ELSE i + 1
    BY <1>1, <1>2
<1>5. /\ head \in [1..n -> Seq(T)]
      /\ \A i \in 1..n : head[i] = IF Occurs(text, old, i) THEN new ELSE <<text[i]>>
    BY <1>1
<1> HIDE DEF head, next
<1>6. PICK g \in [1..m -> Seq(T)] : IsComputed(g, m, n, head, next)
    BY <1>1, <1>4, <1>5, BackwardRecursion
<1>7. ASSUME NEW i \in 1..m
      PROVE  g[i] = IF i > n THEN <<>>
                    ELSE IF Occurs(text, old, i) THEN new \o g[i + k]
                    ELSE <<text[i]>> \o g[i + 1]
    <2>1. CASE i > n
        BY <1>6, <2>1 DEF IsComputed
    <2>2. CASE ~ (i > n)
        <3>1. i \in 1..n
            BY <1>1, <2>2
        <3>2. g[i] = head[i] \o g[next[i]]
            BY <1>6, <2>2 DEF IsComputed
        <3> QED
            BY <1>4, <1>5, <2>2, <3>1, <3>2
    <2> QED
        BY <2>1, <2>2
<1>8. g = Body(g)
    <2>1. \A i \in 1..(Len(text) + 1) :
              g[i] = IF i > Len(text) THEN <<>>
                     ELSE IF i + Len(old) <= Len(text) + 1
                               /\ SubSeq(text, i, (i + Len(old)) - 1) = old
                            THEN new \o g[i + Len(old)]
                            ELSE <<text[i]>> \o g[i + 1]
        BY <1>7, Zenon DEF Occurs, n, m, k
    <2>2. g \in [1..(Len(text) + 1) -> Seq(T)]
        BY DEF m, n
    <2> QED
        BY <2>1, <2>2, Zenon
<1>9. from = Body(from)
    BY <1>8, Zenon DEF from
<1>10. /\ from \in [1..(Len(text) + 1) -> Seq(T)]
       /\ Replaces(from, text, old, new)
    <2>1. ASSUME NEW h, h = Body(h)
          PROVE  Replaces(h, text, old, new)
        BY <2>1, Zenon DEF Replaces, Occurs
    <2>2. Replaces(from, text, old, new)
        BY <1>9, <2>1, Zenon
    <2> DEFINE Good == {i \in 1..m : from[i] = g[i]}
    <2>3. ASSUME NEW i \in 1..m, \A j \in 1..m : j > i => j \in Good
          PROVE  i \in Good
        <3>1. from[i] = IF i > n THEN <<>>
                        ELSE IF Occurs(text, old, i) THEN new \o from[i + k]
                        ELSE <<text[i]>> \o from[i + 1]
            BY <2>2, Zenon DEF Replaces, m, n, k
        <3>2. CASE i > n
            BY <1>7, <3>1, <3>2
        <3>3. CASE ~ (i > n) /\ Occurs(text, old, i)
            <4>1. i \in 1..n /\ i + k \in 1..m /\ i + k > i
                BY <1>1, <1>2, <3>3
            <4>2. from[i + k] = g[i + k]
                BY <2>3, <4>1
            <4> QED
                BY <1>7, <3>1, <3>3, <4>2
        <3>4. CASE ~ (i > n) /\ ~ Occurs(text, old, i)
            <4>1. i + 1 \in 1..m /\ i + 1 > i
                BY <1>1, <3>4
            <4>2. from[i + 1] = g[i + 1]
                BY <2>3, <4>1
            <4> QED
                BY <1>7, <3>1, <3>4, <4>2
        <3> QED
            BY <3>2, <3>3, <3>4
    <2> HIDE DEF Good
    <2>4. 1..m \subseteq Good
        BY <1>1, <2>3, BackwardInduction
    <2>5. \A i \in 1..m : from[i] = g[i]
        BY <2>4 DEF Good
    <2>6. from = [i \in 1..m |-> from[i]]
        BY <1>9, Zenon DEF m, n
    <2>7. from \in [1..m -> Seq(T)]
        BY <2>5, <2>6
    <2> QED
        BY <2>2, <2>7 DEF m, n
<1> QED
    BY <1>3, <1>10, Zenon

(* Replacing makes a text of a text. *)
LEMMA ReplacedType ==
    ASSUME NEW T, NEW text \in Seq(T), NEW old \in Seq(T), NEW new \in Seq(T), old # <<>>
    PROVE  Replaced(text, old, new) \in Seq(T)
<1>1. PICK f \in [1..(Len(text) + 1) -> Seq(T)] : Replaced(text, old, new) = f[1]
    BY ReplacedIsComputed
<1>2. 1 \in 1..(Len(text) + 1)
    OBVIOUS
<1> QED
    BY <1>1, <1>2

(* A part of what stands behind another text. *)
LEMMA PartBehind ==
    ASSUME NEW T, NEW a \in Seq(T), NEW b \in Seq(T), NEW i \in Nat, NEW j \in Nat,
           1 <= i, j <= Len(b)
    PROVE  SubSeq(a \o b, Len(a) + i, Len(a) + j) = SubSeq(b, i, j)
<1> DEFINE n == Len(a)
           x == SubSeq(a \o b, n + i, n + j)
           y == SubSeq(b, i, j)
<1>1. n \in Nat /\ a \o b \in Seq(T) /\ Len(a \o b) = n + Len(b) /\ Len(b) \in Nat
    OBVIOUS
<1>2. \A l \in 1..Len(b) : (a \o b)[n + l] = b[l]
    OBVIOUS
<1>3. \A l \in (n + i)..(n + j) : (a \o b)[l] \in T
    <2>1. \A l \in (n + i)..(n + j) : l \in 1..(n + Len(b))
        BY <1>1
    <2> QED
        BY <1>1, <2>1
<1>4. \A l \in i..j : b[l] \in T
    OBVIOUS
<1>5. /\ x \in Seq(T) /\ Len(x) = IF n + i <= n + j THEN (n + j) - (n + i) + 1 ELSE 0
      /\ \A l \in 1..((n + j) - (n + i) + 1) : x[l] = (a \o b)[(n + i) + l - 1]
    BY <1>1, <1>3, SubSeqProperties
<1>6. /\ y \in Seq(T) /\ Len(y) = IF i <= j THEN j - i + 1 ELSE 0
      /\ \A l \in 1..(j - i + 1) : y[l] = b[i + l - 1]
    BY <1>4, SubSeqProperties
<1> HIDE DEF n, x, y
<1>7. Len(x) = Len(y) /\ Len(x) = IF i <= j THEN j - i + 1 ELSE 0
    BY <1>1, <1>5, <1>6
<1>8. ASSUME NEW l \in 1..Len(x)
      PROVE  x[l] = y[l]
    <2>1. l \in 1..(j - i + 1) /\ l \in 1..((n + j) - (n + i) + 1) /\ i + l - 1 \in 1..Len(b)
        BY <1>1, <1>7
    <2>2. x[l] = (a \o b)[n + (i + l - 1)]
        <3>1. (n + i) + l - 1 = n + (i + l - 1)
            BY <1>1
        <3> QED
            BY <1>5, <2>1, <3>1
    <2> QED
        BY <1>2, <1>6, <2>1, <2>2
<1>9. x = y
    BY <1>5, <1>6, <1>7, <1>8, SeqEqual
<1> QED
    BY <1>9 DEF x, y, n

(* Behind a beginning, a text is replaced as if it stood alone. *)
LEMMA ReplacedBehind ==
    ASSUME NEW T, NEW s \in Seq(T), NEW u \in Seq(T), NEW old \in Seq(T), NEW new \in Seq(T),
           old # <<>>,
           NEW f, Replaces(f, s \o u, old, new), NEW g, Replaces(g, u, old, new)
    PROVE  f[Len(s) + 1] = g[1]
<1> DEFINE n == Len(s)
           m == Len(u)
           k == Len(old)
           t == s \o u
           Good == {i \in 1..(m + 1) : f[n + i] = g[i]}
<1>1. n \in Nat /\ m \in Nat /\ k \in Nat /\ k > 0 /\ Len(t) = n + m
    OBVIOUS
<1>2. \A i \in 1..m : t[n + i] = u[i]
    OBVIOUS
<1>3. ASSUME NEW i \in 1..(m + 1)
      PROVE  Occurs(t, old, n + i) <=> Occurs(u, old, i)
    <2>1. ((n + i) + k <= (n + m) + 1) <=> (i + k <= m + 1)
        BY <1>1
    <2>2. ASSUME i + k <= m + 1
          PROVE  SubSeq(t, n + i, ((n + i) + k) - 1) = SubSeq(u, i, (i + k) - 1)
        <3>1. (i + k) - 1 \in Nat /\ (i + k) - 1 <= m /\ ((n + i) + k) - 1 = n + ((i + k) - 1)
            BY <1>1, <2>2
        <3> QED
            BY <3>1, PartBehind
    <2> QED
        BY <1>1, <2>1, <2>2 DEF Occurs
<1>4. \A i \in 1..(m + 1) :
          g[i] = IF i > m THEN <<>>
                 ELSE IF Occurs(u, old, i) THEN new \o g[i + k]
                 ELSE <<u[i]>> \o g[i + 1]
    BY DEF Replaces
<1>5. \A i \in 1..((n + m) + 1) :
          f[i] = IF i > n + m THEN <<>>
                 ELSE IF Occurs(t, old, i) THEN new \o f[i + k]
                 ELSE <<t[i]>> \o f[i + 1]
    BY <1>1 DEF Replaces
<1>6. \A i \in 1..m : Occurs(u, old, i) => i + k <= m + 1
    BY DEF Occurs
<1> HIDE DEF n, m, k, t
<1>7. ASSUME NEW i \in 1..(m + 1), \A j \in 1..(m + 1) : j > i => f[n + j] = g[j]
      PROVE  f[n + i] = g[i]
    <2>1. f[n + i] = IF n + i > n + m THEN <<>>
                     ELSE IF Occurs(t, old, n + i) THEN new \o f[(n + i) + k]
                     ELSE <<t[n + i]>> \o f[(n + i) + 1]
        <3>1. n + i \in 1..((n + m) + 1)
            BY <1>1
        <3> QED
            BY <1>5, <3>1
    <2>2. (n + i > n + m) <=> (i > m)
        BY <1>1
    <2>3. CASE i > m
        BY <1>4, <2>1, <2>2, <2>3
    <2>4. CASE ~ (i > m) /\ Occurs(u, old, i)
        <3>1. i \in 1..m /\ i + k \in 1..(m + 1) /\ i + k > i /\ (n + i) + k = n + (i + k)
            BY <1>1, <1>6, <2>4
        <3>2. f[(n + i) + k] = g[i + k]
            BY <1>7, <3>1
        <3> QED
            BY <1>3, <1>4, <2>1, <2>2, <2>4, <3>2
    <2>5. CASE ~ (i > m) /\ ~ Occurs(u, old, i)
        <3>1. i \in 1..m /\ i + 1 \in 1..(m + 1) /\ i + 1 > i /\ (n + i) + 1 = n + (i + 1)
            BY <1>1, <2>5
        <3>2. f[(n + i) + 1] = g[i + 1]
            BY <1>7, <3>1
        <3> QED
            BY <1>2, <1>3, <1>4, <2>1, <2>2, <2>5, <3>1, <3>2
    <2> QED
        BY <2>3, <2>4, <2>5
<1>8. ASSUME NEW i \in 1..(m + 1), \A j \in 1..(m + 1) : j > i => j \in Good
      PROVE  i \in Good
    BY <1>7, <1>8
<1> HIDE DEF Good
<1>9. 1..(m + 1) \subseteq Good
    <2> DEFINE l == m + 1
    <2>1. l \in Nat
        BY <1>1
    <2>2. \A i \in 1..l : (\A j \in 1..l : j > i => j \in Good) => i \in Good
        BY <1>8
    <2> HIDE DEF l
    <2>3. 1..l \subseteq Good
        BY <2>1, <2>2, BackwardInduction
    <2> QED
        BY <2>3 DEF l
<1>10. 1 \in 1..(m + 1)
    BY <1>1
<1>11. 1 \in Good
    BY <1>9, <1>10
<1> QED
    BY <1>11 DEF Good, n

(* Where the old text stands in front, it gives way to the new one. *)
LEMMA ReplacedInFront ==
    ASSUME NEW T, NEW old \in Seq(T), NEW new \in Seq(T), NEW rest \in Seq(T), old # <<>>
    PROVE  Replaced(old \o rest, old, new) = new \o Replaced(rest, old, new)
<1> DEFINE text == old \o rest
           k == Len(old)
<1>1. text \in Seq(T) /\ Len(text) = k + Len(rest) /\ k \in Nat /\ k > 0 /\ Len(rest) \in Nat
    OBVIOUS
<1>2. PICK f \in [1..(Len(text) + 1) -> Seq(T)] :
          Replaced(text, old, new) = f[1] /\ Replaces(f, text, old, new)
    BY <1>1, ReplacedIsComputed
<1>3. PICK g \in [1..(Len(rest) + 1) -> Seq(T)] :
          Replaced(rest, old, new) = g[1] /\ Replaces(g, rest, old, new)
    BY ReplacedIsComputed
<1>4. f[k + 1] = g[1]
    BY <1>2, <1>3, ReplacedBehind
<1>5. SubSeq(text, 1, k) = old
    <2>1. \A i \in 1..k : text[i] = old[i] /\ text[i] \in T
        OBVIOUS
    <2> DEFINE x == SubSeq(text, 1, k)
    <2>2. x \in Seq(T) /\ Len(x) = k /\ \A i \in 1..k : x[i] = text[i]
        <3> HIDE DEF text
        <3>1. /\ x \in Seq(T) /\ Len(x) = IF 1 <= k THEN k - 1 + 1 ELSE 0
              /\ \A i \in 1..(k - 1 + 1) : x[i] = text[1 + i - 1]
            BY <1>1, <2>1, SubSeqProperties
        <3> QED
            BY <1>1, <3>1
    <2> HIDE DEF x, text
    <2>3. x = old
        BY <2>1, <2>2, SeqEqual
    <2> QED
        BY <2>3 DEF x
<1>6. Occurs(text, old, 1)
    <2>1. 1 + k <= Len(text) + 1 /\ (1 + k) - 1 = k
        BY <1>1
    <2> QED
        BY <1>5, <2>1 DEF Occurs
<1> HIDE DEF text
<1>7. f[1] = new \o f[1 + k]
    <2>1. 1 \in 1..(Len(text) + 1) /\ ~ (1 > Len(text))
        BY <1>1
    <2> QED
        BY <1>2, <1>6, <2>1 DEF Replaces
<1>8. 1 + k = k + 1
    BY <1>1
<1> QED
    BY <1>2, <1>3, <1>4, <1>7, <1>8 DEF text

(* A text of one character. *)
Single(c) == <<c>>

(* A character in front of a text. *)
LEMMA InFront ==
    ASSUME NEW T, NEW c \in T, NEW rest \in Seq(T)
    PROVE  /\ Single(c) \in Seq(T) /\ Single(c) \o rest \in Seq(T) /\ Len(Single(c)) = 1
           /\ Len(Single(c) \o rest) = Len(rest) + 1 /\ Len(rest) \in Nat
           /\ (Single(c) \o rest)[1] = c
           /\ \A i \in 1..Len(rest) : (Single(c) \o rest)[i + 1] = rest[i]
BY DEF Single

(* Where it does not, the first character stays. *)
LEMMA ReplacedLater ==
    ASSUME NEW T, NEW c \in T, NEW rest \in Seq(T),
           NEW old \in Seq(T), NEW new \in Seq(T), old # <<>>,
           ~ Occurs(Single(c) \o rest, old, 1)
    PROVE  Replaced(Single(c) \o rest, old, new) = Single(c) \o Replaced(rest, old, new)
<1> DEFINE s == Single(c)
           text == s \o rest
<1>1. /\ text \in Seq(T) /\ s \in Seq(T) /\ Len(s) = 1 /\ text[1] = c
      /\ Len(text) = Len(rest) + 1 /\ Len(rest) \in Nat
    BY InFront
<1> HIDE DEF s
<1>2. PICK f \in [1..(Len(text) + 1) -> Seq(T)] :
          Replaced(text, old, new) = f[1] /\ Replaces(f, text, old, new)
    BY <1>1, ReplacedIsComputed
<1>3. PICK g \in [1..(Len(rest) + 1) -> Seq(T)] :
          Replaced(rest, old, new) = g[1] /\ Replaces(g, rest, old, new)
    BY ReplacedIsComputed
<1>6. f[Len(s) + 1] = g[1]
    BY <1>1, <1>2, <1>3, ReplacedBehind
<1>8. ~ Occurs(text, old, 1)
    BY DEF s
<1> HIDE DEF text
<1>4. f[1] = Single(c) \o f[1 + 1]
    <2>1. 1 \in 1..(Len(text) + 1) /\ ~ (1 > Len(text))
        BY <1>1
    <2>2. f[1] = <<text[1]>> \o f[1 + 1]
        BY <1>2, <1>8, <2>1 DEF Replaces
    <2> QED
        BY <1>1, <2>2 DEF Single
<1>7. f[1 + 1] = g[1]
    BY <1>1, <1>6
<1> QED
    BY <1>2, <1>3, <1>4, <1>7 DEF text, s

Regroups(a, b, c) == (a \o b) \o c = a \o (b \o c)

(* Texts one behind the other. *)
LEMMA Regrouped ==
    ASSUME NEW T, NEW a \in Seq(T), NEW b \in Seq(T), NEW c \in Seq(T)
    PROVE  Regroups(a, b, c)
BY ConcatAssociative DEF Regroups

(* A text that is not empty: its first character, and the rest. *)
Joined(x, c, y) == x = Single(c) \o y

Begins(x, c, y) ==
    /\ Joined(x, c, y) /\ Len(x) = Len(y) + 1 /\ c = x[1]
    /\ \A i \in 1..Len(y) : y[i] = x[i + 1]

(* Every text that is not empty has these. *)
LEMMA Beginning ==
    ASSUME NEW T, NEW x \in Seq(T), Len(x) # 0
    PROVE  \E c \in T : \E y \in Seq(T) : Begins(x, c, y)
<1> DEFINE y == Tail(x)
           c == x[1]
           z == Single(c) \o y
<1>1. /\ c \in T /\ y \in Seq(T) /\ Len(x) = Len(y) + 1 /\ Len(y) \in Nat
      /\ \A i \in 1..Len(y) : y[i] = x[i + 1]
    OBVIOUS
<1>0. c = x[1]
    OBVIOUS
<1> HIDE DEF y, c
<1>2. z \in Seq(T) /\ Len(z) = Len(x) /\ \A i \in 1..Len(z) : z[i] = x[i]
    <2>1. /\ z \in Seq(T) /\ Len(z) = Len(y) + 1 /\ z[1] = c
          /\ \A i \in 1..Len(y) : z[i + 1] = y[i]
        BY <1>1, InFront
    <2> HIDE DEF z
    <2>2. ASSUME NEW i \in 1..(Len(y) + 1)
          PROVE  z[i] = x[i]
        <3>1. i = 1 \/ (i - 1 \in 1..Len(y) /\ (i - 1) + 1 = i)
            BY <1>1
        <3>2. CASE i = 1
            BY <1>0, <2>1, <3>2
        <3>3. CASE i - 1 \in 1..Len(y) /\ (i - 1) + 1 = i
            <4>1. z[(i - 1) + 1] = y[i - 1] /\ y[i - 1] = x[(i - 1) + 1]
                BY <1>1, <2>1, <3>3
            <4> QED
                BY <3>3, <4>1
        <3> QED
            BY <3>1, <3>2, <3>3
    <2> QED
        BY <1>1, <2>1, <2>2
<1> HIDE DEF z
<1>3. z = x
    BY <1>2, SeqEqual
<1>4. Begins(x, c, y)
    BY <1>0, <1>1, <1>3 DEF Begins, Joined, z
<1> QED
    BY <1>1, <1>4

(* What follows it follows the rest of it. *)
LEMMA Followed ==
    ASSUME NEW T, NEW x, NEW c \in T, NEW y \in Seq(T), Begins(x, c, y), NEW r \in Seq(T)
    PROVE  Joined(x \o r, c, y \o r) /\ y \o r \in Seq(T)
<1> DEFINE s == Single(c)
<1>1. s \in Seq(T) /\ x = s \o y
    BY InFront DEF Begins, Joined
<1> HIDE DEF s
<1>2. (s \o y) \o r = s \o (y \o r)
    BY <1>1, Regrouped DEF Regroups
<1>3. y \o r \in Seq(T)
    OBVIOUS
<1> QED
    BY <1>1, <1>2, <1>3 DEF Joined, s

(* What stands at the beginning begins alike. *)
LEMMA OccursFirst ==
    ASSUME NEW T, NEW text \in Seq(T), NEW old \in Seq(T), old # <<>>, Occurs(text, old, 1)
    PROVE  text[1] = old[1]
<1> DEFINE k == Len(old)
           z == SubSeq(text, 1, k)
<1>1. 1 + k <= Len(text) + 1 /\ (1 + k) - 1 = k /\ z = old /\ k \in Nat /\ k > 0
    BY DEF Occurs
<1>2. \A i \in 1..k : text[i] \in T
    BY <1>1
<1> HIDE DEF k
<1>3. \A i \in 1..(k - 1 + 1) : z[i] = text[1 + i - 1]
    BY <1>1, <1>2, SubSeqProperties
<1>4. z[1] = text[1]
    BY <1>1, <1>3
<1> QED
    BY <1>1, <1>4

(* A text whose first character does not begin the old one. *)
ReplacesLater(text, c, rest, old, new) ==
    Replaced(text, old, new) = Single(c) \o Replaced(rest, old, new)

(* It keeps that character. *)
LEMMA MovesOn ==
    ASSUME NEW T, NEW c \in T, NEW rest \in Seq(T), NEW text, Joined(text, c, rest),
           NEW old \in Seq(T), NEW new \in Seq(T), old # <<>>, c # old[1]
    PROVE  ReplacesLater(text, c, rest, old, new)
<1>1. text = Single(c) \o rest
    BY DEF Joined
<1>2. Single(c) \o rest \in Seq(T) /\ (Single(c) \o rest)[1] = c
    BY InFront
<1>3. ~ Occurs(Single(c) \o rest, old, 1)
    BY <1>2, OccursFirst
<1>4. Replaced(Single(c) \o rest, old, new) = Single(c) \o Replaced(rest, old, new)
    BY <1>3, ReplacedLater
<1> QED
    BY <1>1, <1>4 DEF ReplacesLater

(* No character of a text begins the old one. *)
Passes(w, old) == \A i \in 1..Len(w) : w[i] # old[1]

(* Nor does one of the rest of the text. *)
LEMMA RestPasses ==
    ASSUME NEW T, NEW x \in Seq(T), NEW c, NEW y \in Seq(T), Begins(x, c, y), NEW old, Passes(x, old)
    PROVE  Passes(y, old) /\ c # old[1]
<1>0. Len(y) \in Nat
    OBVIOUS
<1>1. \A i \in 1..Len(y) : i + 1 \in 1..Len(x) /\ y[i] = x[i + 1]
    BY <1>0 DEF Begins
<1>2. 1 \in 1..Len(x) /\ c = x[1]
    BY <1>0 DEF Begins
<1> QED
    BY <1>1, <1>2 DEF Passes

PassesOver(w, rest, old, new) ==
    Replaced(w \o rest, old, new) = w \o Replaced(rest, old, new)

(* It is passed over. *)
LEMMA PassedOver ==
    ASSUME NEW T, NEW old \in Seq(T), NEW new \in Seq(T), old # <<>>,
           NEW w \in Seq(T), Passes(w, old), NEW rest \in Seq(T)
    PROVE  PassesOver(w, rest, old, new)
<1> DEFINE after == Replaced(rest, old, new)
           Good == {n \in Nat : \A x \in Seq(T) : Len(x) = n /\ Passes(x, old) =>
                                   Replaced(x \o rest, old, new) = x \o after}
<1>1. after \in Seq(T)
    BY ReplacedType
<1>2. 0 \in Good
    <2>1. ASSUME NEW x \in Seq(T), Len(x) = 0
          PROVE  x \o rest = rest /\ x \o after = after
        <3> HIDE DEF after
        <3> QED
            BY <1>1, <2>1
    <2> QED
        BY <2>1
<1> HIDE DEF after
<1>3. ASSUME NEW n \in Nat, n \in Good
      PROVE  n + 1 \in Good
    <2> SUFFICES ASSUME NEW x \in Seq(T), Len(x) = n + 1, Passes(x, old)
                 PROVE  Replaced(x \o rest, old, new) = x \o after
        OBVIOUS
    <2>1. PICK c \in T, y \in Seq(T) : Begins(x, c, y)
        <3>1. Len(x) # 0
            OBVIOUS
        <3> HIDE DEF Good
        <3> QED
            BY <3>1, Beginning
    <2>2. Passes(y, old) /\ c # old[1]
        BY <2>1, RestPasses
    <2>3. Replaced(y \o rest, old, new) = y \o after
        <3>1. Len(y) \in Nat
            OBVIOUS
        <3>2. Len(y) = n
            BY <2>1, <3>1 DEF Begins
        <3> QED
            BY <1>3, <2>2, <3>2
    <2>4. /\ Joined(x \o rest, c, y \o rest) /\ y \o rest \in Seq(T)
          /\ Joined(x \o after, c, y \o after)
        BY <1>1, <2>1, Followed
    <2>5. ReplacesLater(x \o rest, c, y \o rest, old, new)
        BY <2>2, <2>4, MovesOn
    <2> QED
        BY <2>3, <2>4, <2>5 DEF Joined, ReplacesLater
<1> HIDE DEF Good
<1>4. Len(w) \in Good
    BY <1>2, <1>3, Induction
<1> QED
    BY <1>4 DEF Good, after, PassesOver

-------------------------------------------------------------------------------
(* Placeholders, and templates whose only braces are theirs. *)

(* They are two. *)
LEMMA TwoBraces == LeftBrace # RightBrace
BY Zenon DEF LeftBrace, RightBrace

(* A text in braces, with none within. *)
Braced(t) ==
    /\ Len(t) > 1 /\ t[1] = LeftBrace /\ t[Len(t)] = RightBrace
    /\ \A i \in 2..(Len(t) - 1) : t[i] \notin {LeftBrace, RightBrace}

TidyPart(t) == BraceFree(t) \/ Braced(t)

(* So is the placeholder of a key without braces. *)
LEMMA HoleIsBraced ==
    ASSUME NEW T, LeftBrace \in T, RightBrace \in T, NEW key, Spelt(key) \in Seq(T), BraceFree(Spelt(key))
    PROVE  Hole(key) \in Seq(T) /\ Braced(Hole(key))
<1> DEFINE s == Spelt(key)
           h == (<<LeftBrace>> \o s) \o <<RightBrace>>
           n == Len(s)
<1>1. /\ n \in Nat /\ h \in Seq(T) /\ Len(h) = n + 2
      /\ h[1] = LeftBrace /\ h[n + 2] = RightBrace /\ \A i \in 1..n : h[i + 1] = s[i]
    OBVIOUS
<1>2. \A i \in 1..n : s[i] \notin {LeftBrace, RightBrace}
    BY DEF BraceFree, Range
<1>3. Hole(key) = h
    BY DEF Hole
<1> HIDE DEF s, h, n
<1>4. ASSUME NEW i \in 2..(Len(h) - 1)
      PROVE  h[i] \notin {LeftBrace, RightBrace}
    <2>1. i - 1 \in 1..n /\ (i - 1) + 1 = i
        BY <1>1
    <2> QED
        BY <1>1, <1>2, <2>1
<1> QED
    BY <1>1, <1>3, <1>4 DEF Braced

(* Keys of one placeholder are spelt alike. *)
LEMMA SameHole ==
    ASSUME NEW T, NEW key, NEW other, Spelt(key) \in Seq(T), Spelt(other) \in Seq(T),
           Hole(key) = Hole(other)
    PROVE  Spelt(key) = Spelt(other)
<1> DEFINE s == Spelt(key)
           t == Spelt(other)
           h == (<<LeftBrace>> \o s) \o <<RightBrace>>
           g == (<<LeftBrace>> \o t) \o <<RightBrace>>
<1>1. h = g
    BY DEF Hole
<1>2. /\ Len(h) = Len(s) + 2 /\ \A i \in 1..Len(s) : h[i + 1] = s[i]
      /\ Len(g) = Len(t) + 2 /\ \A i \in 1..Len(t) : g[i + 1] = t[i]
      /\ Len(s) \in Nat /\ Len(t) \in Nat
    OBVIOUS
<1> HIDE DEF s, t, h, g
<1>3. Len(s) = Len(t) /\ \A i \in 1..Len(s) : s[i] = t[i]
    BY <1>1, <1>2
<1>4. s \in Seq(T) /\ t \in Seq(T)
    BY DEF s, t
<1>5. s = t
    BY <1>3, <1>4, SeqEqual
<1> QED
    BY <1>5 DEF s, t

(* A tidy template is one of tidy parts. *)
LEMMA TidyParts ==
    ASSUME NEW T, NEW template \in Seq(Seq(T)), Tidy(template)
    PROVE  \A i \in 1..Len(template) : template[i] \in Seq(T) /\ TidyPart(template[i])
<1> SUFFICES ASSUME NEW i \in 1..Len(template)
             PROVE  template[i] \in Seq(T) /\ TidyPart(template[i])
    OBVIOUS
<1> DEFINE part == template[i]
           n == Len(part)
           inner == SubSeq(part, 2, n - 1)
<1>1. part \in Seq(T) /\ part \in Range(template) /\ n \in Nat
    BY DEF Range
<1>2. BraceFree(part) \/ (n > 1 /\ part[1] = LeftBrace /\ part[n] = RightBrace /\ BraceFree(inner))
    BY <1>1 DEF Tidy
<1> HIDE DEF part
<1>3. ASSUME n > 1, BraceFree(inner), NEW j \in 2..(n - 1)
      PROVE  part[j] \notin {LeftBrace, RightBrace}
    <2>1. \A k \in 2..(n - 1) : part[k] \in T
        BY <1>1
    <2>2. /\ Len(inner) = IF 2 <= n - 1 THEN (n - 1) - 2 + 1 ELSE 0
          /\ \A k \in 1..((n - 1) - 2 + 1) : inner[k] = part[2 + k - 1]
          /\ inner \in Seq(T)
        BY <1>1, <2>1, SubSeqProperties
    <2> HIDE DEF inner
    <2>3. /\ j - 1 \in 1..((n - 1) - 2 + 1) /\ 2 + (j - 1) - 1 = j
          /\ j - 1 \in 1..Len(inner)
        BY <1>1, <2>2
    <2>4. inner[j - 1] = part[j]
        BY <2>2, <2>3
    <2>5. inner[j - 1] \in Range(inner)
        BY <2>2, <2>3 DEF Range
    <2> QED
        BY <1>3, <2>4, <2>5 DEF BraceFree
<1> HIDE DEF inner
<1>4. TidyPart(part)
    BY <1>2, <1>3 DEF TidyPart, Braced, n
<1> QED
    BY <1>1, <1>4 DEF part

(* A placeholder begins nowhere in a text without braces, and in another     *)
(* placeholder only where the two are the same.                              *)
LEMMA NoPartOfAnother ==
    ASSUME NEW T, NEW part \in Seq(T), Braced(part), NEW old \in Seq(T), Braced(old),
           NEW rest \in Seq(T), Occurs(part \o rest, old, 1)
    PROVE  part = old
<1> DEFINE k == Len(old)
           l == Len(part)
           text == part \o rest
           z == SubSeq(text, 1, k)
<1>1. /\ k \in Nat /\ l \in Nat /\ text \in Seq(T) /\ k > 1 /\ l > 1
      /\ \A i \in 1..l : text[i] = part[i]
    BY DEF Braced
<1>2. 1 + k <= Len(text) + 1 /\ (1 + k) - 1 = k /\ z = old
    BY DEF Occurs
<1> HIDE DEF text
<1>3. \A i \in 1..k : text[i] \in T
    BY <1>1, <1>2
<1>4. \A i \in 1..(k - 1 + 1) : z[i] = text[1 + i - 1]
    BY <1>1, <1>3, SubSeqProperties
<1>5. \A i \in 1..k : i \in 1..(k - 1 + 1) /\ 1 + i - 1 = i
    BY <1>1
<1>6. \A i \in 1..k : old[i] = text[i]
    <2> SUFFICES ASSUME NEW i \in 1..k
                 PROVE  old[i] = text[i]
        OBVIOUS
    <2> QED
        BY <1>2, <1>4, <1>5
<1>7. /\ old[k] = RightBrace /\ \A i \in 2..(k - 1) : old[i] # RightBrace
      /\ part[l] = RightBrace /\ \A i \in 2..(l - 1) : part[i] # RightBrace
    BY DEF Braced
<1> HIDE DEF k, l, z
<1>8. ~ (k < l)
    <2> SUFFICES ASSUME k < l
                 PROVE  FALSE
        OBVIOUS
    <2>1. k \in 1..k /\ k \in 1..l /\ k \in 2..(l - 1)
        BY <1>1
    <2> QED
        BY <1>1, <1>6, <1>7, <2>1
<1>9. ~ (l < k)
    <2> SUFFICES ASSUME l < k
                 PROVE  FALSE
        OBVIOUS
    <2>1. l \in 1..k /\ l \in 1..l /\ l \in 2..(k - 1)
        BY <1>1
    <2> QED
        BY <1>1, <1>6, <1>7, <2>1
<1>10. k = l
    BY <1>1, <1>8, <1>9
<1>11. \A i \in 1..Len(part) : part[i] = old[i]
    BY <1>1, <1>6, <1>10 DEF l
<1> QED
    BY <1>10, <1>11, SeqEqual DEF k, l

(* What a placeholder is replaced by where it is the whole of a part. *)
Swap(part, old, new) == IF part = old THEN new ELSE part

SwapsPart(part, rest, old, new) ==
    Replaced(part \o rest, old, new) = Swap(part, old, new) \o Replaced(rest, old, new)

(* A placeholder is replaced where it is a whole part, and only there. *)
LEMMA PartPassed ==
    ASSUME NEW T, NEW part \in Seq(T), TidyPart(part), NEW rest \in Seq(T),
           NEW old \in Seq(T), Braced(old), NEW new \in Seq(T)
    PROVE  SwapsPart(part, rest, old, new)
<1>1. old # <<>> /\ Len(old) > 1 /\ old[1] = LeftBrace
    BY DEF Braced
<1>2. CASE part = old
    <2>1. Replaced(old \o rest, old, new) = new \o Replaced(rest, old, new)
        BY <1>1, ReplacedInFront
    <2> QED
        BY <1>2, <2>1 DEF SwapsPart, Swap
<1>3. CASE part # old /\ BraceFree(part)
    <2>1. Passes(part, old)
        BY <1>1, <1>3 DEF Passes, BraceFree, Range
    <2>2. PassesOver(part, rest, old, new)
        BY <1>1, <2>1, PassedOver
    <2> QED
        BY <1>3, <2>2 DEF SwapsPart, Swap, PassesOver
<1>4. CASE part # old /\ Braced(part)
    <2>1. Len(part) # 0
        BY <1>4 DEF Braced
    <2>2. PICK c \in T, y \in Seq(T) : Begins(part, c, y)
        BY <2>1, Beginning
    <2>3. Passes(y, old)
        <3>1. Len(y) \in Nat
            OBVIOUS
        <3>2. \A i \in 1..Len(y) : y[i] = part[i + 1]
            BY <2>2 DEF Begins
        <3>3. Len(part) = Len(y) + 1
            BY <2>2 DEF Begins
        <3>4. ASSUME NEW i \in 1..Len(y)
              PROVE  part[i + 1] # LeftBrace
            <4>1. i + 1 = Len(part) \/ i + 1 \in 2..(Len(part) - 1)
                BY <3>1, <3>3
            <4> QED
                BY <1>4, <4>1, TwoBraces DEF Braced
        <3> QED
            BY <1>1, <3>2, <3>4 DEF Passes
    <2> DEFINE text == part \o rest
               after == y \o rest
               done == Replaced(rest, old, new)
    <2>4. Joined(text, c, after) /\ after \in Seq(T)
        BY <2>2, Followed
    <2>5. ~ Occurs(text, old, 1)
        BY <1>4, NoPartOfAnother
    <2>6. PassesOver(y, rest, old, new)
        BY <1>1, <2>3, PassedOver
    <2>7. done \in Seq(T)
        BY <1>1, ReplacedType
    <2> HIDE DEF text, after, done
    <2>8. text = Single(c) \o after
        BY <2>4 DEF Joined
    <2>9. Replaced(text, old, new) = Single(c) \o Replaced(after, old, new)
        <3>1. ~ Occurs(Single(c) \o after, old, 1)
            BY <2>5, <2>8
        <3>2. Replaced(Single(c) \o after, old, new) = Single(c) \o Replaced(after, old, new)
            BY <1>1, <2>4, <3>1, ReplacedLater
        <3> QED
            BY <2>8, <3>2
    <2>10. Joined(part \o done, c, y \o done)
        BY <2>2, <2>7, Followed
    <2> QED
        BY <1>4, <2>6, <2>9, <2>10 DEF SwapsPart, Joined, Swap, PassesOver, text, after, done
<1> QED
    BY <1>2, <1>3, <1>4 DEF TidyPart

(* What Replaced makes of tidy parts side by side. *)
SwappedParts(parts, old, new) == [i \in 1..Len(parts) |-> Swap(parts[i], old, new)]

SwapsParts(parts, old, new) ==
    Replaced(FlattenSeq(parts), old, new) = FlattenSeq(SwappedParts(parts, old, new))

(* A placeholder in tidy parts is replaced in each part by itself. *)
LEMMA PartsReplaced ==
    ASSUME NEW T, NEW parts \in Seq(Seq(T)), \A i \in 1..Len(parts) : TidyPart(parts[i]),
           NEW old \in Seq(T), Braced(old), NEW new \in Seq(T)
    PROVE  SwapsParts(parts, old, new)
<1> DEFINE n == Len(parts)
           all == Seq(T)
           after == SwappedParts(parts, old, new)
<1>1. n \in Nat /\ \A i \in 1..n : parts[i] \in Seq(T) /\ TidyPart(parts[i])
    OBVIOUS
<1>2. old # <<>>
    BY DEF Braced
<1>3. /\ after \in Seq(all) /\ Len(after) = n
      /\ \A i \in 1..n : after[i] = Swap(parts[i], old, new) /\ after[i] \in Seq(T)
    <2>1. \A i \in 1..n : Swap(parts[i], old, new) \in all
        BY <1>1 DEF Swap
    <2> HIDE DEF all
    <2>2. after = [i \in 1..n |-> Swap(parts[i], old, new)]
        BY DEF SwappedParts
    <2> HIDE DEF after, n
    <2>3. after \in Seq(all) /\ Len(after) = n /\ \A i \in 1..n : after[i] = Swap(parts[i], old, new)
        BY <1>1, <2>1, <2>2
    <2> QED
        BY <2>1, <2>3 DEF all
<1> HIDE DEF after
<1>4. PICK f \in [0..n -> Seq(T)] : FlattenSeq(parts) = f[n] /\ Joins(f, parts)
    BY FlattenIsComputed
<1>5. PICK g \in [0..n -> Seq(T)] : FlattenSeq(after) = g[n] /\ Joins(g, after)
    BY <1>3, FlattenIsComputed
<1> DEFINE Does(i) == \A rest \in Seq(T) :
                          Replaced(f[i] \o rest, old, new) = g[i] \o Replaced(rest, old, new)
           Good == {i \in 0..n : Does(i)}
<1>6. f[0] = <<>> /\ g[0] = <<>>
    BY <1>4, <1>5 DEF Joins
<1>7. 0 \in Good
    <2>1. ASSUME NEW rest \in Seq(T)
          PROVE  Replaced(f[0] \o rest, old, new) = g[0] \o Replaced(rest, old, new)
        <3> DEFINE r == Replaced(rest, old, new)
        <3>1. r \in Seq(T)
            BY <1>2, ReplacedType
        <3> HIDE DEF r
        <3>2. f[0] \o rest = rest
            BY <1>6
        <3>3. g[0] \o r = r
            BY <1>6, <3>1
        <3> QED
            BY <3>2, <3>3 DEF r
    <2>2. Does(0)
        BY <2>1
    <2>3. 0 \in 0..n
        BY <1>1
    <2> HIDE DEF Does, n
    <2> QED
        BY <2>2, <2>3
<1>8. ASSUME NEW i \in 1..n, Does(i - 1)
      PROVE  Does(i)
    <2> SUFFICES ASSUME NEW rest \in Seq(T)
                 PROVE  Replaced(f[i] \o rest, old, new) = g[i] \o Replaced(rest, old, new)
        OBVIOUS
    <2> DEFINE part == parts[i]
               swap == after[i]
               x == f[i - 1]
               y == g[i - 1]
               r == Replaced(rest, old, new)
               s == part \o rest
    <2>1. i \in 0..n /\ i - 1 \in 0..n
        BY <1>1
    <2>2. x \in Seq(T) /\ y \in Seq(T) /\ part \in Seq(T) /\ swap \in Seq(T) /\ TidyPart(part)
        BY <1>1, <1>3, <2>1
    <2>3. r \in Seq(T)
        BY <1>2, ReplacedType
    <2>4. Replaced(s, old, new) = swap \o r
        <3>1. SwapsPart(part, rest, old, new)
            BY <2>2, PartPassed
        <3> QED
            BY <1>3, <3>1 DEF SwapsPart
    <2>5. s \in Seq(T)
        BY <2>2
    <2>6. Replaced(x \o s, old, new) = y \o Replaced(s, old, new)
        BY <1>8, <2>5
    <2>7. f[i] = x \o part /\ g[i] = y \o swap
        BY <1>3, <1>4, <1>5 DEF Joins
    <2>8. x \o s = f[i] \o rest
        <3> HIDE DEF x, part, Does, after, n
        <3>1. Regroups(x, part, rest)
            BY <2>2, Regrouped
        <3> QED
            BY <2>7, <3>1 DEF Regroups
    <2>9. y \o (swap \o r) = g[i] \o r
        <3> HIDE DEF y, swap, r, Does, after, n
        <3>1. Regroups(y, swap, r)
            BY <2>2, <2>3, Regrouped
        <3> QED
            BY <2>7, <3>1 DEF Regroups
    <2> HIDE DEF s, x, y, part, swap
    <2> QED
        BY <2>4, <2>6, <2>8, <2>9
<1>9. ASSUME NEW i \in 1..n, i - 1 \in Good
      PROVE  i \in Good
    <2>1. Does(i - 1) /\ i \in 0..n
        BY <1>1, <1>9
    <2> HIDE DEF n
    <2>2. Does(i)
        BY <1>8, <2>1
    <2> HIDE DEF Does
    <2> QED
        BY <2>1, <2>2
<1> HIDE DEF Good
<1>10. n \in Good
    BY <1>1, <1>7, <1>9, StepByStep
<1>11. Does(n)
    BY <1>10 DEF Good
<1>12. Replaced(<<>>, old, new) = <<>>
    <2> DEFINE text == <<>>
    <2>1. text \in Seq(T) /\ Len(text) = 0
        OBVIOUS
    <2> HIDE DEF text
    <2>2. PICK h \in [1..(Len(text) + 1) -> Seq(T)] :
              Replaced(text, old, new) = h[1] /\ Replaces(h, text, old, new)
        BY <1>2, <2>1, ReplacedIsComputed
    <2>3. 1 \in 1..(Len(text) + 1) /\ 1 > Len(text)
        BY <2>1
    <2>4. h[1] = <<>>
        BY <2>2, <2>3 DEF Replaces
    <2> QED
        BY <2>2, <2>4 DEF text
<1>13. f[n] \o <<>> = f[n] /\ g[n] \o <<>> = g[n]
    <2>1. f[n] \in Seq(T) /\ g[n] \in Seq(T)
        <3>1. n \in 0..n
            BY <1>1
        <3> QED
            BY <3>1
    <2> DEFINE a == f[n]
               b == g[n]
    <2> HIDE DEF a, b
    <2>2. a \o <<>> = a /\ b \o <<>> = b
        BY <2>1 DEF a, b
    <2> QED
        BY <2>2 DEF a, b
<1>14. Replaced(f[n] \o <<>>, old, new) = g[n] \o Replaced(<<>>, old, new)
    <2>1. <<>> \in Seq(T)
        OBVIOUS
    <2> QED
        BY <1>11, <2>1
<1>15. Replaced(f[n], old, new) = g[n]
    BY <1>12, <1>13, <1>14
<1> QED
    BY <1>4, <1>5, <1>15 DEF SwapsParts, after

-------------------------------------------------------------------------------
(* The templates. *)

(* A link's context: the names it has are the keys that are filled in, each  *)
(* with a placeholder of its own, and what they stand for can be spelt.      *)
WellNamed(link) ==
    /\ Keys(link) \in Seq(DOMAIN link.ctx)
    /\ Range(Keys(link)) = DOMAIN link.ctx
    /\ \A key \in DOMAIN link.ctx :
          /\ Hole(key) \in Seq(Character) /\ Braced(Hole(key))
          /\ Spelt(link.ctx[key]) \in Seq(Character)
          /\ \A other \in DOMAIN link.ctx : Hole(key) = Hole(other) => key = other

(* What _fill makes of a template, key by key. *)
Fills(f, template, link) ==
    /\ f[0] = FlattenSeq(template)
    /\ \A i \in 1..Len(Keys(link)) :
          f[i] = Replaced(f[i - 1], Hole(Keys(link)[i]), Spelt(link.ctx[Keys(link)[i]]))

(* _fill is such a pass to its end. *)
LEMMA FillIsComputed ==
    ASSUME NEW link, WellNamed(link), NEW template \in Seq(Seq(Character))
    PROVE  \E f \in [0..Len(Keys(link)) -> Seq(Character)] :
               _fill(template, link) = f[Len(Keys(link))] /\ Fills(f, template, link)
<1> DEFINE keys == Keys(link)
           n == Len(keys)
           V == Seq(Character)
           start == FlattenSeq(template)
           old(i) == Hole(keys[i])
           new(i) == Spelt(link.ctx[keys[i]])
           step == [i \in 1..n |-> [v \in V |-> Replaced(v, old(i), new(i))]]
           Body(g) == [i \in 0..n |->
                          IF i = 0 THEN start ELSE Replaced(g[i - 1], old(i), new(i))]
           after == CHOOSE g : g = Body(g)
<1>1. n \in Nat /\ \A i \in 1..n : keys[i] \in DOMAIN link.ctx
    BY DEF WellNamed
<1>2. start \in V
    BY FlattenRange
<1>3. _fill(template, link) = after[n]
    BY Zenon DEF _fill
<1> HIDE DEF keys, n, start
<1>4. ASSUME NEW i \in 1..n
      PROVE  old(i) \in V /\ old(i) # <<>> /\ new(i) \in V
    BY <1>1 DEF WellNamed, Braced
<1> HIDE DEF old, new
<1>5. ASSUME NEW i \in 1..n, NEW v \in V
      PROVE  Replaced(v, old(i), new(i)) \in V
    BY <1>4, ReplacedType
<1> HIDE DEF V
<1>6. /\ step \in [1..n -> [V -> V]]
      /\ \A i \in 1..n : \A v \in V : step[i][v] = Replaced(v, old(i), new(i))
    BY <1>5
<1> HIDE DEF step
<1>7. PICK g \in [0..n -> V] : Iterates(g, n, start, step)
    BY <1>1, <1>2, <1>6, ForwardRecursion
<1>8. g = Body(g)
    <2>1. ASSUME NEW i \in 0..n
          PROVE  g[i] = IF i = 0 THEN start ELSE Replaced(g[i - 1], old(i), new(i))
        <3>1. CASE i = 0
            BY <1>7, <3>1 DEF Iterates
        <3>2. CASE i # 0
            <4>1. i \in 1..n /\ i - 1 \in 0..n
                BY <1>1, <3>2
            <4>2. g[i] = step[i][g[i - 1]] /\ g[i - 1] \in V
                BY <1>7, <4>1 DEF Iterates
            <4> QED
                BY <1>6, <3>2, <4>1, <4>2
        <3> QED
            BY <3>1, <3>2
    <2> QED
        BY <2>1, Zenon
<1>9. after = Body(after)
    BY <1>8, Zenon
<1> HIDE DEF after
<1>10. \A i \in 0..n :
           after[i] = IF i = 0 THEN start ELSE Replaced(after[i - 1], old(i), new(i))
    BY <1>9, Zenon
<1>11. after \in [0..n -> V]
    <2> DEFINE Good == {i \in 0..n : after[i] \in V}
    <2>1. 0 \in 0..n /\ \A i \in 1..n : i \in 0..n /\ i # 0
        BY <1>1
    <2>2. 0 \in Good
        BY <1>2, <1>10, <2>1
    <2>3. ASSUME NEW i \in 1..n, i - 1 \in Good
          PROVE  i \in Good
        <3>1. after[i] = Replaced(after[i - 1], old(i), new(i))
            BY <1>10, <2>1
        <3> QED
            BY <1>5, <2>1, <2>3, <3>1
    <2>4. ASSUME NEW m \in 0..n
          PROVE  m \in Good
        <3>1. m \in Nat /\ \A i \in 1..m : i \in 1..n
            BY <1>1
        <3>2. \A i \in 1..m : i - 1 \in Good => i \in Good
            BY <2>3, <3>1
        <3> HIDE DEF Good
        <3> QED
            BY <2>2, <3>1, <3>2, StepByStep
    <2>5. after = [i \in 0..n |-> after[i]]
        BY <1>9, Zenon
    <2> QED
        BY <2>4, <2>5
<1>12. /\ after[0] = start
       /\ \A i \in 1..n : after[i] = Replaced(after[i - 1], old(i), new(i))
    <2>1. 0 \in 0..n /\ \A i \in 1..n : i \in 0..n /\ i # 0
        BY <1>1
    <2> QED
        BY <1>10, <2>1
<1>13. Fills(after, template, link)
    BY <1>12 DEF Fills, start, old, new, keys, n
<1> QED
    BY <1>3, <1>11, <1>13 DEF V, n, keys

(* Filled, a template is a text. *)
LEMMA FillType ==
    ASSUME NEW link, WellNamed(link), NEW template \in Seq(Seq(Character))
    PROVE  _fill(template, link) \in Seq(Character)
<1> DEFINE n == Len(Keys(link))
<1>1. PICK f \in [0..n -> Seq(Character)] : _fill(template, link) = f[n]
    BY FillIsComputed
<1>2. n \in 0..n
    BY DEF WellNamed
<1> HIDE DEF n
<1> QED
    BY <1>1, <1>2

(* The value that a part of a template gives way to, if it is a placeholder. *)
ValueFor(part, ctx) == Spelt(ctx[CHOOSE key \in DOMAIN ctx : part = Hole(key)])

(* The parts of a template after the first n keys. *)
After(n, template, link) ==
    [i \in 1..Len(template) |->
        IF \E m \in 1..n : template[i] = Hole(Keys(link)[m])
          THEN ValueFor(template[i], link.ctx) ELSE template[i]]

(* One key more replaces one placeholder more. *)
LEMMA OneKeyMore ==
    ASSUME NEW link, WellNamed(link), \A key \in DOMAIN link.ctx : BraceFree(Spelt(link.ctx[key])),
           NEW template \in Seq(Seq(Character)), \A i \in 1..Len(template) : TidyPart(template[i]),
           NEW n \in 1..Len(Keys(link))
    PROVE  LET old   == Hole(Keys(link)[n])
               new   == Spelt(link.ctx[Keys(link)[n]])
               parts == After(n - 1, template, link)
           IN  /\ parts \in Seq(Seq(Character)) /\ \A i \in 1..Len(parts) : TidyPart(parts[i])
               /\ SwappedParts(parts, old, new) = After(n, template, link)
<1> DEFINE keys == Keys(link)
           ctx == link.ctx
           key == keys[n]
           old == Hole(key)
           new == Spelt(ctx[key])
           parts == After(n - 1, template, link)
           l == Len(template)
           V == Seq(Character)
           Named(m, part) == \E j \in 1..m : part = Hole(keys[j])
<1>1. /\ l \in Nat /\ Len(keys) \in Nat
      /\ \A i \in 1..l : template[i] \in V /\ TidyPart(template[i])
      /\ \A i \in 1..Len(keys) : keys[i] \in DOMAIN ctx
    BY DEF WellNamed
<1>2. ASSUME NEW k \in DOMAIN ctx
      PROVE  /\ Hole(k) \in V /\ Braced(Hole(k)) /\ Spelt(ctx[k]) \in V /\ BraceFree(Spelt(ctx[k]))
             /\ ValueFor(Hole(k), ctx) = Spelt(ctx[k])
             /\ Spelt(ctx[k]) # old
    <2>1. /\ Hole(k) \in V /\ Braced(Hole(k)) /\ Spelt(ctx[k]) \in V /\ BraceFree(Spelt(ctx[k]))
          /\ \A other \in DOMAIN ctx : Hole(k) = Hole(other) => k = other
        BY DEF WellNamed
    <2>2. (CHOOSE other \in DOMAIN ctx : Hole(k) = Hole(other)) = k
        BY <2>1
    <2>3. Braced(old)
        BY <1>1 DEF WellNamed
    <2> HIDE DEF old
    <2>4. Spelt(ctx[k]) # old
        <3> SUFFICES ASSUME Spelt(ctx[k]) = old
                     PROVE  FALSE
            OBVIOUS
        <3>1. BraceFree(old)
            BY <2>1
        <3>2. 1 \in DOMAIN old /\ old[1] = LeftBrace
            <4>1. old \in V /\ Len(old) > 1 /\ old[1] = LeftBrace
                BY <2>1, <2>3 DEF Braced
            <4> QED
                BY <4>1
        <3> QED
            BY <3>1, <3>2 DEF BraceFree, Range
    <2> QED
        BY <2>1, <2>2, <2>4 DEF ValueFor
<1>3. key \in DOMAIN ctx
    BY <1>1
<1> HIDE DEF keys, ctx, l, V
<1>4. ASSUME NEW m \in 0..Len(keys)
      PROVE  After(m, template, link)
               = [i \in 1..l |-> IF Named(m, template[i]) THEN ValueFor(template[i], ctx)
                                 ELSE template[i]]
    BY DEF After, l, keys, ctx
<1>5. n \in Nat /\ n - 1 \in 0..Len(keys) /\ n \in 0..Len(keys)
    BY <1>1 DEF keys
<1>6. ASSUME NEW m \in 0..Len(keys), NEW i \in 1..l, Named(m, template[i])
      PROVE  /\ ValueFor(template[i], ctx) \in V /\ TidyPart(ValueFor(template[i], ctx))
             /\ ValueFor(template[i], ctx) # old
    <2>1. PICK j \in 1..m : template[i] = Hole(keys[j])
        BY <1>6
    <2>2. keys[j] \in DOMAIN ctx
        BY <1>1
    <2> HIDE DEF old
    <2> QED
        BY <1>2, <2>1, <2>2 DEF TidyPart
<1>7. ASSUME NEW i \in 1..l
      PROVE  Named(n, template[i]) <=> (Named(n - 1, template[i]) \/ template[i] = old)
    <2>1. \A j \in 1..n : j \in 1..(n - 1) \/ j = n
        BY <1>5
    <2>2. \A j \in 1..(n - 1) : j \in 1..n
        BY <1>5
    <2>3. n \in 1..n
        BY <1>5
    <2> QED
        BY <2>1, <2>2, <2>3
<1>8. ValueFor(old, ctx) = new
    BY <1>2, <1>3
<1> HIDE DEF old, new, Named
<1>9. parts = [i \in 1..l |-> IF Named(n - 1, template[i]) THEN ValueFor(template[i], ctx)
                              ELSE template[i]]
    BY <1>4, <1>5
<1> HIDE DEF parts
<1>10. /\ parts \in Seq(V) /\ Len(parts) = l
       /\ \A i \in 1..l : parts[i] = IF Named(n - 1, template[i]) THEN ValueFor(template[i], ctx)
                                     ELSE template[i]
    <2> DEFINE Part(i) == IF Named(n - 1, template[i]) THEN ValueFor(template[i], ctx)
                          ELSE template[i]
    <2>1. \A i \in 1..l : Part(i) \in V
        BY <1>1, <1>5, <1>6
    <2>2. parts = [i \in 1..l |-> Part(i)]
        BY <1>9
    <2> HIDE DEF Part
    <2>3. /\ parts \in Seq(V) /\ Len(parts) = l
          /\ \A i \in 1..l : parts[i] = Part(i)
        BY <1>1, <2>1, <2>2
    <2> QED
        BY <2>3 DEF Part
<1>11. \A i \in 1..l : TidyPart(parts[i])
    BY <1>1, <1>5, <1>6, <1>10
<1>12. SwappedParts(parts, old, new) = After(n, template, link)
    <2>1. SwappedParts(parts, old, new) = [i \in 1..l |-> Swap(parts[i], old, new)]
        BY <1>10 DEF SwappedParts
    <2>2. ASSUME NEW i \in 1..l
          PROVE  Swap(parts[i], old, new)
                   = IF Named(n, template[i]) THEN ValueFor(template[i], ctx) ELSE template[i]
        <3>1. CASE Named(n - 1, template[i])
            BY <1>5, <1>6, <1>7, <1>10, <3>1 DEF Swap
        <3>2. CASE ~ Named(n - 1, template[i])
            BY <1>7, <1>8, <1>10, <3>2 DEF Swap
        <3> QED
            BY <3>1, <3>2
    <2>3. After(n, template, link)
            = [i \in 1..l |-> IF Named(n, template[i]) THEN ValueFor(template[i], ctx)
                              ELSE template[i]]
        BY <1>4, <1>5
    <2> QED
        BY <2>1, <2>2, <2>3
<1> QED
    BY <1>10, <1>11, <1>12 DEF parts, old, new, keys, ctx, V, key

(* So all keys replace all placeholders, each by its value: what _fill makes *)
(* of a tidy template does not depend on the order of the keys.              *)
FillsSideBySide(template, link) == _fill(template, link) = SideBySide(template, link.ctx)

(* A tidy template is filled part by part. *)
LEMMA TidyIsFilled ==
    ASSUME NEW link, WellNamed(link), NoBracesIn(link),
           NEW template \in Seq(Seq(Character)), Tidy(template)
    PROVE  FillsSideBySide(template, link)
<1> DEFINE keys == Keys(link)
           ctx == link.ctx
           n == Len(keys)
           old(i) == Hole(keys[i])
           new(i) == Spelt(ctx[keys[i]])
           parts(i) == After(i, template, link)
<1>1. \A i \in 1..Len(template) : TidyPart(template[i])
    BY TidyParts
<1>2. \A key \in DOMAIN link.ctx : BraceFree(Spelt(link.ctx[key]))
    BY DEF NoBracesIn, Range
<1>3. n \in Nat /\ \A i \in 1..n : keys[i] \in DOMAIN ctx
    BY DEF WellNamed
<1>4. PICK f \in [0..n -> Seq(Character)] : _fill(template, link) = f[n] /\ Fills(f, template, link)
    BY FillIsComputed
<1>5. /\ f[0] = FlattenSeq(template)
      /\ \A i \in 1..n : f[i] = Replaced(f[i - 1], old(i), new(i))
    BY <1>4 DEF Fills
<1>6. ASSUME NEW i \in 1..n
      PROVE  Replaced(FlattenSeq(parts(i - 1)), old(i), new(i)) = FlattenSeq(parts(i))
    <2>1. keys[i] \in DOMAIN ctx
        BY <1>3
    <2>2. old(i) \in Seq(Character) /\ Braced(old(i)) /\ new(i) \in Seq(Character)
        BY <2>1 DEF WellNamed
    <2>3. /\ parts(i - 1) \in Seq(Seq(Character))
          /\ \A j \in 1..Len(parts(i - 1)) : TidyPart(parts(i - 1)[j])
          /\ SwappedParts(parts(i - 1), old(i), new(i)) = parts(i)
        BY <1>1, <1>2, OneKeyMore
    <2> HIDE DEF parts, old, new
    <2>4. SwapsParts(parts(i - 1), old(i), new(i))
        BY <2>2, <2>3, PartsReplaced
    <2> QED
        BY <2>3, <2>4 DEF SwapsParts
<1>7. parts(0) = template
    <2>1. ~ \E m \in 1..0 : TRUE
        OBVIOUS
    <2>2. \A i \in 1..Len(template) : ~ \E m \in 1..0 : template[i] = Hole(keys[m])
        BY <2>1
    <2>3. parts(0) = [i \in 1..Len(template) |-> template[i]]
        BY <2>2 DEF After
    <2>4. template = [i \in 1..Len(template) |-> template[i]]
        OBVIOUS
    <2> QED
        BY <2>3, <2>4
<1> HIDE DEF n, old, new, parts
<1> DEFINE Good == {i \in 0..n : f[i] = FlattenSeq(parts(i))}
<1>8. 0 \in Good
    <2>1. 0 \in 0..n
        BY <1>3
    <2> QED
        BY <1>5, <1>7, <2>1
<1>9. ASSUME NEW i \in 1..n, i - 1 \in Good
      PROVE  i \in Good
    <2>1. i \in 0..n /\ f[i - 1] = FlattenSeq(parts(i - 1))
        BY <1>3, <1>9
    <2> QED
        BY <1>5, <1>6, <2>1
<1> HIDE DEF Good
<1>10. n \in Good
    BY <1>3, <1>8, <1>9, StepByStep
<1>11. _fill(template, link) = FlattenSeq(parts(n))
    BY <1>4, <1>10 DEF Good
<1>12. parts(n) = [i \in DOMAIN template |->
                      IF \E key \in DOMAIN ctx : template[i] = Hole(key)
                        THEN ValueFor(template[i], ctx) ELSE template[i]]
    <2>1. \A key \in DOMAIN ctx : \E m \in 1..n : keys[m] = key
        <3>1. DOMAIN keys = 1..n
            BY DEF WellNamed, n
        <3>2. Range(keys) = DOMAIN ctx
            BY DEF WellNamed
        <3> HIDE DEF keys, ctx
        <3> QED
            BY <3>1, <3>2 DEF Range
    <2>2. ASSUME NEW part
          PROVE  (\E m \in 1..n : part = Hole(keys[m])) <=> (\E key \in DOMAIN ctx : part = Hole(key))
        BY <1>3, <2>1
    <2>3. parts(n) = [i \in 1..Len(template) |->
                         IF \E m \in 1..n : template[i] = Hole(keys[m])
                           THEN ValueFor(template[i], ctx) ELSE template[i]]
        BY DEF After, parts
    <2>4. DOMAIN template = 1..Len(template)
        OBVIOUS
    <2> QED
        BY <2>2, <2>3, <2>4
<1> QED
    BY <1>11, <1>12 DEF FillsSideBySide, SideBySide, ValueFor

-------------------------------------------------------------------------------

(* The key that routes a link is one that the description may advertise.     *)
LEMMA KeysAreSupported == PRIMARY_AIS \subseteq SUPPORTED_PRIMARY_KEYS
BY DEF PRIMARY_AIS, PRIMARIES, SUPPORTED_PRIMARY_KEYS, Range

(* What parse() takes for the primary key is one of the table.               *)
LEMMA KeyIsPrimary ==
    ASSUME NEW p, HasKey(p)
    PROVE  ParsedPath(p).primary_ai \in PRIMARY_AIS
<1> DEFINE segs == Segments(p)
           I == {i \in 1..Len(segs) : segs[i][1] \in PRIMARY_AIS}
<1>1. PrimaryIndex(p) = IF I # {} THEN Min(I) ELSE 0
    BY DEF PrimaryIndex, SelectInSeq
<1>2. I # {} /\ PrimaryIndex(p) = Min(I)
    BY <1>1 DEF HasKey
<1>3. I \in SUBSET Nat
    OBVIOUS
<1>4. PrimaryIndex(p) \in I
    BY <1>2, <1>3, LeastExists
<1> QED
    BY <1>4 DEF ParsedPath, Classified

(* A rule that matches has all its clauses hold.                             *)
LEMMA EveryClauseHolds ==
    ASSUME NEW rule, NEW link, matches(rule, link) = "yes",
           NEW i \in 1..5, Clauses[i] \in DOMAIN rule.match
    PROVE  Try(Clauses[i], rule.match[Clauses[i]], link) = "yes"
<1> DEFINE Holds(n) == Try(Clauses[n], rule.match[Clauses[n]], link)
           stops == {n \in 1..Len(Clauses) : Clauses[n] \in DOMAIN rule.match /\ Holds(n) # "yes"}
<1>1. Len(Clauses) = 5
    BY DEF Clauses
<1>2. matches(rule, link) = IF stops = {} THEN "yes" ELSE Holds(Min(stops))
    BY DEF matches
<1>3. stops \in SUBSET Nat
    BY <1>1
<1>4. ASSUME stops # {} PROVE FALSE
    <2>1. Min(stops) \in stops
        BY <1>3, <1>4, LeastExists
    <2> QED
        BY <2>1, <1>2, <1>4
<1> QED
    BY <1>1, <1>4

(* A link that led somewhere did so by a rule of the config that matches it. *)
LEMMA RoutedByARule ==
    ASSUME InputsAreSequences, Routed
    PROVE  /\ Accepted(path)
           /\ FirstMatch(rules, TheLink) \in DOMAIN rules
           /\ matches(TheRule, TheLink) = "yes"
<1>1. Accepted(path) /\ answer = resolve(rules, TheLink)
    BY DEF Routed, answer, Answer, TheLink
<1>2. FirstMatch(rules, TheLink) # 0 /\ matches(TheRule, TheLink) = "yes"
    BY <1>1 DEF Routed, resolve, TheRule
<1>3. Stops(rules, TheLink) \in SUBSET Nat
    BY DEF Stops, InputsAreSequences
<1>4. FirstMatch(rules, TheLink) \in Stops(rules, TheLink)
    BY <1>2, <1>3, LeastExists DEF FirstMatch
<1> QED
    BY <1>1, <1>2, <1>4 DEF Stops

(* Discovery and routing agree where a clause names the key: what a rule     *)
(* with a primary_ai clause led somewhere, and every GTIN that one with a    *)
(* prefix or a pattern led there, is in the description that                 *)
(* derive_primary_keys makes of the rules.                                   *)
THEOREM PinnedKeysAdvertised == Spec => []PinnedKeysAreAdvertised
<1>1. InputsAreSequences => PinnedKeysAreAdvertised
    <2> DEFINE ai == TheLink.primary_ai
               ByKey    == "primary_ai" \in DOMAIN TheRule.match
               ByNumber == ai = "01" /\ DOMAIN TheRule.match \cap {"gtin_prefix", "gtin_regex"} # {}
               Advertised == SUPPORTED_PRIMARY_KEYS
                               \cap UNION {Pinned(rules[i]) : i \in DOMAIN rules}
    <2> SUFFICES ASSUME InputsAreSequences, Routed, declared = {}, ByKey \/ ByNumber
                 PROVE  ai \in build_well_known(rules, declared)
        BY DEF PinnedKeysAreAdvertised
    <2>1. /\ Accepted(path) /\ FirstMatch(rules, TheLink) \in DOMAIN rules
          /\ matches(TheRule, TheLink) = "yes"
        BY RoutedByARule
    <2>2. ai \in SUPPORTED_PRIMARY_KEYS
        <3> DEFINE p == urlparse(Received(path))
        <3>1. HasKey(p) /\ ai = ParsedPath(p).primary_ai
            BY <2>1 DEF Accepted, Parses, parse, TheLink, Link, Seen
        <3> HIDE DEF p
        <3> QED
            BY <3>1, KeyIsPrimary, KeysAreSupported
    <2>3. ai \in Pinned(TheRule)
        <3>1. CASE ByKey
            <4>1. Clauses[1] = "primary_ai"
                BY DEF Clauses
            <4>2. Try("primary_ai", TheRule.match["primary_ai"], TheLink) = "yes"
                BY <2>1, <3>1, <4>1, EveryClauseHolds
            <4>3. ai = TheRule.match["primary_ai"]
                BY <4>2 DEF Try, YesIf
            <4> QED
                BY <4>3, <3>1 DEF Pinned
        <3>2. CASE ByNumber
            BY <3>2 DEF Pinned
        <3> QED
            BY <3>1, <3>2
    <2>4. ai \in Advertised
        BY <2>1, <2>2, <2>3 DEF TheRule
    <2> QED
        BY <2>4 DEF build_well_known, derive_primary_keys, OrGTIN
<1> QED
    BY <1>1, SequencesKept, PTL

-------------------------------------------------------------------------------
(* What arrives. *)

(* The server's decoding gives tokens that printed tokens are read as.       *)
LEMMA ReceivedType ==
    ASSUME NEW printed \in Seq(Token)
    PROVE  Received(printed) \in Seq(Text)
<1> DEFINE ends == Ends(printed)
           last == IF ends = {} THEN Len(printed) ELSE Min(ends)
           decoded == [i \in 1..last |-> Decoded(printed[i])]
<1>1. last \in Nat /\ last <= Len(printed)
    <2>1. ends \in SUBSET Nat /\ \A i \in ends : i <= Len(printed)
        BY DEF Ends
    <2>2. Len(printed) \in Nat
        OBVIOUS
    <2> HIDE DEF ends
    <2>3. CASE ends = {}
        BY <2>2, <2>3
    <2>4. CASE ends # {}
        <3>1. Min(ends) \in ends /\ last = Min(ends)
            BY <2>1, <2>4, LeastExists
        <3> QED
            BY <2>1, <3>1
    <2> QED
        BY <2>3, <2>4
<1> HIDE DEF last
<1>2. decoded \in Seq(Seq(Text))
    <2>1. ASSUME NEW i \in 1..last
          PROVE  Decoded(printed[i]) \in Seq(Text)
        <3>1. printed[i] \in Token
            BY <1>1
        <3>2. Decoded(printed[i]) \in Seq(Range(Decoded(printed[i])))
            BY <3>1, CarrierAssumption DEF IsSequence
        <3>3. Range(Decoded(printed[i])) \subseteq Text
            BY <3>1 DEF Text
        <3> QED
            BY <3>2, <3>3, SeqMonotonic
    <2> QED
        BY <1>1, <2>1
<1> HIDE DEF decoded
<1>3. FlattenSeq(decoded) \in Seq(Text)
    BY <1>2, FlattenRange
<1> QED
    BY <1>3 DEF Received, last, ends, decoded

(* What urlparse leaves of it is made of values. *)
LEMMA ReceivedPath ==
    ASSUME NEW printed \in Seq(Token)
    PROVE  urlparse(Received(printed)) \in Seq(Parsed(Text))
BY ReceivedType, UrlparseType

(* Names with values. *)
IsQuery(q) == \E T : q \in Seq(T) /\ \A x \in T : Len(x) = 2

(* What a text is split into. *)
LEMMA PartsOfText ==
    ASSUME NEW T, NEW text \in Seq(T), NEW sign
    PROVE  UpTo(text, sign) \in Seq(T) /\ Past(text, sign) \in Seq(T)
<1> DEFINE I == {i \in 1..Len(text) : text[i] = sign}
           n == At(text, sign)
<1>1. n = IF I # {} THEN Min(I) ELSE 0
    BY DEF At, SelectInSeq
<1>2. I \in SUBSET Nat /\ \A i \in I : i <= Len(text)
    OBVIOUS
<1> HIDE DEF I
<1>3. n \in Nat /\ n <= Len(text)
    <2>1. CASE I = {}
        BY <1>1, <2>1
    <2>2. CASE I # {}
        <3>1. Min(I) \in I
            BY <1>2, <2>2, LeastExists
        <3> QED
            BY <1>1, <1>2, <2>2, <3>1
    <2> QED
        BY <2>1, <2>2
<1> HIDE DEF n
<1>4. SubSeq(text, 1, n - 1) \in Seq(T) /\ SubSeq(text, n + 1, Len(text)) \in Seq(T)
    <2>1. \A i \in 1..(n - 1) : text[i] \in T
        BY <1>3
    <2>2. \A i \in (n + 1)..Len(text) : text[i] \in T
        BY <1>3
    <2>3. n - 1 \in Int /\ n + 1 \in Int /\ Len(text) \in Int /\ 1 \in Int
        BY <1>3
    <2> QED
        BY <1>3, <2>1, <2>2, <2>3, SubSeqProperties
<1>5. <<>> \in Seq(T)
    OBVIOUS
<1> QED
    BY <1>4, <1>5 DEF UpTo, Past, n

(* A text's query are names with values. *)
LEMMA SplitType ==
    ASSUME NEW T, NEW text \in Seq(T)
    PROVE  IsQuery(urlsplit(text).query)
<1> DEFINE q == Past(UpTo(text, "#"), "?")
<1>1. q \in Seq(T)
    BY PartsOfText
<1>2. urlsplit(text).query = parse_qsl(q)
    BY DEF urlsplit
<1> HIDE DEF q
<1> DEFINE ends == {i \in 1..(Len(q) + 1) : i <= Len(q) => q[i] = "&"}
           chunk(end) == SubSeq(q, Max({0} \cup {i \in ends : i < end}) + 1, end - 1)
           pair(end) == <<unquote_plus(UpTo(chunk(end), "=")), unquote_plus(Past(chunk(end), "="))>>
           n == Len(q) + 1
           pairs == [end \in 1..n |-> pair(end)]
           I == {end \in ends : chunk(end) # <<>>}
           all == {pair(end) : end \in 1..n}
<1>3. parse_qsl(q) = Picked(pairs, I)
    BY Zenon DEF parse_qsl
<1>4. n \in Nat
    BY <1>1
<1> DEFINE name(end) == unquote_plus(UpTo(chunk(end), "="))
           value(end) == unquote_plus(Past(chunk(end), "="))
<1>0. \A end : pair(end) = <<name(end), value(end)>>
    OBVIOUS
<1> HIDE DEF pair, I, n, name, value
<1>5. \A x \in all : Len(x) = 2
    BY <1>0
<1>6. pairs \in Seq(all)
    BY <1>4
<1> HIDE DEF pairs, all
<1>7. Picked(pairs, I) \in Seq(all)
    BY <1>6, PickedRange
<1> QED
    BY <1>2, <1>3, <1>5, <1>7 DEF IsQuery

(* A query, as it is printed, is a text. *)
LEMMA RawType ==
    ASSUME NEW T, Character \subseteq T, "?" \in T, "&" \in T, "=" \in T, NEW params \in Seq(Param)
    PROVE  Raw(params) \in Seq(T)
<1> DEFINE n == Len(params)
           sign(i) == IF i = 1 THEN "?" ELSE "&"
           name(i) == params[i][1]
           value(i) == params[i][2]
           one(i) == (((<<sign(i)>> \o name(i)) \o <<"=">>) \o value(i))
           all == Seq(T)
           seqs == [i \in 1..n |-> one(i)]
<1>1. n \in Nat /\ DOMAIN params = 1..n /\ \A i \in 1..n : params[i] \in Param
    OBVIOUS
<1>2. \A i \in 1..n : sign(i) \in T
    OBVIOUS
<1>3. ASSUME NEW i \in 1..n
      PROVE  name(i) \in Seq(T) /\ value(i) \in Seq(T)
    <2> DEFINE param == params[i]
    <2>1. param \in Seq(Range(param)) /\ Len(param) = 2 /\ Range(param) \subseteq Seq(Character)
        BY <1>1, CarrierAssumption DEF IsSequence
    <2> HIDE DEF param
    <2> DEFINE x == param[1]
               v == param[2]
    <2>2. x \in Seq(Character) /\ v \in Seq(Character)
        <3>1. x \in Range(param) /\ v \in Range(param)
            BY <2>1 DEF Range
        <3> QED
            BY <2>1, <3>1
    <2> HIDE DEF x, v
    <2>3. x \in Seq(T) /\ v \in Seq(T)
        BY <2>2, SeqMonotonic
    <2> QED
        BY <2>3, Zenon DEF x, v, param
<1> HIDE DEF n, sign, name, value
<1>4. ASSUME NEW i \in 1..n
      PROVE  one(i) \in all
    <2> DEFINE s == sign(i)
               x == name(i)
               v == value(i)
    <2>1. s \in T /\ x \in Seq(T) /\ v \in Seq(T)
        BY <1>2, <1>3
    <2> HIDE DEF s, x, v
    <2>2. (((<<s>> \o x) \o <<"=">>) \o v) \in Seq(T)
        BY <2>1
    <2> QED
        BY <2>2 DEF s, x, v
<1>5. Raw(params) = FlattenSeq(seqs)
    <2>1. Raw(params) = FlattenSeq([i \in 1..n |-> one(i)])
        BY <1>1, Zenon DEF Raw, sign, name, value
    <2> QED
        BY <2>1
<1> HIDE DEF one, all
<1>6. seqs \in Seq(all)
    BY <1>1, <1>4
<1> HIDE DEF seqs
<1> QED
    BY <1>5, <1>6, FlattenRange DEF all

(* So is a path. *)
LEMMA PlainType ==
    ASSUME NEW T, Character \subseteq T, "/" \in T, NEW printed \in Seq(Token)
    PROVE  FlattenSeq([i \in DOMAIN printed |-> <<"/">> \o Plain(printed[i])]) \in Seq(T)
<1> DEFINE n == Len(printed)
           text(i) == Plain(printed[i])
           one(i) == <<"/">> \o text(i)
           all == Seq(T)
           seqs == [i \in 1..n |-> one(i)]
<1>1. n \in Nat /\ DOMAIN printed = 1..n /\ \A i \in 1..n : printed[i] \in Token
    OBVIOUS
<1>2. ASSUME NEW i \in 1..n
      PROVE  text(i) \in Seq(T)
    <2>1. text(i) \in Seq(Character)
        BY <1>1, CarrierAssumption
    <2> HIDE DEF text
    <2> QED
        BY <2>1, SeqMonotonic
<1>3. seqs = [i \in DOMAIN printed |-> <<"/">> \o Plain(printed[i])]
    BY <1>1, Zenon
<1> HIDE DEF n, text
<1>4. \A i \in 1..n : one(i) \in all
    BY <1>2
<1> HIDE DEF one, all
<1>5. seqs \in Seq(all)
    BY <1>1, <1>4
<1> HIDE DEF seqs
<1>6. FlattenSeq(seqs) \in Seq(T)
    BY <1>5, FlattenRange DEF all
<1> QED
    BY <1>3, <1>6

(* So are the parameters of a link. *)
LEMMA ReceivedQueryType ==
    ASSUME NEW printed \in Seq(Token), NEW params \in Seq(Param)
    PROVE  IsQuery(ReceivedQuery(printed, params))
<1> DEFINE plain == FlattenSeq([i \in DOMAIN printed |-> <<"/">> \o Plain(printed[i])])
           raw == Raw(params)
           text == plain \o raw
           T == Character \cup {"/", "?", "&", "="}
<1>1. CASE Ends(printed) = {}
    BY <1>1, CarrierAssumption DEF ReceivedQuery, IsQuery
<1>2. CASE Ends(printed) # {}
    <2>1. ReceivedQuery(printed, params) = urlsplit(text).query
        BY <1>2 DEF ReceivedQuery
    <2>2. Character \subseteq T /\ "/" \in T /\ "?" \in T /\ "&" \in T /\ "=" \in T
        OBVIOUS
    <2> HIDE DEF T
    <2>3. plain \in Seq(T) /\ raw \in Seq(T)
        BY <2>2, PlainType, RawType
    <2> HIDE DEF plain, raw
    <2>4. text \in Seq(T)
        BY <2>3
    <2> QED
        BY <2>1, <2>4, SplitType
<1> QED
    BY <1>1, <1>2

(* Given finds the parameters of a name. *)
LEMMA GivenRange ==
    ASSUME NEW T, NEW params \in Seq(T), NEW name
    PROVE  /\ Given(params, name) \in Seq(T)
           /\ Range(Given(params, name)) = {pair \in Range(params) : pair[1] = name}
<1> DEFINE named == {pair \in Range(params) : pair[1] = name}
<1>1. named \subseteq Range(params)
    OBVIOUS
<1>2. Given(params, name) = Only(params, named)
    BY DEF Given
<1> HIDE DEF named
<1>3. Given(params, name) \in Seq(T) /\ Range(Given(params, name)) = named
    <2>1. Only(params, named) \in Seq(T) /\ Range(Only(params, named)) = Range(params) \cap named
        BY OnlyRange
    <2> QED
        BY <1>1, <1>2, <2>1
<1> QED
    BY <1>3 DEF named

(* What is forwarded are parameters of the link with a name that the rule    *)
(* lists; of a name that it lists once, all, in their order.                 *)
LEMMA ForwardedAre ==
    ASSUME NEW rule, NEW link, NEW T, NEW U, link.query_params \in Seq(T), rule.forward_query \in Seq(U)
    PROVE  LET added == forwarded(rule, link)
               listed == rule.forward_query
           IN  /\ added \in Seq(T)
               /\ {pair[1] : pair \in Range(added)} \subseteq Range(listed)
               /\ \A n \in DOMAIN listed :
                     (\A m \in DOMAIN listed : listed[m] = listed[n] => m = n)
                       => Given(added, listed[n]) = Given(link.query_params, listed[n])
<1> DEFINE listed == rule.forward_query
           params == link.query_params
           seqs == [n \in 1..Len(listed) |-> Given(params, listed[n])]
           added == FlattenSeq(seqs)
<1>1. /\ params \in Seq(T) /\ listed \in Seq(U)
      /\ DOMAIN listed = 1..Len(listed) /\ Len(listed) \in Nat
    OBVIOUS
<1>2. forwarded(rule, link) = added
    BY <1>1 DEF forwarded
<1> HIDE DEF listed, params
<1>3. ASSUME NEW n \in 1..Len(listed)
      PROVE  /\ seqs[n] = Given(params, listed[n]) /\ seqs[n] \in Seq(T)
             /\ \A pair \in Range(seqs[n]) : pair[1] = listed[n]
    BY <1>1, GivenRange
<1>4. seqs \in Seq(Seq(T)) /\ Len(seqs) = Len(listed)
    BY <1>1, <1>3
<1> HIDE DEF seqs
<1>5. added \in Seq(T) /\ Range(added) = UNION {Range(seqs[n]) : n \in 1..Len(listed)}
    BY <1>4, FlattenRange
<1>6. ASSUME NEW pair \in Range(added)
      PROVE  pair[1] \in Range(listed)
    <2>1. PICK n \in 1..Len(listed) : pair \in Range(seqs[n])
        BY <1>5
    <2>2. pair[1] = listed[n]
        BY <1>3, <2>1
    <2> QED
        BY <1>1, <2>2 DEF Range
<1>7. ASSUME NEW n \in 1..Len(listed), \A m \in 1..Len(listed) : listed[m] = listed[n] => m = n
      PROVE  Given(added, listed[n]) = Given(params, listed[n])
    <2> DEFINE S == {pair \in Range(added) : pair[1] = listed[n]}
    <2>1. AllIn(n, seqs, S)
        BY <1>3, <1>4, <1>7 DEF AllIn
    <2>2. Range(seqs[n]) \subseteq S
        BY <1>3, <1>5
    <2>3. Given(added, listed[n]) = Only(added, S)
        BY DEF Given
    <2> HIDE DEF S
    <2>4. Only(FlattenSeq(seqs), S) = Only(seqs[n], S)
        BY <1>4, <2>1, OnlyFlattened
    <2>5. Only(seqs[n], S) = seqs[n]
        BY <1>3, <2>2, OnlyAll
    <2> QED
        BY <1>3, <2>3, <2>4, <2>5
<1> HIDE DEF added
<1> QED
    BY <1>1, <1>2, <1>5, <1>6, <1>7 DEF listed, params

(* What is forwarded is a query. *)
LEMMA ForwardedType ==
    ASSUME NEW rule, NEW link, NEW U, rule.forward_query \in Seq(U), IsQuery(link.query_params)
    PROVE  IsQuery(forwarded(rule, link))
<1>1. PICK T : link.query_params \in Seq(T) /\ \A x \in T : Len(x) = 2
    BY DEF IsQuery
<1>2. forwarded(rule, link) \in Seq(T)
    BY <1>1, ForwardedAre
<1> QED
    BY <1>1, <1>2 DEF IsQuery

(* A text's own query, and behind it what is appended. *)
Appends(url, own, added) ==
    /\ SubSeq(url.query, 1, Len(own)) = own
    /\ SubSeq(url.query, Len(own) + 1, Len(url.query)) = added

(* Two queries, one behind the other. *)
LEMMA QueriesJoined ==
    ASSUME NEW a, NEW b, IsQuery(a), IsQuery(b)
    PROVE  /\ IsQuery(a \o b)
           /\ SubSeq(a \o b, 1, Len(a)) = a
           /\ SubSeq(a \o b, Len(a) + 1, Len(a \o b)) = b
<1>1. PICK T : a \in Seq(T) /\ \A x \in T : Len(x) = 2
    BY DEF IsQuery
<1>2. PICK U : b \in Seq(U) /\ \A x \in U : Len(x) = 2
    BY DEF IsQuery
<1> DEFINE all == T \cup U
<1>3. a \in Seq(all) /\ b \in Seq(all)
    <2>1. T \subseteq all /\ U \subseteq all
        OBVIOUS
    <2> HIDE DEF all
    <2> QED
        BY <1>1, <1>2, <2>1, SeqMonotonic
<1>4. \A x \in all : Len(x) = 2
    BY <1>1, <1>2
<1> HIDE DEF all
<1>5. a \o b \in Seq(all)
    BY <1>3
<1>6. SubSeq(a \o b, Len(a) + 1, Len(a \o b)) = b
    BY <1>3, Behind
<1>7. SubSeq(a \o b, 1, Len(a)) = a
    <2> DEFINE n == Len(a)
               s == a \o b
               x == SubSeq(s, 1, n)
    <2>1. n \in Nat /\ \A i \in 1..n : s[i] = a[i] /\ s[i] \in all
        BY <1>3
    <2> HIDE DEF s
    <2>2. /\ x \in Seq(all) /\ Len(x) = IF 1 <= n THEN n - 1 + 1 ELSE 0
          /\ \A i \in 1..(n - 1 + 1) : x[i] = s[1 + i - 1]
        BY <2>1, SubSeqProperties
    <2> HIDE DEF x
    <2>3. Len(x) = Len(a) /\ \A i \in 1..Len(x) : x[i] = a[i]
        BY <2>1, <2>2
    <2>4. x = a
        BY <1>3, <2>2, <2>3, SeqEqual
    <2> QED
        BY <2>4 DEF x, s, n
<1> QED
    BY <1>4, <1>5, <1>6, <1>7 DEF IsQuery

(* The context of a link is made of its values. *)
LEMMA ContextValues ==
    ASSUME NEW T, NEW p \in Seq(T), HasKey(p), NEW key \in DOMAIN as_dict(ParsedPath(p))
    PROVE  as_dict(ParsedPath(p))[key] \in Translated(T) \cup {""}
<1> DEFINE link == ParsedPath(p)
           V == Translated(T)
           ais == PRIMARY_AIS \cup QUALIFIER_AIS \cup ATTRIBUTE_AIS
           Q == link.qualifiers
           A == link.attributes
           first == [ai \in {link.primary_ai} |-> link.primary_value]
           second == Updated(first, Q)
           carried == Updated(second, A)
           names == [n \in {AI_TO_NAME[ai] : ai \in DOMAIN carried} |-> carried[NAME_TO_AI[n]]]
           get(values, ai) == IF ai \in DOMAIN values THEN values[ai] ELSE ""
           aliases == [serial |-> get(Q, "21"), batch |-> get(Q, "10"), expiry |-> get(A, "17")]
<1>1. /\ link.primary_ai \in ais /\ DOMAIN Q \subseteq ais /\ DOMAIN A \subseteq ais
    BY ParseType
<1>2. link.primary_value \in V
    <2>1. <<link.primary_ai, link.primary_value>> \in Pairs(V)
        BY ParseValues
    <2> QED
        BY <2>1, PairParts
<1>3. \A ai \in DOMAIN Q : Q[ai] \in V
    <2>1. PairsOf(Q) \subseteq Pairs(V)
        BY ParseValues
    <2> HIDE DEF Q, V
    <2>2. \A ai \in DOMAIN Q : <<ai, Q[ai]>> \in Pairs(V)
        BY <2>1 DEF PairsOf
    <2> QED
        BY <2>2, PairParts
<1>4. \A ai \in DOMAIN A : A[ai] \in V
    <2>1. PairsOf(A) \subseteq Pairs(V)
        BY ParseValues
    <2> HIDE DEF A, V
    <2>2. \A ai \in DOMAIN A : <<ai, A[ai]>> \in Pairs(V)
        BY <2>1 DEF PairsOf
    <2> QED
        BY <2>2, PairParts
<1>5. as_dict(link) = Updated(Updated(aliases, carried), names)
    BY Zenon DEF as_dict
<1> HIDE DEF link, V, Q, A, ais
<1>6. \A ai \in DOMAIN second : second[ai] \in V /\ ai \in ais
    BY <1>1, <1>2, <1>3 DEF Updated
<1> HIDE DEF second
<1>7. \A ai \in DOMAIN carried : carried[ai] \in V /\ ai \in ais
    BY <1>1, <1>4, <1>6 DEF Updated
<1> HIDE DEF carried
<1>8. \A n \in DOMAIN names : names[n] \in V
    BY <1>7, NamesAssumption DEF ais
<1>9. \A n \in DOMAIN aliases : aliases[n] \in V \cup {""}
    <2> DEFINE W == V \cup {""}
               a == get(Q, "21")
               b == get(Q, "10")
               c == get(A, "17")
    <2>1. a \in W /\ b \in W /\ c \in W
        BY <1>3, <1>4
    <2> HIDE DEF a, b, c, W
    <2>2. ASSUME NEW n \in {"serial", "batch", "expiry"}
          PROVE  aliases[n] \in W
        <3>1. CASE n = "serial"
            BY <2>1, <3>1 DEF a
        <3>2. CASE n = "batch"
            BY <2>1, <3>2 DEF b
        <3>3. CASE n = "expiry"
            BY <2>1, <3>3 DEF c
        <3> QED
            BY <3>1, <3>2, <3>3
    <2>3. DOMAIN aliases = {"serial", "batch", "expiry"}
        OBVIOUS
    <2> HIDE DEF aliases
    <2> QED
        BY <2>2, <2>3 DEF W
<1> HIDE DEF names, aliases
<1> DEFINE plain == Updated(aliases, carried)
           all == Updated(plain, names)
<1>10. \A n \in DOMAIN plain : plain[n] \in V \cup {""}
    BY <1>7, <1>9 DEF Updated
<1> HIDE DEF plain
<1>11. \A n \in DOMAIN all : all[n] \in V \cup {""}
    BY <1>8, <1>10 DEF Updated
<1> HIDE DEF all
<1>12. as_dict(link) = all
    BY <1>5 DEF plain, all
<1>13. key \in DOMAIN all
    BY <1>12 DEF link
<1> QED
    BY <1>11, <1>12, <1>13 DEF link, V

(* Sorted by length, a context still has each of its names.                  *)
LEMMA KeysAreNames ==
    ASSUME NEW link, NEW K, link.order \in Seq(K),
           Range(link.order) = K, K # {}, \A key \in K : Len(key) \in 1..14
    PROVE  Keys(link) \in Seq(K) /\ Range(Keys(link)) = K
<1> DEFINE order == link.order
           lengths == {Len(key) : key \in K}
           longest == Max(lengths)
           OfLength(n) == Only(order, {key \in K : Len(key) = n})
           seqs == [n \in 1..longest |-> OfLength(longest + 1 - n)]
<1>1. /\ lengths \in SUBSET (1..14) /\ lengths # {} /\ 14 \in Nat
    OBVIOUS
<1>2. longest \in 1..14 /\ \A n \in lengths : n <= longest
    <2> HIDE DEF lengths
    <2> QED
        BY <1>1, GreatestExists
<1>3. Keys(link) = FlattenSeq(seqs)
    BY DEF Keys
<1>4. order \in Seq(K) /\ Range(order) = K
    OBVIOUS
<1> HIDE DEF longest, order
<1>5. ASSUME NEW n
      PROVE  OfLength(n) \in Seq(K) /\ Range(OfLength(n)) = {key \in K : Len(key) = n}
    <2> DEFINE S == {key \in K : Len(key) = n}
    <2>1. S \subseteq K
        OBVIOUS
    <2> HIDE DEF S
    <2>2. Only(order, S) \in Seq(K) /\ Range(Only(order, S)) = Range(order) \cap S
        BY <1>4, OnlyRange
    <2>3. Range(Only(order, S)) = S
        BY <1>4, <2>1, <2>2
    <2> QED
        BY <2>2, <2>3 DEF S
<1> HIDE DEF OfLength
<1>6. seqs \in Seq(Seq(K)) /\ Len(seqs) = longest
    <2> DEFINE all == Seq(K)
    <2>1. \A n \in 1..longest : OfLength(longest + 1 - n) \in all
        BY <1>5
    <2> HIDE DEF all
    <2> QED
        BY <1>2, <2>1 DEF all
<1>7. \A n \in 1..longest : Range(seqs[n]) = {key \in K : Len(key) = longest + 1 - n}
    BY <1>5
<1> HIDE DEF seqs
<1>8. /\ FlattenSeq(seqs) \in Seq(K)
      /\ Range(FlattenSeq(seqs)) = UNION {Range(seqs[n]) : n \in 1..Len(seqs)}
    BY <1>6, FlattenRange
<1>9. ASSUME NEW key \in K
      PROVE  key \in Range(FlattenSeq(seqs))
    <2> DEFINE n == longest + 1 - Len(key)
    <2>1. Len(key) \in 1..14
        OBVIOUS
    <2>2. Len(key) <= longest /\ longest \in 1..14
        BY <1>2
    <2> DEFINE len == Len(key)
    <2>3. n = longest + 1 - len /\ len \in 1..14 /\ len <= longest
        BY <2>1, <2>2
    <2> HIDE DEF len, n
    <2>4. n \in 1..longest /\ longest + 1 - n = len
        BY <2>2, <2>3
    <2>5. key \in Range(seqs[n])
        BY <1>7, <2>4 DEF len
    <2> QED
        BY <1>6, <1>8, <2>4, <2>5
<1>10. Range(FlattenSeq(seqs)) \subseteq K
    BY <1>6, <1>7, <1>8
<1> QED
    BY <1>3, <1>8, <1>9, <1>10

(* So is the context of every link that parses: it has the names that its    *)
(* order lists, all of them names of the tables.                             *)
LEMMA LinksAreWellNamed ==
    ASSUME NEW T, Translated(T) \subseteq Value, NEW p \in Seq(T), HasKey(p),
           NEW link, link.ctx = as_dict(ParsedPath(p)), link.order = OrderOf(Segments(p), PrimaryIndex(p))
    PROVE  WellNamed(link)
<1> DEFINE ais == CarriedAIs(ParsedPath(p))
           K == NamesFor(ais)
<1>1. DOMAIN link.ctx = K
    BY ContextNames
<1>2. link.order \in Seq(K) /\ Range(link.order) = K
    BY OrderNames
<1>3. ais \subseteq PRIMARY_AIS \cup QUALIFIER_AIS \cup ATTRIBUTE_AIS
    BY ParseType DEF CarriedAIs
<1>4. \A key \in DOMAIN link.ctx : Spelt(link.ctx[key]) \in Seq(Character)
    <2> SUFFICES ASSUME NEW key \in DOMAIN link.ctx
                 PROVE  Spelt(link.ctx[key]) \in Seq(Character)
        OBVIOUS
    <2>1. link.ctx[key] \in Translated(T) \cup {""}
        BY ContextValues
    <2> HIDE DEF K
    <2>2. link.ctx[key] \in Value \cup {""}
        BY <2>1
    <2> QED
        BY <2>2, SpellingAssumption
<1> HIDE DEF ais
<1>5. K \subseteq Placeholder /\ K # {}
    BY <1>3 DEF NamesFor, Placeholder
<1> HIDE DEF K
<1>6. \A key \in K : /\ Len(key) \in 1..14 /\ Spelt(key) \in Seq(Character) /\ BraceFree(Spelt(key))
                     /\ \A other \in K : Spelt(key) = Spelt(other) => key = other
    BY <1>5, SpellingAssumption
<1>7. Keys(link) \in Seq(K) /\ Range(Keys(link)) = K
    BY <1>2, <1>5, <1>6, KeysAreNames
<1>8. ASSUME NEW key \in K
      PROVE  /\ Hole(key) \in Seq(Character) /\ Braced(Hole(key))
             /\ \A other \in K : Hole(key) = Hole(other) => key = other
    <2>1. Hole(key) \in Seq(Character) /\ Braced(Hole(key))
        BY <1>6, SpellingAssumption, HoleIsBraced
    <2>2. ASSUME NEW other \in K, Hole(key) = Hole(other)
          PROVE  key = other
        <3>1. Spelt(key) = Spelt(other)
            BY <1>6, <2>2, SameHole
        <3> QED
            BY <1>6, <3>1
    <2> QED
        BY <2>1, <2>2
<1> QED
    BY <1>1, <1>4, <1>7, <1>8 DEF WellNamed

(* What urlparse leaves of a link is made of values. *)
LEMMA ParsedValues == Translated(Parsed(Text)) = Value
BY DEF Translated, Parsed, Value

(* The link that was routed, as the parser has it. *)
LEMMA TheLinkIsParsed ==
    ASSUME InputsAreSequences, Routed
    PROVE  LET p == urlparse(Received(path))
           IN  /\ p \in Seq(Parsed(Text)) /\ HasKey(p)
               /\ TheLink = Seen(ParsedPath(p), ReceivedQuery(path, query),
                                 OrderOf(Segments(p), PrimaryIndex(p)))
<1>1. Accepted(path)
    BY RoutedByARule
<1> QED
    BY <1>1, ReceivedPath DEF InputsAreSequences, Accepted, Parses, parse, as_dict_order, TheLink, Link

(* It is well named. *)
LEMMA TheLinkIsWellNamed ==
    ASSUME InputsAreSequences, Routed
    PROVE  WellNamed(TheLink)
<1> DEFINE p == urlparse(Received(path))
<1>1. /\ p \in Seq(Parsed(Text)) /\ HasKey(p)
      /\ TheLink = Seen(ParsedPath(p), ReceivedQuery(path, query),
                        OrderOf(Segments(p), PrimaryIndex(p)))
    BY TheLinkIsParsed
<1> HIDE DEF p
<1>2. TheLink.ctx = as_dict(ParsedPath(p)) /\ TheLink.order = OrderOf(Segments(p), PrimaryIndex(p))
    BY <1>1 DEF Seen
<1> QED
    BY <1>1, <1>2, ParsedValues, LinksAreWellNamed

-------------------------------------------------------------------------------
(* The answer. *)

(* A link of a rule, filled. *)
FilledLink(link_type, rule, link) ==
    [href  |-> Filled(link_type.href, rule, link),
     title |-> _fill(link_type.title, link)]

(* The rule that routed a link can be filled, and what it is filled to is    *)
(* the answer.                                                               *)
LEMMA RoutedIsFilled ==
    ASSUME InputsAreSequences, Routed
    PROVE  /\ TheRule \in Rule
           /\ TheRule.target # Malformed /\ TheRule.forward_query # Malformed
           /\ TheRule.link_types \notin {Malformed, Null}
           /\ Fillable(TheRule, TheLink)
           /\ answer.target = Filled(TheRule.target, TheRule, TheLink)
           /\ answer.links = [i \in DOMAIN TheRule.link_types |->
                                 FilledLink(TheRule.link_types[i], TheRule, TheLink)]
<1>1. FirstMatch(rules, TheLink) \in DOMAIN rules /\ matches(TheRule, TheLink) = "yes"
    BY RoutedByARule
<1>2. load(rules, declared) = "loaded" /\ answer = resolve(rules, TheLink)
    BY DEF Routed, answer, Answer, TheLink
<1>3. /\ \A i \in DOMAIN rules : WellFormed(rules[i])
      /\ \A i \in DOMAIN rules : rules[i].link_types # Null
    BY <1>2 DEF load, _validate_config
<1>4. WellFormed(TheRule) /\ TheRule.link_types # Null /\ TheRule \in Rule
    BY <1>1, <1>3 DEF TheRule, InputsAreSequences
<1>5. Fillable(TheRule, TheLink)
    BY <1>2 DEF resolve, TheRule, Routed
<1>6. answer = [outcome |-> "match",
                target  |-> Filled(TheRule.target, TheRule, TheLink),
                links   |-> [i \in DOMAIN TheRule.link_types |->
                                FilledLink(TheRule.link_types[i], TheRule, TheLink)]]
    BY <1>1, <1>2, <1>5 DEF resolve, TheRule, Routed, FilledLink
<1> QED
    BY <1>4, <1>5, <1>6 DEF WellFormed

(* Its templates are texts in parts. *)
LEMMA TemplatesAreTexts ==
    ASSUME InputsAreSequences, Routed
    PROVE  /\ TheRule.target \in Seq(Seq(Character))
           /\ \A i \in DOMAIN TheRule.link_types :
                 /\ TheRule.link_types[i].href \in Seq(Seq(Character))
                 /\ TheRule.link_types[i].title \in Seq(Seq(Character))
<1>1. /\ TheRule \in Rule /\ TheRule.target # Malformed
      /\ TheRule.link_types \notin {Malformed, Null} /\ Fillable(TheRule, TheLink)
    BY RoutedIsFilled
<1>2. ASSUME NEW i \in DOMAIN TheRule.link_types
      PROVE  /\ TheRule.link_types[i].href \in Seq(Seq(Character))
             /\ TheRule.link_types[i].title \in Seq(Seq(Character))
    <2>1. TheRule.link_types[i] \in Range(TheRule.link_types)
        BY DEF Range
    <2>2. TheRule.link_types[i].title # NoText
        BY <1>1 DEF Fillable
    <2> QED
        BY <1>1, <2>1, <2>2, RulesAssumption
<1> QED
    BY <1>1, <1>2, RulesAssumption

(* The query of the link, and what the rule forwards of it. *)
LEMMA ForwardedIsQuery ==
    ASSUME InputsAreSequences, Routed
    PROVE  /\ IsQuery(TheLink.query_params)
           /\ TheRule.forward_query \in Seq(Range(TheRule.forward_query))
           /\ IsQuery(forwarded(TheRule, TheLink))
<1>1. IsQuery(TheLink.query_params)
    <2>1. TheLink.query_params = ReceivedQuery(path, query)
        BY DEF TheLink, Link, Seen
    <2> QED
        BY <2>1, ReceivedQueryType DEF InputsAreSequences
<1>2. TheRule.forward_query \in Seq(Range(TheRule.forward_query))
    BY RoutedIsFilled, RulesAssumption DEF IsSequence
<1> QED
    BY <1>1, <1>2, ForwardedType

(* A filled template has the query that its text reads as, and behind it     *)
(* what the rule forwards, unless it is filled with nothing.                 *)
LEMMA FilledQuery ==
    ASSUME InputsAreSequences, Routed, NEW template \in Seq(Seq(Character))
    PROVE  LET url  == Filled(template, TheRule, TheLink)
               text == _fill(template, TheLink)
           IN  /\ text # <<>> =>
                     Appends(url, urlsplit(text).query, forwarded(TheRule, TheLink))
               /\ IsQuery(url.query)
<1> DEFINE text == _fill(template, TheLink)
           own == urlsplit(text).query
           added == forwarded(TheRule, TheLink)
           url == Filled(template, TheRule, TheLink)
<1>1. text \in Seq(Character)
    BY TheLinkIsWellNamed, FillType
<1>2. IsQuery(added)
    BY ForwardedIsQuery
<1>3. /\ text = <<>> => url = urlsplit(text)
      /\ text # <<>> => url = [urlsplit(text) EXCEPT !.query = @ \o added]
    BY DEF Filled, _append_query
<1>4. urlsplit(text) = [base |-> urlsplit(text).base, query |-> own, fragment |-> urlsplit(text).fragment]
    BY DEF urlsplit
<1> HIDE DEF text, added, url
<1>5. IsQuery(own)
    BY <1>1, SplitType
<1>6. text = <<>> => url.query = own
    BY <1>3
<1>7. text # <<>> => url.query = own \o added
    <2> HIDE DEF own
    <2> QED
        BY <1>3, <1>4
<1> HIDE DEF own
<1>8. /\ IsQuery(own \o added)
      /\ SubSeq(own \o added, 1, Len(own)) = own
      /\ SubSeq(own \o added, Len(own) + 1, Len(own \o added)) = added
    BY <1>2, <1>5, QueriesJoined
<1>9. IsQuery(url.query)
    BY <1>5, <1>6, <1>7, <1>8
<1>10. text # <<>> => Appends(url, own, added)
    BY <1>7, <1>8 DEF Appends
<1> QED
    BY <1>9, <1>10 DEF text, own, added, url

(* A config that loads has rules that resolve() can use, and every answer is *)
(* one that the service handles, its queries made of names with values       *)
(* (_validate_config, Router.resolve).                                       *)
THEOREM AnswersTyped == Spec => []TypeOK
<1>1. InputsAreSequences => TypeOK
    <2> SUFFICES ASSUME InputsAreSequences
                 PROVE  TypeOK
        OBVIOUS
    <2>1. /\ bound \in Bound /\ declared \in bound.declared
          /\ Len(rules) <= bound.rules /\ Len(path) <= bound.tokens /\ Len(query) <= bound.params
        BY DEF InputsAreSequences
    <2>2. ASSUME load(rules, declared) = "loaded", NEW i \in DOMAIN rules
          PROVE  /\ rules[i].target # Malformed /\ rules[i].forward_query # Malformed
                 /\ rules[i].link_types \notin {Malformed, Null}
        BY <2>2 DEF load, _validate_config, WellFormed
    <2>3. answer.outcome \in {"bad_request", "config_error", "none", "raises", "match"}
        BY DEF answer, Answer, resolve
    <2>4. ASSUME answer.outcome = "match",
                 NEW url \in {answer.target} \cup {link.href : link \in Range(answer.links)}
          PROVE  \A i \in DOMAIN url.query : Len(url.query[i]) = 2
        <3>1. Routed
            BY <2>4 DEF Routed
        <3>2. PICK template \in Seq(Seq(Character)) : url = Filled(template, TheRule, TheLink)
            <4>1. CASE url = answer.target
                BY <3>1, <4>1, RoutedIsFilled, TemplatesAreTexts
            <4>2. CASE url \in {link.href : link \in Range(answer.links)}
                <5>1. PICK i \in DOMAIN TheRule.link_types :
                          url = Filled(TheRule.link_types[i].href, TheRule, TheLink)
                    BY <3>1, <4>2, RoutedIsFilled DEF Range, FilledLink
                <5> QED
                    BY <3>1, <5>1, TemplatesAreTexts
            <4> QED
                BY <2>4, <4>1, <4>2
        <3>3. IsQuery(url.query)
            BY <3>1, <3>2, FilledQuery
        <3> QED
            BY <3>3 DEF IsQuery
    <2> QED
        BY <2>1, <2>2, <2>3, <2>4 DEF TypeOK
<1> QED
    BY <1>1, SequencesKept, PTL

(* What a rule lists of the query reaches the target and every link, all the *)
(* values of a parameter in their order, and what it does not list stays     *)
(* behind; in front of it are the pairs that the filled template reads as    *)
(* (Route.forwarded, _append_query).                                         *)
THEOREM ForwardsListed == Spec => []ForwardsWhatIsListed
<1>1. InputsAreSequences => ForwardsWhatIsListed
    <2> DEFINE listed == TheRule.forward_query
               Once(n) == \A m \in DOMAIN listed : listed[m] = listed[n] => m = n
               own(template) == urlsplit(_fill(template, TheLink)).query
               added(url, template) == SubSeq(url.query, Len(own(template)) + 1, Len(url.query))
               Forwards(url, template) == _fill(template, TheLink) # <<>> =>
                   /\ SubSeq(url.query, 1, Len(own(template))) = own(template)
                   /\ {pair[1] : pair \in Range(added(url, template))} \subseteq Range(listed)
                   /\ \A n \in DOMAIN listed : Once(n) =>
                          Given(added(url, template), listed[n]) = Given(TheLink.query_params, listed[n])
    <2> SUFFICES ASSUME InputsAreSequences, Routed
                 PROVE  /\ Forwards(answer.target, TheRule.target)
                        /\ \A i \in DOMAIN answer.links :
                              Forwards(answer.links[i].href, TheRule.link_types[i].href)
        BY Zenon DEF ForwardsWhatIsListed
    <2>1. ASSUME NEW template \in Seq(Seq(Character))
          PROVE  Forwards(Filled(template, TheRule, TheLink), template)
        <3> DEFINE url == Filled(template, TheRule, TheLink)
        <3>1. _fill(template, TheLink) # <<>> => Appends(url, own(template), forwarded(TheRule, TheLink))
            BY FilledQuery
        <3>2. PICK T : TheLink.query_params \in Seq(T)
            BY ForwardedIsQuery DEF IsQuery
        <3>3. listed \in Seq(Range(listed))
            BY ForwardedIsQuery
        <3>4. /\ {pair[1] : pair \in Range(forwarded(TheRule, TheLink))} \subseteq Range(listed)
              /\ \A n \in DOMAIN listed : Once(n) =>
                    Given(forwarded(TheRule, TheLink), listed[n]) = Given(TheLink.query_params, listed[n])
            BY <3>2, <3>3, ForwardedAre
        <3> HIDE DEF own, url, listed
        <3> QED
            BY <3>1, <3>4 DEF Appends, url
    <2> HIDE DEF Forwards
    <2>2. ASSUME NEW i \in DOMAIN answer.links
          PROVE  /\ answer.links[i].href = Filled(TheRule.link_types[i].href, TheRule, TheLink)
                 /\ TheRule.link_types[i].href \in Seq(Seq(Character))
        BY RoutedIsFilled, TemplatesAreTexts DEF FilledLink
    <2> QED
        BY <2>1, <2>2, RoutedIsFilled, TemplatesAreTexts
<1> QED
    BY <1>1, SequencesKept, PTL

(* Templates are filled from the link alone: where braces are those of       *)
(* placeholders, each placeholder that the link has a value for is replaced  *)
(* by that value, and nothing else is touched (_fill,                        *)
(* GS1ParseResult.as_dict).                                                  *)
THEOREM FilledFromTheLinkAlone == Spec => []FilledFromTheLink
<1>1. InputsAreSequences => FilledFromTheLink
    <2> DEFINE SideBySideOf(template) == SideBySide(template, TheLink.ctx)
               Read(url, template) == Tidy(template) =>
                   url = _append_query(SideBySideOf(template), forwarded(TheRule, TheLink))
    <2> SUFFICES ASSUME InputsAreSequences, Routed, NoBracesIn(TheLink)
                 PROVE  /\ Read(answer.target, TheRule.target)
                        /\ \A i \in DOMAIN answer.links :
                              /\ Read(answer.links[i].href, TheRule.link_types[i].href)
                              /\ Tidy(TheRule.link_types[i].title) =>
                                    answer.links[i].title = SideBySideOf(TheRule.link_types[i].title)
        BY Zenon DEF FilledFromTheLink
    <2>1. WellNamed(TheLink)
        BY TheLinkIsWellNamed
    <2>2. ASSUME NEW template \in Seq(Seq(Character)), Tidy(template)
          PROVE  _fill(template, TheLink) = SideBySideOf(template)
        BY <2>1, <2>2, TidyIsFilled DEF FillsSideBySide
    <2> HIDE DEF SideBySideOf
    <2>3. ASSUME NEW template \in Seq(Seq(Character))
          PROVE  Read(Filled(template, TheRule, TheLink), template)
        BY <2>2 DEF Filled
    <2> HIDE DEF Read
    <2>4. ASSUME NEW i \in DOMAIN answer.links
          PROVE  /\ answer.links[i].href = Filled(TheRule.link_types[i].href, TheRule, TheLink)
                 /\ answer.links[i].title = _fill(TheRule.link_types[i].title, TheLink)
                 /\ TheRule.link_types[i].href \in Seq(Seq(Character))
                 /\ TheRule.link_types[i].title \in Seq(Seq(Character))
        BY RoutedIsFilled, TemplatesAreTexts DEF FilledLink
    <2> QED
        BY <2>2, <2>3, <2>4, RoutedIsFilled, TemplatesAreTexts
<1> QED
    BY <1>1, SequencesKept, PTL


-------------------------------------------------------------------------------
(* The canonical form. *)

(* A token that is decoded to what is printed, and ends nothing.             *)
DecodesTo(form, q) ==
    /\ DOMAIN form = 1..Len(form) /\ Len(form) = Len(q) /\ Len(form) \in Nat
    /\ \A i \in 1..Len(form) : Decoded(form[i]) = <<q[i]>> /\ Range(Plain(form[i])) \cap Signs = {}

(* It arrives as what it is decoded to, its query whole. *)
LEMMA ReceivedAsPrinted ==
    ASSUME NEW form, NEW T, NEW q \in Seq(T), DecodesTo(form, q)
    PROVE  /\ Received(form) = q
           /\ \A params : ReceivedQuery(form, params) = params
<1>1. Ends(form) = {}
    BY DEF Ends, DecodesTo
<1>2. Received(form) = FlattenSeq([i \in 1..Len(form) |-> Decoded(form[i])])
    BY <1>1 DEF Received
<1>3. [i \in 1..Len(form) |-> Decoded(form[i])] = [i \in 1..Len(q) |-> <<q[i]>>]
    BY DEF DecodesTo
<1>4. FlattenSeq([i \in 1..Len(form) |-> Decoded(form[i])]) = q
    BY <1>3, FlattenSingles
<1> QED
    BY <1>1, <1>2, <1>4 DEF ReceivedQuery

(* The AIs that the form prints are values that a name may bring. *)
LEMMA AIsAreValues ==
    /\ PRIMARY_AIS \cup QUALIFIER_AIS \cup ATTRIBUTE_AIS \subseteq Value
    /\ Translated(Value) = Value
<1>1. ASSUME NEW ai \in PRIMARY_AIS \cup QUALIFIER_AIS \cup ATTRIBUTE_AIS
      PROVE  ai \in Range(NAME_TO_AI)
    <2> DEFINE name == AI_TO_NAME[ai]
    <2>1. name \in DOMAIN NAME_TO_AI /\ NAME_TO_AI[name] = ai
        BY NamesAssumption
    <2> HIDE DEF name
    <2> QED
        BY <2>1 DEF Range
<1> QED
    BY <1>1 DEF Value, Translated

(* Whose canonical form arrives as it should: its GTIN needs no padding.     *)
NeedsNoPad(link) == KeyPair(link) = <<link.primary_ai, link.primary_value>>

(* A canonical link arrives as the pairs that were printed.                  *)
LEMMA CanonicalArrives ==
    ASSUME NEW p \in Seq(Parsed(Text)), HasKey(p), NeedsNoPad(ParsedPath(p))
    PROVE  LET pairs == CanonicalPairs(ParsedPath(p))
               form  == canonicalise(ParsedPath(p))
           IN  /\ Received(form) = Printed(pairs) /\ Printed(pairs) \in Seq(Value)
               /\ \A params : ReceivedQuery(form, params) = params
<1> DEFINE link == ParsedPath(p)
           pairs == CanonicalPairs(link)
           n == Len(pairs)
           quoted == [i \in 1..n |-> <<pairs[i][1], Quote(pairs[i][2])>>]
           form == canonicalise(link)
           q == Printed(pairs)
<1>1. /\ pairs \in Seq(Pairs(Value)) /\ n \in Nat \ {0}
      /\ \A i \in 1..n : /\ pairs[i][1] \in PRIMARY_AIS \cup QUALIFIER_AIS \cup ATTRIBUTE_AIS
                         /\ pairs[i][2] \in Value
    BY CanonicalPairsKnown, ParsedValues DEF NeedsNoPad
<1>2. form = Printed(quoted)
    <2>1. DOMAIN pairs = 1..n
        BY <1>1
    <2> QED
        BY <2>1 DEF canonicalise
<1>3. Len(quoted) = n
    BY <1>1
<1> HIDE DEF pairs, n, form, link
<1>4. ASSUME NEW i \in 1..n
      PROVE  /\ Decoded(quoted[i][1]) = <<pairs[i][1]>> /\ Range(Plain(quoted[i][1])) \cap Signs = {}
             /\ Decoded(quoted[i][2]) = <<pairs[i][2]>> /\ Range(Plain(quoted[i][2])) \cap Signs = {}
             /\ pairs[i][1] \in Value /\ pairs[i][2] \in Value
    <2>1. quoted[i][1] = pairs[i][1] /\ quoted[i][2] = Quote(pairs[i][2])
        OBVIOUS
    <2> HIDE DEF quoted
    <2> QED
        BY <1>1, <2>1, QuotingAssumption, AIsAreValues
<1> HIDE DEF quoted
<1>5. form = [i \in 1..(2*n) |-> quoted[(i + 1) \div 2][IF i % 2 = 1 THEN 1 ELSE 2]]
    BY <1>2, <1>3 DEF Printed
<1>6. q = [i \in 1..(2*n) |-> pairs[(i + 1) \div 2][IF i % 2 = 1 THEN 1 ELSE 2]]
    BY DEF Printed, n
<1>7. ASSUME NEW i \in 1..(2*n)
      PROVE  /\ Decoded(form[i]) = <<q[i]>> /\ Range(Plain(form[i])) \cap Signs = {}
             /\ q[i] \in Value
    <2> DEFINE k == (i + 1) \div 2
    <2>1. k \in 1..n
        BY <1>1
    <2>2. /\ form[i] = quoted[k][IF i % 2 = 1 THEN 1 ELSE 2]
          /\ q[i] = pairs[k][IF i % 2 = 1 THEN 1 ELSE 2]
        BY <1>5, <1>6
    <2> HIDE DEF k, q
    <2>3. CASE i % 2 = 1
        BY <1>4, <2>1, <2>2, <2>3
    <2>4. CASE i % 2 # 1
        BY <1>4, <2>1, <2>2, <2>4
    <2> QED
        BY <2>3, <2>4
<1>8. Len(form) = 2*n /\ Len(q) = 2*n /\ 2*n \in Nat /\ DOMAIN form = 1..(2*n)
    BY <1>1, <1>5, <1>6
<1>9. q = [i \in 1..(2*n) |-> q[i]]
    BY <1>6
<1> HIDE DEF q
<1>10. q \in Seq(Value)
    BY <1>7, <1>8, <1>9
<1>11. DecodesTo(form, q)
    BY <1>7, <1>8 DEF DecodesTo
<1>12. Received(form) = q /\ \A params : ReceivedQuery(form, params) = params
    BY <1>10, <1>11, ReceivedAsPrinted
<1> QED
    BY <1>10, <1>12 DEF form, q, pairs, link

(* Received, and not cut at its end, it is parsed as the link, without its   *)
(* unknown AIs.                                                              *)
LEMMA CanonicalIsParsed ==
    ASSUME NEW p \in Seq(Parsed(Text)), HasKey(p), NeedsNoPad(ParsedPath(p)),
           LET received == Received(canonicalise(ParsedPath(p)))
           IN  Cut(received[Len(received)]) = received[Len(received)]
    PROVE  LET q == Received(canonicalise(ParsedPath(p)))
           IN  /\ q \in Seq(Value) /\ urlparse(q) = q /\ HasKey(q)
               /\ ParsedPath(q).primary_ai = ParsedPath(p).primary_ai
               /\ ParsedPath(q).primary_value = ParsedPath(p).primary_value
               /\ ParsedPath(q).qualifiers = ParsedPath(p).qualifiers
               /\ ParsedPath(q).attributes = ParsedPath(p).attributes
<1> DEFINE link == ParsedPath(p)
           q == Received(canonicalise(link))
           pairs == CanonicalPairs(link)
<1>1. /\ link.primary_ai \in PRIMARY_AIS
      /\ DOMAIN link.qualifiers \subseteq QUALIFIER_AIS
      /\ DOMAIN link.attributes \subseteq PRIMARY_AIS \cup ATTRIBUTE_AIS
    BY ParseType
<1>2. /\ link.qualifiers = [ai \in DOMAIN link.qualifiers |-> link.qualifiers[ai]]
      /\ link.attributes = [ai \in DOMAIN link.attributes |-> link.attributes[ai]]
    BY ParseValues
<1>3. q = Printed(pairs) /\ q \in Seq(Value)
    BY CanonicalArrives
<1>4. pairs \in Seq(Pairs(Value)) /\ Len(pairs) # 0
    BY CanonicalPairsKnown, ParsedValues DEF NeedsNoPad
<1>5. KeyPair(link)[2] = link.primary_value
    BY DEF NeedsNoPad
<1>6. Cut(q[Len(q)]) = q[Len(q)]
    OBVIOUS
<1> HIDE DEF q, pairs
<1>7. urlparse(q) = q
    BY <1>3, <1>4, <1>6, PrintedIsLeft
<1>8. Segments(q) = pairs
    BY <1>3, <1>4, PrintedReads
<1> HIDE DEF link
<1>9. /\ HasKey(q)
      /\ ParsedPath(q) = [primary_ai    |-> link.primary_ai,
                          primary_value |-> KeyPair(link)[2],
                          qualifiers    |-> link.qualifiers,
                          attributes    |-> link.attributes,
                          unknown_ais   |-> <<>>]
    BY <1>1, <1>2, <1>3, <1>8, CanonicalReads DEF pairs
<1> QED
    BY <1>3, <1>5, <1>7, <1>9 DEF q, link

-------------------------------------------------------------------------------
(* Two links are routed alike when they carry the same, whatever the order   *)
(* of their names.                                                           *)
AlikeButForOrder(link, other) ==
    /\ link.primary_ai = other.primary_ai /\ link.primary_value = other.primary_value
    /\ link.qualifiers = other.qualifiers /\ link.query_params = other.query_params
    /\ link.ctx = other.ctx

(* The clauses of a rule do not read the order. *)
LEMMA MatchesAlike ==
    ASSUME NEW link, NEW other, AlikeButForOrder(link, other), NEW rule
    PROVE  matches(rule, link) = matches(rule, other)
<1>1. ASSUME NEW clause, NEW wanted
      PROVE  Try(clause, wanted, link) = Try(clause, wanted, other)
    BY DEF Try, AlikeButForOrder
<1> QED
    BY <1>1 DEF matches

(* Nor does the search for a rule. *)
LEMMA FoundAlike ==
    ASSUME NEW link, NEW other, AlikeButForOrder(link, other), NEW config
    PROVE  FirstMatch(config, link) = FirstMatch(config, other)
<1>1. \A rule : matches(rule, link) = matches(rule, other)
    BY MatchesAlike
<1>2. Stops(config, link) = Stops(config, other)
    BY <1>1 DEF Stops
<1> QED
    BY <1>2 DEF FirstMatch

(* Well named, they fill a tidy template alike. *)
BothWellNamed(link, other) ==
    /\ AlikeButForOrder(link, other) /\ NoBracesIn(link)
    /\ WellNamed(link) /\ WellNamed(other)

FillsAlike(template, link, other) == _fill(template, link) = _fill(template, other)

(* For a tidy template is filled part by part. *)
LEMMA TidyFillsAlike ==
    ASSUME NEW link, NEW other, BothWellNamed(link, other),
           NEW template \in Seq(Seq(Character)), Tidy(template)
    PROVE  FillsAlike(template, link, other)
<1>1. link.ctx = other.ctx /\ NoBracesIn(other)
    BY DEF BothWellNamed, AlikeButForOrder, NoBracesIn
<1>2. FillsSideBySide(template, link) /\ FillsSideBySide(template, other)
    BY <1>1, TidyIsFilled DEF BothWellNamed
<1> QED
    BY <1>1, <1>2 DEF FillsSideBySide, FillsAlike

(* A rule's templates, all tidy. *)
TidyRule(rule) ==
    /\ rule.target \in Seq(Seq(Character)) /\ Tidy(rule.target)
    /\ \A i \in DOMAIN rule.link_types :
          /\ rule.link_types[i].href \in Seq(Seq(Character)) /\ Tidy(rule.link_types[i].href)
          /\ rule.link_types[i].title \in Seq(Seq(Character)) /\ Tidy(rule.link_types[i].title)

(* So the rule that is found leads both to the same.                         *)
LEMMA ResolvedAlike ==
    ASSUME NEW config, NEW link, NEW other, BothWellNamed(link, other),
           TidyRule(config[FirstMatch(config, link)])
    PROVE  resolve(config, link) = resolve(config, other)
<1> DEFINE found == FirstMatch(config, link)
           rule == config[found]
<1>1. AlikeButForOrder(link, other) /\ found = FirstMatch(config, other)
    BY FoundAlike DEF BothWellNamed
<1>2. matches(rule, link) = matches(rule, other)
    BY <1>1, MatchesAlike
<1>3. forwarded(rule, link) = forwarded(rule, other)
    BY <1>1 DEF forwarded, AlikeButForOrder
<1> HIDE DEF rule, found
<1>4. _fill(rule.target, link) = _fill(rule.target, other)
    BY TidyFillsAlike DEF TidyRule, FillsAlike, rule, found
<1>5. ASSUME NEW i \in DOMAIN rule.link_types
      PROVE  /\ _fill(rule.link_types[i].href, link) = _fill(rule.link_types[i].href, other)
             /\ _fill(rule.link_types[i].title, link) = _fill(rule.link_types[i].title, other)
    <2>1. /\ rule.link_types[i].href \in Seq(Seq(Character)) /\ Tidy(rule.link_types[i].href)
          /\ rule.link_types[i].title \in Seq(Seq(Character)) /\ Tidy(rule.link_types[i].title)
        BY DEF TidyRule, rule, found
    <2> QED
        BY <2>1, TidyFillsAlike DEF FillsAlike
<1>6. Fillable(rule, link) <=> Fillable(rule, other)
    BY <1>3, <1>4, <1>5 DEF Fillable
<1>7. /\ Filled(rule.target, rule, link) = Filled(rule.target, rule, other)
      /\ \A i \in DOMAIN rule.link_types :
            FilledLink(rule.link_types[i], rule, link) = FilledLink(rule.link_types[i], rule, other)
    BY <1>3, <1>4, <1>5 DEF Filled, FilledLink
<1>8. ASSUME NEW l, FirstMatch(config, l) = found
      PROVE  resolve(config, l) =
               IF found = 0 THEN [outcome |-> "none"]
               ELSE IF matches(rule, l) # "yes" \/ ~ Fillable(rule, l) THEN [outcome |-> "raises"]
               ELSE [outcome |-> "match",
                     target  |-> Filled(rule.target, rule, l),
                     links   |-> [i \in DOMAIN rule.link_types |->
                                     FilledLink(rule.link_types[i], rule, l)]]
    BY <1>8, Zenon DEF resolve, FilledLink, rule
<1>9. [i \in DOMAIN rule.link_types |-> FilledLink(rule.link_types[i], rule, link)]
        = [i \in DOMAIN rule.link_types |-> FilledLink(rule.link_types[i], rule, other)]
    BY <1>7
<1>10. FirstMatch(config, link) = found
    BY DEF found
<1>11. resolve(config, link) =
               IF found = 0 THEN [outcome |-> "none"]
               ELSE IF matches(rule, link) # "yes" \/ ~ Fillable(rule, link) THEN [outcome |-> "raises"]
               ELSE [outcome |-> "match",
                     target  |-> Filled(rule.target, rule, link),
                     links   |-> [i \in DOMAIN rule.link_types |->
                                     FilledLink(rule.link_types[i], rule, link)]]
    BY <1>8, <1>10, Zenon
<1>12. resolve(config, other) =
               IF found = 0 THEN [outcome |-> "none"]
               ELSE IF matches(rule, other) # "yes" \/ ~ Fillable(rule, other) THEN [outcome |-> "raises"]
               ELSE [outcome |-> "match",
                     target  |-> Filled(rule.target, rule, other),
                     links   |-> [i \in DOMAIN rule.link_types |->
                                     FilledLink(rule.link_types[i], rule, other)]]
    BY <1>1, <1>8, Zenon
<1> QED
    <2>1. CASE found = 0
        BY <1>11, <1>12, <2>1, Zenon
    <2>2. CASE found # 0 /\ (matches(rule, link) # "yes" \/ ~ Fillable(rule, link))
        BY <1>2, <1>6, <1>11, <1>12, <2>2, Zenon
    <2>3. CASE found # 0 /\ matches(rule, link) = "yes" /\ Fillable(rule, link)
        <3>1. matches(rule, other) = "yes" /\ Fillable(rule, other)
            BY <1>2, <1>6, <2>3
        <3> QED
            BY <1>7, <1>9, <1>11, <1>12, <2>3, <3>1, Zenon
    <2> QED
        BY <2>1, <2>2, <2>3

(* The canonical form of a link resolves as the link does, to the same       *)
(* target and links - when the form does not end in a value that urlparse    *)
(* cuts, when braces are those of placeholders, and when quoting does not    *)
(* make the link too long (canonicalise, Router.resolve).                    *)
THEOREM CanonicalResolves == Spec => []CanonicalResolvesAlike
<1>1. InputsAreSequences => CanonicalResolvesAlike
    <2> DEFINE p == urlparse(Received(path))
               form == canonicalise(TheLink)
               q == Received(form)
               params == TheLink.query_params
               other == Link(form, params)
    <2> SUFFICES ASSUME InputsAreSequences, Routed, NoBracesIn(TheLink),
                        Range(form) \cap Oversized = {}, Cut(q[Len(q)]) = q[Len(q)],
                        Tidy(TheRule.target),
                        \A link \in Range(TheRule.link_types) : Tidy(link.href) /\ Tidy(link.title)
                 PROVE  Answer(rules, declared, form, params) = answer
        BY Zenon DEF CanonicalResolvesAlike
    <2>1. Accepted(path) /\ p \in Seq(Parsed(Text)) /\ HasKey(p)
        BY RoutedByARule, TheLinkIsParsed
    <2>2. parse(Received(path)) = ParsedPath(p)
        BY DEF parse
    <2>3. /\ TheLink.primary_ai = ParsedPath(p).primary_ai
          /\ TheLink.primary_value = ParsedPath(p).primary_value
          /\ TheLink.qualifiers = ParsedPath(p).qualifiers
          /\ TheLink.attributes = ParsedPath(p).attributes
          /\ TheLink.ctx = as_dict(ParsedPath(p))
        BY <2>2 DEF TheLink, Link, Seen
    <2>4. NeedsNoPad(ParsedPath(p))
        <3>1. ParsedPath(p).primary_ai = "01" => DigitsOf(ParsedPath(p).primary_value) \in GTIN14
            BY <2>1, <2>2 DEF Accepted, validate_gtin14
        <3>2. ParsedPath(p).primary_value \in Value
            <4>1. <<ParsedPath(p).primary_ai, ParsedPath(p).primary_value>> \in Pairs(Value)
                BY <2>1, ParseValues, ParsedValues
            <4> QED
                BY <4>1, PairParts
        <3> QED
            BY <3>1, <3>2, QuotingAssumption DEF KeyPair, NeedsNoPad
    <2>5. form = canonicalise(ParsedPath(p))
        BY <2>3, Zenon DEF canonicalise, CanonicalPairs, KeyPair
    <2> HIDE DEF p, form
    <2>6. /\ q \in Seq(Value) /\ urlparse(q) = q /\ HasKey(q)
          /\ ParsedPath(q).primary_ai = ParsedPath(p).primary_ai
          /\ ParsedPath(q).primary_value = ParsedPath(p).primary_value
          /\ ParsedPath(q).qualifiers = ParsedPath(p).qualifiers
          /\ ParsedPath(q).attributes = ParsedPath(p).attributes
        <3>1. Cut(Received(canonicalise(ParsedPath(p)))[Len(Received(canonicalise(ParsedPath(p))))])
                = Received(canonicalise(ParsedPath(p)))[Len(Received(canonicalise(ParsedPath(p))))]
            BY <2>5
        <3> QED
            BY <2>1, <2>4, <2>5, <3>1, CanonicalIsParsed
    <2>7. ReceivedQuery(form, params) = params
        BY <2>1, <2>4, <2>5, CanonicalArrives
    <2> HIDE DEF q, params
    <2>8. parse(q) = ParsedPath(q) /\ Parses(q) /\ as_dict_order(q) = OrderOf(Segments(q), PrimaryIndex(q))
        BY <2>6 DEF parse, Parses, as_dict_order
    <2>9. as_dict(ParsedPath(q)) = as_dict(ParsedPath(p))
        BY <2>6, Zenon DEF as_dict
    <2>10. other = Seen(ParsedPath(q), params, OrderOf(Segments(q), PrimaryIndex(q)))
        BY <2>7, <2>8 DEF Link, q
    <2> HIDE DEF other
    <2>11. AlikeButForOrder(TheLink, other)
        BY <2>3, <2>6, <2>9, <2>10 DEF AlikeButForOrder, Seen, params
    <2>12. WellNamed(other)
        <3>1. other.ctx = as_dict(ParsedPath(q)) /\ other.order = OrderOf(Segments(q), PrimaryIndex(q))
            BY <2>10 DEF Seen
        <3>2. Translated(Value) \subseteq Value
            BY AIsAreValues
        <3> QED
            BY <2>6, <3>1, <3>2, LinksAreWellNamed
    <2>13. BothWellNamed(TheLink, other)
        BY <2>11, <2>12, TheLinkIsWellNamed DEF BothWellNamed
    <2>14. TidyRule(TheRule)
        BY TemplatesAreTexts DEF TidyRule, Range
    <2>15. resolve(rules, other) = resolve(rules, TheLink)
        BY <2>13, <2>14, ResolvedAlike DEF TheRule
    <2>16. Accepted(form)
        <3>1. Received(form) = q
            BY DEF q
        <3> QED
            BY <2>1, <2>2, <2>6, <2>8, <3>1 DEF Accepted
    <2>17. load(rules, declared) = "loaded" /\ answer = resolve(rules, TheLink)
        BY DEF Routed, answer, Answer, TheLink
    <2> QED
        BY <2>15, <2>16, <2>17 DEF Answer, other
<1> QED
    BY <1>1, SequencesKept, PTL

===============================================================================

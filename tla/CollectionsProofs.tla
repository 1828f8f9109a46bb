--------------------------- MODULE CollectionsProofs ---------------------------
(***************************************************************************)
(* Induction over sequences, without an operator for a parameter: what the *)
(* proofs about recursive functions rest on, and what Only selects.        *)
(***************************************************************************)
EXTENDS Collections, SequencesExt, SequenceTheorems, WellFoundedInduction, TLAPS

(* What is put before a sequence makes one. *)
LEMMA Prefixed ==
    ASSUME NEW S, NEW x \in S, NEW rest \in Seq(S)
    PROVE  <<x>> \o rest \in Seq(S)
OBVIOUS

(* A sequence without a member is empty. *)
LEMMA RangelessIsEmpty ==
    ASSUME NEW S, NEW s \in Seq(S), Range(s) = {}
    PROVE  s = <<>>
<1>1. DOMAIN s = 1..Len(s) /\ Len(s) \in Nat
    OBVIOUS
<1>2. Len(s) # 0 => 1 \in DOMAIN s
    BY <1>1
<1>3. Len(s) = 0
    BY <1>2 DEF Range
<1> QED
    BY <1>3

(* The head of a sequence is its first member.                             *)
LEMMA HeadIsFirst ==
    ASSUME NEW T, NEW q \in Seq(T), q # <<>>
    PROVE  Head(q) = q[1]
OBVIOUS

(* The members of three sequences in a row are those of each.              *)
LEMMA RangeOfThree ==
    ASSUME NEW S, NEW a \in Seq(S), NEW b \in Seq(S), NEW c \in Seq(S)
    PROVE  /\ a \o b \o c \in Seq(S)
           /\ Range(a \o b \o c) = Range(a) \cup Range(b) \cup Range(c)
<1> DEFINE start == a \o b
<1>1. start \in Seq(S) /\ Range(start) = Range(a) \cup Range(b)
    BY RangeConcatenation
<1> HIDE DEF start
<1>2. Range(start \o c) = Range(start) \cup Range(c)
    BY <1>1, RangeConcatenation
<1>3. start \o c \in Seq(S)
    BY <1>1
<1> QED
    BY <1>1, <1>2, <1>3 DEF start

(* What stands behind the first sequence of two is the second. *)
LEMMA Behind ==
    ASSUME NEW S, NEW a \in Seq(S), NEW b \in Seq(S)
    PROVE  SubSeq(a \o b, Len(a) + 1, Len(a \o b)) = b
<1> DEFINE m == Len(a)
           n == Len(b)
           both == a \o b
           back == SubSeq(both, m + 1, m + n)
<1>1. /\ m \in Nat /\ n \in Nat /\ both \in Seq(S) /\ Len(both) = m + n
      /\ \A i \in 1..n : both[m + i] = b[i]
    OBVIOUS
<1>2. Len(back) = n /\ back = [i \in 1..n |-> both[(m + 1) + i - 1]]
    <2> HIDE DEF m, n, both
    <2>1. back = [i \in 1..(((m + n) - (m + 1)) + 1) |-> both[i + (m + 1) - 1]]
        BY <1>1, SubSeqProperties
    <2> QED
        BY <1>1, <2>1
<1> QED
    BY <1>1, <1>2

(* A set of numbers that is not empty has a least member. *)
LEMMA LeastExists ==
    ASSUME NEW S \in SUBSET Nat, S # {}
    PROVE  Min(S) \in S /\ \A n \in S : Min(S) <= n
<1>1. PICK x \in S : \A y \in S : <<y, x>> \notin OpToRel(<, Nat)
    BY NatLessThanWellFounded, WFMin, Zenon
<1>2. \A y \in S : ~ (y < x)
    BY <1>1, Zenon DEF OpToRel
<1>3. \A y \in S : x <= y
    BY <1>2
<1> QED
    BY <1>3 DEF Min

(* A set of positions that is not empty has a greatest member. *)
LEMMA GreatestExists ==
    ASSUME NEW n \in Nat, NEW S \in SUBSET (1..n), S # {}
    PROVE  Max(S) \in S /\ \A i \in S : i <= Max(S)
<1> DEFINE R == {n - i : i \in S}
<1>1. R \in SUBSET Nat /\ R # {}
    <2>1. \A i \in S : n - i \in Nat
        OBVIOUS
    <2> QED
        BY <2>1
<1>2. PICK least \in R : \A r \in R : least <= r
    BY <1>1, LeastExists
<1>3. PICK x \in S : least = n - x
    BY <1>2
<1>4. ASSUME NEW y \in S
      PROVE  x >= y
    <2>1. n - y \in R /\ x \in 1..n /\ y \in 1..n
        OBVIOUS
    <2>2. n - x <= n - y
        BY <1>2, <1>3, <2>1
    <2> QED
        BY <2>1, <2>2
<1> QED
    BY <1>4 DEF Max

(* Induction on the natural numbers, for a set of them. *)
LEMMA Induction ==
    ASSUME NEW Good, 0 \in Good, \A n \in Nat : n \in Good => n + 1 \in Good
    PROVE  Nat \subseteq Good
<1> DEFINE Bad == {n \in Nat : n \notin Good}
<1> SUFFICES ASSUME Bad # {}
             PROVE  FALSE
    OBVIOUS
<1>1. Min(Bad) \in Bad /\ \A n \in Bad : Min(Bad) <= n
    BY LeastExists
<1>2. PICK least \in Bad : \A n \in Bad : least <= n
    BY <1>1
<1>3. least \in Nat /\ least # 0 /\ least \notin Good
    BY <1>2
<1>4. least - 1 \in Nat /\ least - 1 + 1 = least
    BY <1>3
<1>5. least - 1 \in Good
    BY <1>2, <1>4
<1> QED
    BY <1>3, <1>4, <1>5

(* Induction over the steps 1..n.                                           *)
LEMMA StepByStep ==
    ASSUME NEW n \in Nat, NEW Good, 0 \in Good, \A i \in 1..n : i - 1 \in Good => i \in Good
    PROVE  n \in Good
<1> DEFINE Done == {i \in Nat : i <= n => i \in Good}
<1>1. 0 \in Done
    OBVIOUS
<1>2. \A i \in Nat : i \in Done => i + 1 \in Done
    <2> SUFFICES ASSUME NEW i \in Nat, i \in Done, i + 1 <= n
                 PROVE  i + 1 \in Good
        OBVIOUS
    <2>1. i \in Good /\ i + 1 \in 1..n /\ (i + 1) - 1 = i
        OBVIOUS
    <2> QED
        BY <2>1
<1> HIDE DEF Done
<1>3. Nat \subseteq Done
    BY <1>1, <1>2, Induction
<1> QED
    BY <1>3 DEF Done

(* Induction from the end of a sequence to its beginning. *)
LEMMA BackwardInduction ==
    ASSUME NEW m \in Nat, NEW Good,
           \A i \in 1..m : (\A j \in 1..m : j > i => j \in Good) => i \in Good
    PROVE  1..m \subseteq Good
<1> DEFINE All == {k \in Nat : \A j \in 1..m : m - j < k => j \in Good}
<1>1. 0 \in All
    OBVIOUS
<1>2. ASSUME NEW k \in Nat, k \in All
      PROVE  k + 1 \in All
    <2>1. \A j \in 1..m : m - j < k => j \in Good
        BY <1>2
    <2>2. ASSUME NEW i \in 1..m, m - i < k + 1
          PROVE  i \in Good
        <3>1. \A j \in 1..m : j > i => m - j < k
            BY <2>2
        <3> QED
            BY <3>1, <2>1
    <2> QED
        BY <2>2
<1> HIDE DEF All
<1>3. Nat \subseteq All
    BY <1>1, <1>2, Induction
<1>4. m + 1 \in All
    BY <1>3
<1> QED
    BY <1>4 DEF All

(* A function on 1..m that is computed from its end on: at each position up *)
(* to n it puts a sequence in front of what it is at a later position.      *)
IsComputed(g, m, n, head, next) ==
    \A i \in 1..m : g[i] = IF i > n THEN <<>> ELSE head[i] \o g[next[i]]

(* Such a function exists. *)
LEMMA BackwardRecursion ==
    ASSUME NEW T, NEW m \in Nat, NEW n \in Nat, n < m,
           NEW head \in [1..n -> Seq(T)], NEW next \in [1..n -> 1..m],
           \A i \in 1..n : next[i] > i
    PROVE  \E g \in [1..m -> Seq(T)] : IsComputed(g, m, n, head, next)
<1> DEFINE Value(g, i) == IF i > n THEN <<>> ELSE head[i] \o g[next[i]]
           Computed(g, k) == \A i \in 1..m : m - i < k => g[i] = Value(g, i)
           Done == {k \in Nat : \E g \in [1..m -> Seq(T)] : Computed(g, k)}
<1>1. ASSUME NEW g \in [1..m -> Seq(T)], NEW i \in 1..m
      PROVE  Value(g, i) \in Seq(T)
    <2>1. i <= n => head[i] \in Seq(T) /\ g[next[i]] \in Seq(T)
        OBVIOUS
    <2> QED
        BY <2>1
<1>2. ASSUME NEW g, NEW h, NEW i \in 1..m, \A j \in 1..m : j > i => h[j] = g[j]
      PROVE  Value(h, i) = Value(g, i)
    <2>1. i <= n => next[i] \in 1..m /\ next[i] > i
        OBVIOUS
    <2>2. i <= n => h[next[i]] = g[next[i]]
        BY <2>1, <1>2
    <2> QED
        BY <2>2
<1> HIDE DEF Value
<1>3. 0 \in Done
    <2>1. [i \in 1..m |-> <<>>] \in [1..m -> Seq(T)]
        OBVIOUS
    <2>2. Computed([i \in 1..m |-> <<>>], 0)
        OBVIOUS
    <2> QED
        BY <2>1, <2>2
<1>4. ASSUME NEW k \in Nat, k \in Done
      PROVE  k + 1 \in Done
    <2> SUFFICES \E h \in [1..m -> Seq(T)] : Computed(h, k + 1)
        <3>1. k + 1 \in Nat
            OBVIOUS
        <3> QED
            BY <3>1, Zenon
    <2>1. PICK g \in [1..m -> Seq(T)] : Computed(g, k)
        BY <1>4
    <2>2. CASE k >= m
        <3>1. Computed(g, k + 1)
            BY <2>1, <2>2
        <3> QED
            BY <3>1, <2>1, Zenon
    <2>3. CASE k < m
        <3> DEFINE at == m - k
                   h == [g EXCEPT ![at] = Value(g, at)]
        <3>1. at \in 1..m /\ m - at = k
            BY <2>3
        <3>2. Value(g, at) \in Seq(T)
            BY <1>1, <2>1, <3>1
        <3>3. h \in [1..m -> Seq(T)]
            BY <2>1, <3>1, <3>2
        <3>4. h[at] = Value(g, at) /\ \A i \in 1..m : i # at => h[i] = g[i]
            BY <2>1, <3>1
        <3> HIDE DEF h
        <3>5. ASSUME NEW i \in 1..m, m - i < k + 1
              PROVE  h[i] = Value(h, i)
            <4>1. i >= at /\ (i # at => m - i < k)
                BY <3>5, <3>1
            <4>2. \A j \in 1..m : j > i => h[j] = g[j]
                BY <4>1, <3>1, <3>4
            <4>3. Value(h, i) = Value(g, i)
                BY <4>2, <1>2
            <4>4. CASE i = at
                BY <4>3, <4>4, <3>4
            <4>5. CASE i # at
                BY <4>1, <4>3, <4>5, <3>4, <2>1
            <4> QED
                BY <4>4, <4>5
        <3>6. Computed(h, k + 1)
            BY <3>5
        <3> QED
            BY <3>3, <3>6, Zenon
    <2>4. k >= m \/ k < m
        OBVIOUS
    <2> QED
        BY <2>2, <2>3, <2>4, Zenon
<1> HIDE DEF Done
<1>5. Nat \subseteq Done
    BY <1>3, <1>4, Induction
<1>6. m \in Done
    BY <1>5
<1>7. PICK g \in [1..m -> Seq(T)] : Computed(g, m)
    BY <1>6 DEF Done
<1>8. \A i \in 1..m : g[i] = Value(g, i)
    BY <1>7
<1> QED
    BY <1>8, Zenon DEF Value, IsComputed

(* Picked(s, I) is the value at 1 of a function that is computed from the   *)
(* end of s on.                                                             *)
Picks(f, s, I) ==
    /\ f[Len(s) + 1] = <<>>
    /\ \A i \in 1..Len(s) :
          f[i] = IF i \in I THEN <<s[i]>> \o f[i + 1] ELSE f[i + 1]

(* Picked is the value at 1 of such a function. *)
LEMMA PickedIsComputed ==
    ASSUME NEW T, NEW s \in Seq(T), NEW I
    PROVE  \E f \in [1..(Len(s) + 1) -> Seq(T)] : Picked(s, I) = f[1] /\ Picks(f, s, I)
<1> DEFINE n == Len(s)
           head == [i \in 1..n |-> IF i \in I THEN <<s[i]>> ELSE <<>>]
           next == [i \in 1..n |-> i + 1]
           Body(g) == [i \in 1..(n + 1) |->
                          IF i > n THEN <<>>
                          ELSE IF i \in I THEN <<s[i]>> \o g[i + 1]
                          ELSE g[i + 1]]
<1>1. /\ n \in Nat /\ n + 1 \in Nat /\ n < n + 1
      /\ head \in [1..n -> Seq(T)]
      /\ next \in [1..n -> 1..(n + 1)] /\ \A i \in 1..n : next[i] > i
    OBVIOUS
<1>2. \A i \in 1..n : head[i] = IF i \in I THEN <<s[i]>> ELSE <<>>
    OBVIOUS
<1>3. \A i \in 1..n : next[i] = i + 1
    OBVIOUS
<1> HIDE DEF head, next, n
<1>4. PICK g \in [1..(n + 1) -> Seq(T)] : IsComputed(g, n + 1, n, head, next)
    BY <1>1, BackwardRecursion
<1>5. ASSUME NEW i \in 1..n
      PROVE  g[i] = IF i \in I THEN <<s[i]>> \o g[i + 1] ELSE g[i + 1]
    <2>1. i \in 1..(n + 1) /\ i + 1 \in 1..(n + 1) /\ ~ (i > n)
        BY <1>1
    <2>2. g[i] = head[i] \o g[i + 1]
        BY <2>1, <1>3, <1>4 DEF IsComputed
    <2>3. g[i + 1] \in Seq(T)
        BY <2>1
    <2>4. <<>> \o g[i + 1] = g[i + 1]
        BY <2>3
    <2> QED
        BY <2>2, <2>4, <1>2
<1>6. \A i \in 1..(n + 1) : i > n => g[i] = <<>>
    BY <1>4 DEF IsComputed
<1>7. g = Body(g)
    <2>1. ASSUME NEW i \in 1..(n + 1)
          PROVE  g[i] = IF i > n THEN <<>>
                        ELSE IF i \in I THEN <<s[i]>> \o g[i + 1]
                        ELSE g[i + 1]
        <3>1. i > n \/ i \in 1..n
            BY <1>1
        <3> QED
            BY <3>1, <1>5, <1>6
    <2> QED
        BY <2>1, Zenon
<1> DEFINE from == CHOOSE f : f = Body(f)
<1>8. from = Body(from)
    BY <1>7, Zenon
<1>9. Picked(s, I) = from[1]
    BY Zenon DEF Picked, n
<1> HIDE DEF from
<1>10. from = g
    <2> DEFINE Same == {i \in 1..(n + 1) : from[i] = g[i]}
    <2>1. ASSUME NEW i \in 1..(n + 1), \A j \in 1..(n + 1) : j > i => j \in Same
          PROVE  i \in Same
        <3> HIDE DEF Same
        <3>1. i > n \/ (i \in 1..n /\ i + 1 \in 1..(n + 1) /\ i + 1 > i)
            BY <1>1
        <3>2. from[i] = Body(from)[i] /\ g[i] = Body(g)[i]
            BY <1>7, <1>8, Zenon
        <3>3. i \in 1..n => i + 1 \in Same
            BY <1>1, <2>1, <3>1
        <3>4. i \in 1..n => from[i + 1] = g[i + 1]
            BY <3>3 DEF Same
        <3> QED
            BY <3>1, <3>2, <3>4 DEF Same
    <2> HIDE DEF Same
    <2>2. 1..(n + 1) \subseteq Same
        BY <1>1, <2>1, BackwardInduction
    <2>3. \A i \in 1..(n + 1) : from[i] = g[i]
        BY <2>2 DEF Same
    <2>4. from = [i \in 1..(n + 1) |-> from[i]]
        BY <1>8, Zenon
    <2> QED
        BY <2>3, <2>4
<1> QED
    <2>1. n + 1 \in 1..(n + 1) /\ n + 1 > n
        BY <1>1
    <2> QED
        BY <2>1, <1>5, <1>6, <1>9, <1>10 DEF n, Picks

(* What is picked, and that nothing else is left. *)
LEMMA PickedRange ==
    ASSUME NEW T, NEW s \in Seq(T), NEW I
    PROVE  /\ Picked(s, I) \in Seq(T)
           /\ Range(Picked(s, I)) = {s[i] : i \in I \cap 1..Len(s)}
<1>1. PICK from \in [1..(Len(s) + 1) -> Seq(T)] : Picked(s, I) = from[1] /\ Picks(from, s, I)
    BY PickedIsComputed
<1> DEFINE n == Len(s)
           Left(i) == {s[j] : j \in I \cap (i..n)}
           Good == {i \in 1..(n + 1) : Range(from[i]) = Left(i)}
<1>2. n \in Nat /\ n + 1 \in Nat /\ 1 \in 1..(n + 1)
    OBVIOUS
<1>3. ASSUME NEW i \in 1..(n + 1), \A j \in 1..(n + 1) : j > i => j \in Good
      PROVE  i \in Good
    <2> HIDE DEF Good
    <2>1. CASE i = n + 1
        <3>1. I \cap (i..n) = {}
            BY <1>2, <2>1
        <3>2. from[i] = <<>> /\ Left(i) = {}
            BY <1>1, <2>1, <3>1 DEF Picks
        <3>3. Range(from[i]) = {}
            BY <3>2 DEF Range
        <3> QED
            BY <3>2, <3>3 DEF Good
    <2>2. CASE i \in 1..n
        <3>1. i + 1 \in Good
            <4>1. i + 1 \in 1..(n + 1) /\ i + 1 > i
                BY <1>2, <2>2
            <4> QED
                BY <1>3, <4>1
        <3>2. Range(from[i + 1]) = Left(i + 1) /\ from[i + 1] \in Seq(T)
            BY <3>1 DEF Good
        <3>3. Left(i) = IF i \in I THEN {s[i]} \cup Left(i + 1) ELSE Left(i + 1)
            BY <2>2
        <3>4. Range(<<s[i]>> \o from[i + 1]) = {s[i]} \cup Range(from[i + 1])
            <4> DEFINE first == <<s[i]>>
            <4>1. first \in Seq(T) /\ Range(first) = {s[i]}
                BY <2>2 DEF Range
            <4> HIDE DEF first
            <4>2. Range(first \o from[i + 1]) = Range(first) \cup Range(from[i + 1])
                BY <4>1, <3>2, RangeConcatenation
            <4> QED
                BY <4>1, <4>2 DEF first
        <3>5. CASE i \in I
            BY <1>1, <2>2, <3>2, <3>3, <3>4, <3>5 DEF Good, Picks
        <3>6. CASE i \notin I
            BY <1>1, <2>2, <3>2, <3>3, <3>6 DEF Good, Picks
        <3> QED
            BY <3>5, <3>6
    <2> QED
        BY <1>2, <2>1, <2>2
<1> HIDE DEF Good
<1>4. 1..(n + 1) \subseteq Good
    BY <1>2, <1>3, BackwardInduction
<1>5. Range(from[1]) = Left(1)
    BY <1>2, <1>4 DEF Good
<1>6. Left(1) = {s[i] : i \in I \cap 1..Len(s)}
    BY DEF Range
<1> QED
    BY <1>1, <1>2, <1>5, <1>6

(* Only picks the members that are in a set. *)
Selects(f, s, S) ==
    /\ f[Len(s) + 1] = <<>>
    /\ \A i \in 1..Len(s) :
          f[i] = IF s[i] \in S THEN <<s[i]>> \o f[i + 1] ELSE f[i + 1]

(* Only is the value at 1 of such a function. *)
LEMMA OnlyIsComputed ==
    ASSUME NEW T, NEW s \in Seq(T), NEW S
    PROVE  \E f \in [1..(Len(s) + 1) -> Seq(T)] : Only(s, S) = f[1] /\ Selects(f, s, S)
<1> DEFINE I == {i \in DOMAIN s : s[i] \in S}
<1>1. PICK f \in [1..(Len(s) + 1) -> Seq(T)] : Picked(s, I) = f[1] /\ Picks(f, s, I)
    BY PickedIsComputed
<1>2. \A i \in 1..Len(s) : i \in I <=> s[i] \in S
    OBVIOUS
<1> QED
    BY <1>1, <1>2 DEF Only, Picks, Selects

(* What Only selects, and that nothing else is left. *)
LEMMA OnlyRange ==
    ASSUME NEW T, NEW s \in Seq(T), NEW S
    PROVE  /\ Only(s, S) \in Seq(T)
           /\ Range(Only(s, S)) = Range(s) \cap S
<1> DEFINE I == {i \in DOMAIN s : s[i] \in S}
<1>1. Picked(s, I) \in Seq(T) /\ Range(Picked(s, I)) = {s[i] : i \in I \cap 1..Len(s)}
    BY PickedRange
<1>2. {s[i] : i \in I \cap 1..Len(s)} = Range(s) \cap S
    BY DEF Range
<1> QED
    BY <1>1, <1>2 DEF Only

(* The keys of a dict are what has been put in. *)
LEMMA FirstsRange ==
    ASSUME NEW T, NEW s \in Seq(T)
    PROVE  Firsts(s) \in Seq(T) /\ Range(Firsts(s)) = Range(s)
<1> DEFINE I == {i \in DOMAIN s : \A j \in 1..(i - 1) : s[j] # s[i]}
<1>1. Picked(s, I) \in Seq(T) /\ Range(Picked(s, I)) = {s[i] : i \in I \cap 1..Len(s)}
    BY PickedRange
<1>2. ASSUME NEW i \in 1..Len(s)
      PROVE  \E k \in I \cap 1..Len(s) : s[k] = s[i]
    <2> DEFINE same == {k \in 1..Len(s) : s[k] = s[i]}
    <2>1. same \in SUBSET Nat /\ same # {}
        OBVIOUS
    <2>2. PICK least \in same : \A k \in same : least <= k
        BY <2>1, LeastExists
    <2>3. least \in I
        BY <2>2
    <2> QED
        BY <2>2, <2>3
<1> HIDE DEF I
<1>3. Range(s) = {s[i] : i \in 1..Len(s)}
    BY DEF Range
<1>4. ASSUME NEW x \in Range(s)
      PROVE  \E k \in I \cap 1..Len(s) : x = s[k]
    <2>1. PICK i \in 1..Len(s) : x = s[i]
        BY <1>3
    <2>2. PICK k \in I \cap 1..Len(s) : s[k] = s[i]
        BY <1>2
    <2> QED
        BY <2>1, <2>2
<1>5. {s[i] : i \in I \cap 1..Len(s)} = Range(s)
    BY <1>3, <1>4, Zenon
<1> QED
    BY <1>1, <1>5 DEF Firsts, I

(* All that matters about S is which members of s are in it. *)
LEMMA OnlyAgrees ==
    ASSUME NEW T, NEW s \in Seq(T), NEW S, NEW U,
           \A x \in Range(s) : x \in S <=> x \in U
    PROVE  Only(s, S) = Only(s, U)
<1>1. ASSUME NEW i \in 1..Len(s)
      PROVE  s[i] \in S <=> s[i] \in U
    BY DEF Range
<1>2. PICK f \in [1..(Len(s) + 1) -> Seq(T)] : Only(s, S) = f[1] /\ Selects(f, s, S)
    BY OnlyIsComputed
<1>3. PICK g \in [1..(Len(s) + 1) -> Seq(T)] : Only(s, U) = g[1] /\ Selects(g, s, U)
    BY OnlyIsComputed
<1> DEFINE Good == {i \in 1..(Len(s) + 1) : f[i] = g[i]}
<1>4. Len(s) \in Nat /\ Len(s) + 1 \in Nat /\ 1 \in 1..(Len(s) + 1)
    OBVIOUS
<1>5. ASSUME NEW i \in 1..(Len(s) + 1), \A j \in 1..(Len(s) + 1) : j > i => j \in Good
      PROVE  i \in Good
    <2> HIDE DEF Good
    <2>1. CASE i = Len(s) + 1
        BY <1>2, <1>3, <1>4, <2>1 DEF Good, Selects
    <2>2. CASE i \in 1..Len(s)
        <3>1. i + 1 \in 1..(Len(s) + 1) /\ i + 1 > i
            BY <1>4, <2>2
        <3>2. f[i + 1] = g[i + 1]
            BY <1>5, <3>1 DEF Good
        <3>3. f[i] = IF s[i] \in S THEN <<s[i]>> \o f[i + 1] ELSE f[i + 1]
            BY <1>2, <2>2 DEF Selects
        <3>4. g[i] = IF s[i] \in U THEN <<s[i]>> \o g[i + 1] ELSE g[i + 1]
            BY <1>3, <2>2 DEF Selects
        <3>5. f[i] = g[i]
            BY <1>1, <2>2, <3>2, <3>3, <3>4
        <3> QED
            BY <3>5 DEF Good
    <2> QED
        BY <1>4, <2>1, <2>2
<1> HIDE DEF Good
<1>6. 1 \in Good
    BY <1>4, <1>5, BackwardInduction
<1> QED
    BY <1>2, <1>3, <1>6 DEF Good

(* What is all selected is left as it is. *)
LEMMA OnlyAll ==
    ASSUME NEW T, NEW s \in Seq(T), NEW S, Range(s) \subseteq S
    PROVE  Only(s, S) = s
<1>1. ASSUME NEW i \in 1..Len(s)
      PROVE  s[i] \in S
    BY DEF Range
<1>2. PICK f \in [1..(Len(s) + 1) -> Seq(T)] : Only(s, S) = f[1] /\ Selects(f, s, S)
    BY OnlyIsComputed
<1> DEFINE n == Len(s)
           Good == {i \in 1..(n + 1) : /\ Len(f[i]) = n + 1 - i
                                      /\ \A j \in 1..(n + 1 - i) : f[i][j] = s[i - 1 + j]}
<1>3. n \in Nat /\ n + 1 \in Nat /\ 1 \in 1..(n + 1)
    OBVIOUS
<1>4. ASSUME NEW i \in 1..(n + 1), \A j \in 1..(n + 1) : j > i => j \in Good
      PROVE  i \in Good
    <2> HIDE DEF Good
    <2>1. CASE i = n + 1
        BY <1>2, <1>3, <2>1 DEF Good, Selects
    <2>2. CASE i \in 1..n
        <3>1. i + 1 \in 1..(n + 1) /\ i + 1 > i
            BY <1>3, <2>2
        <3>2. /\ f[i + 1] \in Seq(T) /\ Len(f[i + 1]) = n - i
              /\ \A j \in 1..(n - i) : f[i + 1][j] = s[i + j]
            <4>1. i + 1 \in Good
                BY <1>4, <3>1
            <4>2. n + 1 - (i + 1) = n - i /\ \A j \in 1..(n - i) : (i + 1) - 1 + j = i + j
                BY <1>3, <2>2
            <4> QED
                BY <1>2, <3>1, <4>1, <4>2 DEF Good
        <3>3. f[i] = <<s[i]>> \o f[i + 1]
            BY <1>1, <1>2, <2>2 DEF Selects
        <3>4. Len(f[i]) = n + 1 - i
            <4>1. s[i] \in T
                BY <2>2
            <4>2. Len(<<s[i]>> \o f[i + 1]) = 1 + Len(f[i + 1])
                BY <3>2, <4>1
            <4> QED
                BY <1>3, <2>2, <3>2, <3>3, <4>2
        <3>5. ASSUME NEW j \in 1..(n + 1 - i)
              PROVE  f[i][j] = s[i - 1 + j]
            <4>1. CASE j = 1
                BY <2>2, <3>2, <3>3, <4>1
            <4>2. CASE j # 1
                <5>1. j - 1 \in 1..(n - i) /\ i + (j - 1) = i - 1 + j
                    BY <2>2, <4>2
                <5>2. f[i][j] = f[i + 1][j - 1]
                    BY <2>2, <3>2, <3>3, <5>1
                <5> QED
                    BY <3>2, <5>1, <5>2
            <4> QED
                BY <4>1, <4>2
        <3> QED
            BY <3>4, <3>5 DEF Good
    <2> QED
        BY <1>3, <2>1, <2>2
<1> HIDE DEF Good
<1>5. 1 \in Good
    BY <1>3, <1>4, BackwardInduction
<1>6. /\ Only(s, S) \in Seq(T) /\ Len(Only(s, S)) = n
      /\ \A j \in 1..n : Only(s, S)[j] = s[j]
    BY <1>2, <1>3, <1>5 DEF Good
<1> QED
    BY <1>6, SeqEqual

(* Selecting from a sequence that grows. *)
LEMMA OnlyAppend ==
    ASSUME NEW T, NEW s \in Seq(T), NEW x \in T, NEW S
    PROVE  Only(Append(s, x), S) = IF x \in S THEN Append(Only(s, S), x) ELSE Only(s, S)
<1> DEFINE n == Len(s)
           longer == Append(s, x)
           last == IF x \in S THEN <<x>> ELSE <<>>
<1>1. /\ n \in Nat /\ n + 1 \in Nat /\ 1 \in 1..(n + 1)
      /\ longer \in Seq(T) /\ Len(longer) = n + 1
      /\ longer[n + 1] = x /\ \A i \in 1..n : longer[i] = s[i]
      /\ last \in Seq(T)
    OBVIOUS
<1> HIDE DEF longer, last
<1>2. PICK f \in [1..(Len(s) + 1) -> Seq(T)] : Only(s, S) = f[1] /\ Selects(f, s, S)
    BY OnlyIsComputed
<1>3. PICK g \in [1..(Len(longer) + 1) -> Seq(T)] : Only(longer, S) = g[1] /\ Selects(g, longer, S)
    BY <1>1, OnlyIsComputed
<1> DEFINE Good == {i \in 1..(n + 1) : g[i] = f[i] \o last}
<1>4. ASSUME NEW i \in 1..(n + 1), \A j \in 1..(n + 1) : j > i => j \in Good
      PROVE  i \in Good
    <2> HIDE DEF Good
    <2>1. CASE i = n + 1
        <3>1. g[n + 2] = <<>> /\ f[n + 1] = <<>>
            BY <1>1, <1>2, <1>3 DEF Selects
        <3>2. g[n + 1] = IF x \in S THEN <<x>> \o g[n + 2] ELSE g[n + 2]
            BY <1>1, <1>3 DEF Selects
        <3>3. g[n + 1] = last
            BY <3>1, <3>2 DEF last
        <3>4. f[n + 1] \o last = last
            BY <1>1, <3>1
        <3> QED
            BY <2>1, <3>3, <3>4 DEF Good
    <2>2. CASE i \in 1..n
        <3>1. i + 1 \in 1..(n + 1) /\ i + 1 > i
            BY <1>1, <2>2
        <3>2. g[i + 1] = f[i + 1] \o last /\ f[i + 1] \in Seq(T)
            BY <1>2, <1>4, <3>1 DEF Good
        <3>3. g[i] = IF s[i] \in S THEN <<s[i]>> \o g[i + 1] ELSE g[i + 1]
            BY <1>1, <1>3, <2>2 DEF Selects
        <3>4. f[i] = IF s[i] \in S THEN <<s[i]>> \o f[i + 1] ELSE f[i + 1]
            BY <1>2, <2>2 DEF Selects
        <3>5. <<s[i]>> \o (f[i + 1] \o last) = (<<s[i]>> \o f[i + 1]) \o last
            <4> DEFINE first == <<s[i]>>
                       rest == f[i + 1]
            <4>1. first \in Seq(T) /\ rest \in Seq(T) /\ last \in Seq(T)
                BY <1>1, <2>2, <3>2
            <4> HIDE DEF first, rest
            <4>2. (first \o rest) \o last = first \o (rest \o last)
                BY <4>1, ConcatAssociative
            <4> QED
                BY <4>2 DEF first, rest
        <3>6. g[i] = f[i] \o last
            BY <3>2, <3>3, <3>4, <3>5, Zenon
        <3> QED
            BY <3>6 DEF Good
    <2> QED
        BY <1>1, <2>1, <2>2
<1> HIDE DEF Good
<1>5. 1 \in Good
    BY <1>1, <1>4, BackwardInduction
<1>6. Only(longer, S) = Only(s, S) \o last /\ Only(s, S) \in Seq(T)
    BY <1>1, <1>2, <1>3, <1>5 DEF Good
<1>7. CASE x \in S
    BY <1>6, <1>7, AppendIsConcat DEF last, longer
<1>8. CASE x \notin S
    BY <1>6, <1>8 DEF last, longer
<1> QED
    BY <1>7, <1>8

(* Selecting from two sequences, one behind the other. *)
LEMMA OnlyConcatenation ==
    ASSUME NEW T, NEW a \in Seq(T), NEW b \in Seq(T), NEW S
    PROVE  Only(a \o b, S) = Only(a, S) \o Only(b, S)
<1> DEFINE start(k) == SubSeq(b, 1, k)
           Good == {k \in Nat : k <= Len(b) =>
                                   Only(a \o start(k), S) = Only(a, S) \o Only(start(k), S)}
<1>1. /\ Len(b) \in Nat /\ start(0) = <<>> /\ start(Len(b)) = b /\ a \o <<>> = a
      /\ Only(a, S) \in Seq(T)
    BY OnlyRange
<1>2. 0 \in Good
    <2>1. Only(<<>>, S) = <<>>
        <3>1. <<>> \in Seq(T) /\ Range(<<>>) \subseteq S
            BY DEF Range
        <3> QED
            BY <3>1, OnlyAll
    <2>2. Only(a, S) \o <<>> = Only(a, S)
        BY <1>1
    <2> QED
        BY <1>1, <2>1, <2>2
<1>3. ASSUME NEW k \in Nat, k \in Good
      PROVE  k + 1 \in Good
    <2> SUFFICES ASSUME k + 1 <= Len(b)
                 PROVE  Only(a \o start(k + 1), S) = Only(a, S) \o Only(start(k + 1), S)
        OBVIOUS
    <2> DEFINE x == b[k + 1]
               old == start(k)
               new == start(k + 1)
               all == a \o old
    <2>1. x \in T /\ old \in Seq(T) /\ new \in Seq(T) /\ k <= Len(b)
        <3>1. k + 1 \in 1..Len(b)
            BY <1>1
        <3> QED
            BY <3>1, <1>1
    <2>2. new = Append(old, x)
        BY <1>1, <2>1
    <2>3. Only(a \o old, S) = Only(a, S) \o Only(old, S)
        BY <1>3, <2>1
    <2> HIDE DEF start, Good, old, new, x
    <2>4. all \in Seq(T) /\ a \o new = Append(all, x)
        BY <2>1, <2>2
    <2> HIDE DEF all
    <2>5. /\ Only(Append(all, x), S) = IF x \in S THEN Append(Only(all, S), x) ELSE Only(all, S)
          /\ Only(Append(old, x), S) = IF x \in S THEN Append(Only(old, S), x) ELSE Only(old, S)
        BY <2>1, <2>4, OnlyAppend
    <2>6. Only(old, S) \in Seq(T)
        BY <2>1, OnlyRange
    <2> DEFINE left == Only(a, S)
               right == Only(old, S)
    <2>7. left \in Seq(T) /\ right \in Seq(T)
        BY <1>1, <2>6
    <2> HIDE DEF left, right
    <2>8. Append(left \o right, x) = left \o Append(right, x)
        <3> DEFINE last == <<x>>
        <3>1. last \in Seq(T) /\ left \o right \in Seq(T)
            BY <2>1, <2>7
        <3>2. Append(right, x) = right \o last /\ Append(left \o right, x) = (left \o right) \o last
            BY <2>1, <2>7, <3>1, AppendIsConcat
        <3> HIDE DEF last
        <3>3. (left \o right) \o last = left \o (right \o last)
            <4>1. \A p, q, r \in Seq(T) : (p \o q) \o r = p \o (q \o r)
                BY ConcatAssociative
            <4> QED
                BY <2>7, <3>1, <4>1, Zenon
        <3> QED
            BY <3>2, <3>3
    <2>9. Only(a \o new, S) = Only(a, S) \o Only(new, S)
        BY <2>2, <2>3, <2>4, <2>5, <2>8 DEF left, right, all
    <2> QED
        BY <2>9 DEF new
<1> HIDE DEF Good
<1>4. Len(b) \in Good
    BY <1>1, <1>2, <1>3, Induction
<1>5. Only(a \o start(Len(b)), S) = Only(a, S) \o Only(start(Len(b)), S)
    BY <1>1, <1>4 DEF Good
<1> QED
    BY <1>1, <1>5

-------------------------------------------------------------------------------

(* A function on 0..n that is computed from 0 on, one step for each number.  *)
Iterates(f, n, start, step) ==
    /\ f[0] = start
    /\ \A i \in 1..n : f[i] = step[i][f[i - 1]]

(* Such a function exists. *)
LEMMA ForwardRecursion ==
    ASSUME NEW V, NEW n \in Nat, NEW start \in V, NEW step \in [1..n -> [V -> V]]
    PROVE  \E f \in [0..n -> V] : Iterates(f, n, start, step)
<1> DEFINE Upto(f, k) == /\ f[0] = start
                         /\ \A i \in 1..n : i <= k => f[i] = step[i][f[i - 1]]
           Done == {k \in Nat : \E f \in [0..n -> V] : Upto(f, k)}
<1>1. 0 \in Done
    <2>1. [i \in 0..n |-> start] \in [0..n -> V]
        OBVIOUS
    <2>2. Upto([i \in 0..n |-> start], 0)
        OBVIOUS
    <2> QED
        BY <2>1, <2>2, Zenon
<1>2. ASSUME NEW k \in Nat, k \in Done
      PROVE  k + 1 \in Done
    <2>1. PICK f \in [0..n -> V] : Upto(f, k)
        BY <1>2
    <2>2. CASE k >= n
        <3>1. Upto(f, k + 1)
            BY <2>1, <2>2
        <3> QED
            BY <3>1, <2>1
    <2>3. CASE k < n
        <3> DEFINE value == step[k + 1][f[k]]
                   g == [f EXCEPT ![k + 1] = value]
        <3>1. k + 1 \in 1..n /\ k \in 0..n
            BY <2>3
        <3>2. value \in V
            BY <2>1, <3>1
        <3>3. /\ g \in [0..n -> V] /\ g[k + 1] = value
              /\ \A i \in 0..n : i # k + 1 => g[i] = f[i]
            BY <2>1, <3>1, <3>2
        <3> HIDE DEF g
        <3>4. ASSUME NEW i \in 1..n, i <= k + 1
              PROVE  g[i] = step[i][g[i - 1]]
            <4>1. i - 1 \in 0..n /\ i - 1 # k + 1
                BY <3>4
            <4>2. CASE i = k + 1
                BY <3>3, <4>1, <4>2
            <4>3. CASE i <= k
                BY <2>1, <3>3, <4>1, <4>3
            <4> QED
                BY <3>4, <4>2, <4>3
        <3>5. g[0] = start
            BY <2>1, <3>3
        <3>6. Upto(g, k + 1)
            BY <3>4, <3>5
        <3> QED
            BY <3>3, <3>6
    <2> QED
        BY <2>2, <2>3
<1> HIDE DEF Done
<1>3. n \in Done
    BY <1>1, <1>2, Induction
<1>4. PICK f \in [0..n -> V] : Upto(f, n)
    BY <1>3 DEF Done
<1>5. Iterates(f, n, start, step)
    BY <1>4 DEF Iterates
<1> QED
    BY <1>5

(* FlattenSeq(seqs) is the value at the end of a function that is computed   *)
(* from the beginning of seqs on.                                            *)
Joins(f, seqs) ==
    /\ f[0] = <<>>
    /\ \A i \in 1..Len(seqs) : f[i] = f[i - 1] \o seqs[i]

(* FlattenSeq is the last value of such a function. *)
LEMMA FlattenIsComputed ==
    ASSUME NEW T, NEW seqs \in Seq(Seq(T))
    PROVE  \E f \in [0..Len(seqs) -> Seq(T)] :
               FlattenSeq(seqs) = f[Len(seqs)] /\ Joins(f, seqs)
<1> DEFINE n == Len(seqs)
           step == [i \in 1..n |-> [s \in Seq(T) |-> s \o seqs[i]]]
           Body(g) == [i \in 1..n |-> IF i = 1 THEN seqs[i] ELSE g[i - 1] \o seqs[i]]
<1>1. n \in Nat /\ <<>> \in Seq(T) /\ \A i \in 1..n : seqs[i] \in Seq(T)
    OBVIOUS
<1>2. step \in [1..n -> [Seq(T) -> Seq(T)]]
    <2>1. \A i \in 1..n : \A s \in Seq(T) : s \o seqs[i] \in Seq(T)
        BY <1>1
    <2> QED
        BY <2>1
<1>3. \A i \in 1..n : \A s \in Seq(T) : step[i][s] = s \o seqs[i]
    OBVIOUS
<1> HIDE DEF step
<1>4. PICK f \in [0..n -> Seq(T)] : Iterates(f, n, <<>>, step)
    BY <1>1, <1>2, ForwardRecursion
<1>5. Joins(f, seqs)
    <2>1. ASSUME NEW i \in 1..n
          PROVE  f[i] = f[i - 1] \o seqs[i]
        <3>1. i - 1 \in 0..n
            BY <1>1
        <3>2. f[i - 1] \in Seq(T) /\ f[i] = step[i][f[i - 1]]
            BY <1>4, <3>1 DEF Iterates
        <3> QED
            BY <1>3, <3>2
    <2> QED
        BY <1>4, <2>1 DEF Joins, Iterates
<1>6. CASE n = 0
    BY <1>1, <1>4, <1>5, <1>6 DEF FlattenSeq, Joins
<1>7. CASE n # 0
    <2> DEFINE g == [i \in 1..n |-> f[i]]
    <2>1. ASSUME NEW i \in 1..n
          PROVE  g[i] = IF i = 1 THEN seqs[i] ELSE g[i - 1] \o seqs[i]
        <3>1. CASE i = 1
            <4>1. 1 \in 1..Len(seqs) /\ 1 - 1 = 0
                BY <3>1
            <4>2. f[0] = <<>> /\ f[1] = f[0] \o seqs[1]
                BY <1>5, <4>1, Zenon DEF Joins
            <4>3. <<>> \o seqs[1] = seqs[1]
                BY <1>1, <3>1
            <4> QED
                BY <3>1, <4>2, <4>3
        <3>2. CASE i # 1
            <4>1. i - 1 \in 1..n
                BY <3>2
            <4>2. f[i] = f[i - 1] \o seqs[i]
                BY <1>5 DEF Joins
            <4> QED
                BY <3>2, <4>1, <4>2
        <3> QED
            BY <3>1, <3>2
    <2>2. g = Body(g)
        <3>1. g = [i \in 1..n |-> g[i]]
            OBVIOUS
        <3> HIDE DEF g
        <3> QED
            BY <2>1, <3>1, Zenon
    <2> DEFINE flatten == CHOOSE h : h = Body(h)
    <2>3. flatten = Body(flatten)
        BY <2>2, Zenon
    <2>4. FlattenSeq(seqs) = flatten[n]
        BY <1>7, Zenon DEF FlattenSeq
    <2> HIDE DEF flatten
    <2>5. \A i \in 1..n : flatten[i] = IF i = 1 THEN seqs[i] ELSE flatten[i - 1] \o seqs[i]
        BY <2>3, Zenon
    <2> DEFINE Same == {i \in Nat : i \in 1..n => flatten[i] = g[i]}
    <2>6. 0 \in Same
        OBVIOUS
    <2>7. ASSUME NEW k \in Nat, k \in Same
          PROVE  k + 1 \in Same
        <3> HIDE DEF g
        <3> SUFFICES ASSUME k + 1 \in 1..n
                     PROVE  flatten[k + 1] = g[k + 1]
            OBVIOUS
        <3>1. CASE k = 0
            BY <2>1, <2>5, <3>1
        <3>2. CASE k # 0
            <4>1. k \in 1..n /\ k + 1 # 1 /\ (k + 1) - 1 = k
                BY <3>2
            <4>2. flatten[k] = g[k]
                BY <2>7, <4>1
            <4> QED
                BY <2>1, <2>5, <4>1, <4>2
        <3> QED
            BY <3>1, <3>2
    <2> HIDE DEF Same
    <2>8. n \in Same /\ n \in 1..n
        <3>1. Nat \subseteq Same
            BY <2>6, <2>7, Induction
        <3> QED
            BY <1>1, <1>7, <3>1
    <2>9. FlattenSeq(seqs) = f[n]
        BY <2>4, <2>8 DEF Same
    <2> QED
        BY <1>4, <1>5, <2>9
<1> QED
    BY <1>6, <1>7

(* What a flattened sequence has for members. *)
LEMMA FlattenRange ==
    ASSUME NEW T, NEW seqs \in Seq(Seq(T))
    PROVE  /\ FlattenSeq(seqs) \in Seq(T)
           /\ Range(FlattenSeq(seqs)) = UNION {Range(seqs[i]) : i \in 1..Len(seqs)}
<1>1. PICK f \in [0..Len(seqs) -> Seq(T)] : FlattenSeq(seqs) = f[Len(seqs)] /\ Joins(f, seqs)
    BY FlattenIsComputed
<1> DEFINE n == Len(seqs)
           Upto(k) == UNION {Range(seqs[i]) : i \in 1..k}
           Good == {k \in Nat : k <= n => Range(f[k]) = Upto(k)}
<1>2. n \in Nat /\ \A i \in 1..n : seqs[i] \in Seq(T)
    OBVIOUS
<1>3. 0 \in Good
    <2>1. f[0] = <<>> /\ Upto(0) = {}
        BY <1>1 DEF Joins
    <2>2. Range(f[0]) = {}
        BY <2>1 DEF Range
    <2> QED
        BY <2>1, <2>2
<1>4. ASSUME NEW k \in Nat, k \in Good
      PROVE  k + 1 \in Good
    <2> SUFFICES ASSUME k + 1 <= n
                 PROVE  Range(f[k + 1]) = Upto(k + 1)
        OBVIOUS
    <2>1. k + 1 \in 1..n /\ k \in 0..n /\ k <= n /\ (k + 1) - 1 = k
        BY <1>2
    <2>2. Range(f[k]) = Upto(k)
        BY <1>4, <2>1
    <2>3. f[k + 1] = f[k] \o seqs[k + 1]
        BY <1>1, <2>1 DEF Joins
    <2>4. f[k] \in Seq(T) /\ seqs[k + 1] \in Seq(T)
        BY <1>1, <1>2, <2>1
    <2>5. Range(f[k + 1]) = Range(f[k]) \cup Range(seqs[k + 1])
        BY <2>3, <2>4, RangeConcatenation
    <2>6. 1..(k + 1) = 1..k \cup {k + 1}
        OBVIOUS
    <2>7. Upto(k + 1) = Upto(k) \cup Range(seqs[k + 1])
        BY <2>6
    <2> QED
        BY <2>2, <2>5, <2>7
<1> HIDE DEF Good
<1>5. n \in Good
    BY <1>2, <1>3, <1>4, Induction
<1>6. Range(f[n]) = Upto(n)
    BY <1>2, <1>5 DEF Good
<1> QED
    BY <1>1, <1>2, <1>6

(* A sequence of single members is flattened to them. *)
LEMMA FlattenSingles ==
    ASSUME NEW T, NEW s \in Seq(T)
    PROVE  FlattenSeq([i \in 1..Len(s) |-> <<s[i]>>]) = s
<1> DEFINE n == Len(s)
           seqs == [i \in 1..n |-> <<s[i]>>]
           start(k) == SubSeq(s, 1, k)
<1>1. /\ n \in Nat /\ start(0) = <<>> /\ start(n) = s
      /\ seqs \in Seq(Seq(T)) /\ Len(seqs) = n /\ \A i \in 1..n : seqs[i] = <<s[i]>>
    OBVIOUS
<1> HIDE DEF seqs
<1>2. PICK f \in [0..Len(seqs) -> Seq(T)] : FlattenSeq(seqs) = f[Len(seqs)] /\ Joins(f, seqs)
    BY <1>1, FlattenIsComputed
<1> DEFINE Good == {k \in Nat : k <= n => f[k] = start(k)}
<1>3. 0 \in Good
    BY <1>1, <1>2 DEF Joins
<1>4. ASSUME NEW k \in Nat, k \in Good
      PROVE  k + 1 \in Good
    <2> SUFFICES ASSUME k + 1 <= n
                 PROVE  f[k + 1] = start(k + 1)
        OBVIOUS
    <2>1. k + 1 \in 1..n /\ k <= n /\ (k + 1) - 1 = k
        BY <1>1
    <2>2. f[k] = start(k)
        BY <1>4, <2>1
    <2>3. f[k + 1] = f[k] \o <<s[k + 1]>>
        BY <1>1, <1>2, <2>1 DEF Joins
    <2>4. start(k + 1) = start(k) \o <<s[k + 1]>>
        BY <1>1, <2>1
    <2> QED
        BY <2>2, <2>3, <2>4
<1> HIDE DEF Good
<1>5. n \in Good
    BY <1>1, <1>3, <1>4, Induction
<1>6. f[n] = s
    BY <1>1, <1>5 DEF Good
<1> QED
    BY <1>1, <1>2, <1>6 DEF seqs

(* What there is nothing to select from makes no difference. *)
LEMMA OnlyBeside ==
    ASSUME NEW T, NEW a \in Seq(T), NEW b \in Seq(T), NEW S
    PROVE  /\ Range(a) \cap S = {} => Only(a, S) = <<>> /\ Only(a \o b, S) = Only(b, S)
           /\ Range(b) \cap S = {} => Only(a \o b, S) = Only(a, S)
<1> DEFINE left == Only(a, S)
           right == Only(b, S)
<1>1. Only(a \o b, S) = left \o right
    BY OnlyConcatenation
<1>2. /\ left \in Seq(T) /\ Range(left) = Range(a) \cap S
      /\ right \in Seq(T) /\ Range(right) = Range(b) \cap S
    BY OnlyRange
<1> HIDE DEF left, right
<1>3. Range(a) \cap S = {} => left = <<>>
    BY <1>2, RangelessIsEmpty
<1>4. Range(b) \cap S = {} => right = <<>>
    BY <1>2, RangelessIsEmpty
<1>5. <<>> \o right = right /\ left \o <<>> = left
    BY <1>2
<1> QED
    BY <1>1, <1>3, <1>4, <1>5 DEF left, right

(* Selecting from a flattened sequence, when all there is to select is in    *)
(* one of its sequences.                                                     *)
AllIn(n, seqs, S) ==
    \A i \in 1..Len(seqs) : i # n => Range(seqs[i]) \cap S = {}

(* What is selected from all of them is selected from that one. *)
LEMMA OnlyFlattened ==
    ASSUME NEW T, NEW seqs \in Seq(Seq(T)), NEW S, NEW n \in 1..Len(seqs), AllIn(n, seqs, S)
    PROVE  Only(FlattenSeq(seqs), S) = Only(seqs[n], S)
<1>1. PICK f \in [0..Len(seqs) -> Seq(T)] : FlattenSeq(seqs) = f[Len(seqs)] /\ Joins(f, seqs)
    BY FlattenIsComputed
<1> DEFINE m == Len(seqs)
           Good == {k \in 0..m : IF k < n THEN Range(f[k]) \cap S = {}
                                          ELSE Only(f[k], S) = Only(seqs[n], S)}
<1>2. m \in Nat /\ n \in 1..m /\ \A i \in 1..m : seqs[i] \in Seq(T)
    OBVIOUS
<1>3. 0 \in Good
    <2>1. Range(f[0]) = {}
        BY <1>1 DEF Joins, Range
    <2> QED
        BY <1>2, <2>1
<1>4. ASSUME NEW k \in 0..m, k \in Good, k # m
      PROVE  k + 1 \in Good
    <2> DEFINE old == f[k]
               next == seqs[k + 1]
    <2>1. k + 1 \in 1..m /\ (k + 1) - 1 = k /\ k + 1 \in 0..m
        BY <1>2, <1>4
    <2>2. f[k + 1] = old \o next /\ old \in Seq(T) /\ next \in Seq(T)
        BY <1>1, <1>2, <2>1 DEF Joins
    <2>3. IF k < n THEN Range(old) \cap S = {} ELSE Only(old, S) = Only(seqs[n], S)
        BY <1>4
    <2>4. k + 1 # n => Range(next) \cap S = {}
        BY <2>1, Zenon DEF AllIn
    <2> HIDE DEF Good, old, next
    <2>5. CASE k + 1 = n
        <3>1. Only(old \o next, S) = Only(next, S)
            BY <1>2, <2>2, <2>3, <2>5, OnlyBeside
        <3>2. Only(f[k + 1], S) = Only(seqs[n], S)
            BY <2>2, <2>5, <3>1 DEF next
        <3>3. ~ (k + 1 < n)
            BY <1>2, <2>5
        <3> QED
            BY <2>1, <3>2, <3>3 DEF Good
    <2>6. CASE k + 1 < n
        <3>1. Range(old \o next) = Range(old) \cup Range(next)
            BY <2>2, RangeConcatenation
        <3>2. Range(f[k + 1]) \cap S = {}
            BY <1>2, <2>2, <2>3, <2>4, <2>6, <3>1
        <3> QED
            BY <2>1, <2>6, <3>2 DEF Good
    <2>7. CASE k + 1 > n
        <3>1. Only(old \o next, S) = Only(old, S)
            BY <1>2, <2>2, <2>4, <2>7, OnlyBeside
        <3>2. ~ (k < n) /\ ~ (k + 1 < n)
            BY <1>2, <2>7
        <3> QED
            BY <2>1, <2>2, <2>3, <3>1, <3>2 DEF Good
    <2> QED
        BY <1>2, <2>5, <2>6, <2>7
<1> DEFINE Upto == {k \in Nat : k <= m => k \in Good}
<1>5. 0 \in Upto
    BY <1>3
<1>6. ASSUME NEW k \in Nat, k \in Upto
      PROVE  k + 1 \in Upto
    <2> HIDE DEF Good
    <2>1. k + 1 <= m => k \in 0..m /\ k # m /\ k \in Good
        BY <1>2, <1>6
    <2> QED
        BY <1>4, <2>1
<1> HIDE DEF Upto
<1>7. m \in Upto
    BY <1>2, <1>5, <1>6, Induction
<1>8. Only(f[m], S) = Only(seqs[n], S)
    BY <1>2, <1>7 DEF Upto
<1> QED
    BY <1>1, <1>8

=============================================================================

---------------------------- MODULE ParserProofs ----------------------------
(***************************************************************************)
(* What the operators of the parser compute, for every path: the pairs     *)
(* that the scan finds, what a parse files them as, and what the canonical *)
(* form reads as.                                                          *)
(***************************************************************************)
EXTENDS Parser, CollectionsProofs

(* A number at i with a value after it: the regular expression matches.    *)
Matches(p, i) == i < Len(p) /\ p[i] \in Number /\ p[i + 1] # ""

Found(p) == {<<p[i], p[i + 1]>> : i \in {j \in 1..Len(p) : Matches(p, j)}}

Scans(f, p) ==
    \A i \in 1..(Len(p) + 1) :
        f[i] = IF Len(p) <= i THEN <<>>
               ELSE IF Matches(p, i) THEN << <<p[i], p[i + 1]>> >> \o f[i + 2]
               ELSE f[i + 1]

(* FindAll(p) is the value at 1 of a function that is computed from the end *)
(* of p on, and finds numbers with the values after them.                   *)
LEMMA FindAllIsComputed ==
    ASSUME NEW T, NEW p \in Seq(T)
    PROVE  \E f \in [1..(Len(p) + 1) -> Seq(Found(p))] : FindAll(p) = f[1] /\ Scans(f, p)
<1> DEFINE m == Len(p) + 1
           n == IF Len(p) = 0 THEN 0 ELSE Len(p) - 1
           head == [i \in 1..n |-> IF Matches(p, i) THEN << <<p[i], p[i + 1]>> >> ELSE <<>>]
           next == [i \in 1..n |-> IF Matches(p, i) THEN i + 2 ELSE i + 1]
           Body(g) == [i \in 1..(Len(p) + 1) |->
                          IF i >= Len(p) THEN <<>>
                          ELSE IF p[i] \in Number /\ p[i + 1] # ""
                                 THEN << <<p[i], p[i + 1]>> >> \o g[i + 2]
                                 ELSE g[i + 1]]
<1>1. /\ Len(p) \in Nat /\ m \in Nat /\ n \in Nat /\ n < m
      /\ m = Len(p) + 1 /\ \A i \in 1..m : i > n <=> i >= Len(p)
    OBVIOUS
<1>2. /\ next \in [1..n -> 1..m] /\ \A i \in 1..n : next[i] > i
      /\ \A i \in 1..n : next[i] = IF Matches(p, i) THEN i + 2 ELSE i + 1
    OBVIOUS
<1>3. /\ head \in [1..n -> Seq(Found(p))]
      /\ \A i \in 1..n : head[i] = IF Matches(p, i) THEN << <<p[i], p[i + 1]>> >> ELSE <<>>
    <2>1. ASSUME NEW i \in 1..n, Matches(p, i)
          PROVE  << <<p[i], p[i + 1]>> >> \in Seq(Found(p))
        <3>1. <<p[i], p[i + 1]>> \in Found(p)
            BY <2>1, <1>1 DEF Found
        <3> QED
            BY <3>1
    <2> QED
        BY <2>1
<1> HIDE DEF head, next, n, m
<1>4. PICK g \in [1..m -> Seq(Found(p))] : IsComputed(g, m, n, head, next)
    BY <1>1, <1>2, <1>3, BackwardRecursion
<1>5. ASSUME NEW i \in 1..m
      PROVE  g[i] = IF Len(p) <= i THEN <<>>
                    ELSE IF Matches(p, i) THEN << <<p[i], p[i + 1]>> >> \o g[i + 2]
                    ELSE g[i + 1]
    <2>1. CASE i > n
        BY <1>1, <1>4, <2>1 DEF IsComputed
    <2>2. CASE i \in 1..n
        <3>1. ~ (i > n) /\ ~ (Len(p) <= i) /\ i + 1 \in 1..m /\ i + 2 \in 1..m
            BY <1>1, <2>2
        <3>2. g[i] = head[i] \o g[next[i]]
            BY <1>4, <3>1 DEF IsComputed
        <3>3. g[i + 1] \in Seq(Found(p))
            BY <3>1
        <3>4. <<>> \o g[i + 1] = g[i + 1]
            BY <3>3
        <3> QED
            BY <1>2, <1>3, <2>2, <3>1, <3>2, <3>4
    <2>3. i > n \/ i \in 1..n
        BY <1>1
    <2> QED
        BY <2>1, <2>2, <2>3, Zenon
<1>6. g = Body(g)
    <2>1. ASSUME NEW i \in 1..m
          PROVE  g[i] = IF i >= Len(p) THEN <<>>
                        ELSE IF p[i] \in Number /\ p[i + 1] # ""
                               THEN << <<p[i], p[i + 1]>> >> \o g[i + 2]
                               ELSE g[i + 1]
        <3>1. i \in Nat /\ Len(p) \in Nat
            BY <1>1
        <3>2. (i >= Len(p)) = (Len(p) <= i) /\ (i < Len(p)) = ~ (Len(p) <= i)
            BY <3>1
        <3> QED
            BY <1>5, <3>2, Zenon DEF Matches
    <2> QED
        BY <2>1, <1>1, Zenon
<1> DEFINE from == CHOOSE f : f = Body(f)
<1>7. from = Body(from)
    BY <1>6, Zenon
<1>8. FindAll(p) = from[1]
    BY Zenon DEF FindAll
<1> HIDE DEF from
<1>9. from = g
    <2> DEFINE Same == {i \in 1..m : from[i] = g[i]}
    <2>1. ASSUME NEW i \in 1..m, \A j \in 1..m : j > i => j \in Same
          PROVE  i \in Same
        <3> HIDE DEF Same
        <3>1. from[i] = Body(from)[i] /\ g[i] = Body(g)[i]
            BY <1>6, <1>7, Zenon
        <3>2. CASE i >= Len(p)
            BY <1>1, <3>1, <3>2 DEF Same
        <3>3. CASE i < Len(p)
            <4>1. i + 1 \in Same /\ i + 2 \in Same
                <5>1. i + 1 \in 1..m /\ i + 2 \in 1..m /\ i + 1 > i /\ i + 2 > i
                    BY <1>1, <3>3
                <5> QED
                    BY <2>1, <5>1
            <4>2. from[i + 1] = g[i + 1] /\ from[i + 2] = g[i + 2]
                BY <4>1 DEF Same
            <4>3. i \in 1..(Len(p) + 1)
                BY <1>1
            <4>4. from[i] = g[i]
                BY <3>1, <4>2, <4>3, Zenon
            <4> QED
                BY <4>4 DEF Same
        <3> QED
            BY <1>1, <3>2, <3>3
    <2> HIDE DEF Same
    <2>2. 1..m \subseteq Same
        BY <1>1, <2>1, BackwardInduction
    <2>3. \A i \in 1..m : from[i] = g[i]
        BY <2>2 DEF Same
    <2>4. from = [i \in 1..m |-> from[i]] /\ g = [i \in 1..m |-> g[i]]
        BY <1>1, <1>7, Zenon
    <2> QED
        BY <2>3, <2>4
<1> QED
    <2>1. Scans(g, p)
        BY <1>1, <1>5 DEF Scans
    <2> QED
        BY <1>1, <1>8, <1>9, <2>1

(* What is found, is found in what a path is extended to, and first. *)
LEMMA FindAllExtends ==
    ASSUME NEW T, NEW p \in Seq(T), NEW c \in Seq(T)
    PROVE  /\ FindAll(p) \in Seq(Found(p))
           /\ \E rest \in Seq(Found(p \o c)) : FindAll(p \o c) = FindAll(p) \o rest
<1> DEFINE q == p \o c
           m == Len(p) + 1
<1>1. /\ q \in Seq(T) /\ Len(p) \in Nat /\ Len(q) \in Nat /\ Len(p) <= Len(q)
      /\ \A i \in 1..Len(p) : q[i] = p[i]
    OBVIOUS
<1> HIDE DEF q
<1>2. PICK f \in [1..(Len(p) + 1) -> Seq(Found(p))] : FindAll(p) = f[1] /\ Scans(f, p)
    BY FindAllIsComputed
<1>3. PICK g \in [1..(Len(q) + 1) -> Seq(Found(q))] : FindAll(q) = g[1] /\ Scans(g, q)
    BY <1>1, FindAllIsComputed
<1>4. \A i \in 1..Len(p) : i < Len(p) =>
          q[i] = p[i] /\ q[i + 1] = p[i + 1] /\ i < Len(q) /\ i \in 1..Len(q)
    <2>1. \A i \in 1..Len(p) : i < Len(p) => i + 1 \in 1..Len(p)
        BY <1>1
    <2> QED
        BY <1>1, <2>1
<1>11. \A i \in 1..Len(p) : i < Len(p) => Matches(q, i) = Matches(p, i)
    BY <1>4 DEF Matches
<1>12. Found(p) \subseteq Found(q)
    <2> SUFFICES ASSUME NEW x \in Found(p)
                 PROVE  x \in Found(q)
        OBVIOUS
    <2>1. PICK i \in 1..Len(p) : Matches(p, i) /\ x = <<p[i], p[i + 1]>>
        BY DEF Found
    <2>2. Matches(q, i) /\ x = <<q[i], q[i + 1]>> /\ i \in 1..Len(q)
        BY <2>1, <1>4, <1>11 DEF Matches
    <2> QED
        BY <2>2 DEF Found
<1> DEFINE Good == {i \in 1..m : \E rest \in Seq(Found(q)) : g[i] = f[i] \o rest}
<1>5. ASSUME NEW i \in 1..m, \A j \in 1..m : j > i => j \in Good
      PROVE  i \in Good
    <2> HIDE DEF Good
    <2>1. i \in 1..(Len(p) + 1) /\ i \in 1..(Len(q) + 1)
        BY <1>1
    <2>2. CASE Len(p) <= i
        <3>1. f[i] = <<>> /\ g[i] \in Seq(Found(q))
            BY <1>2, <1>3, <2>1, <2>2 DEF Scans
        <3>2. g[i] = f[i] \o g[i]
            BY <3>1
        <3> QED
            BY <3>1, <3>2 DEF Good
    <2>3. CASE i < Len(p)
        <3>1. /\ i + 1 \in 1..m /\ i + 2 \in 1..m /\ i + 1 > i /\ i + 2 > i
              /\ ~ (Len(p) <= i) /\ ~ (Len(q) <= i) /\ i \in 1..Len(p)
            BY <1>1, <2>3
        <3>4. q[i] = p[i] /\ q[i + 1] = p[i + 1] /\ Matches(q, i) = Matches(p, i)
            BY <1>4, <1>11, <2>3, <3>1
        <3>2. CASE Matches(p, i)
            <4> DEFINE first == << <<p[i], p[i + 1]>> >>
            <4>1. f[i] = first \o f[i + 2] /\ g[i] = first \o g[i + 2]
                BY <1>2, <1>3, <2>1, <3>1, <3>2, <3>4, Zenon DEF Scans
            <4>2. PICK rest \in Seq(Found(q)) : g[i + 2] = f[i + 2] \o rest
                BY <1>5, <3>1 DEF Good
            <4>3. first \in Seq(Found(q)) /\ f[i + 2] \in Seq(Found(q))
                <5>1. <<p[i], p[i + 1]>> \in Found(p)
                    BY <3>1, <3>2, Zenon DEF Found
                <5>2. f[i + 2] \in Seq(Found(p))
                    BY <3>1
                <5> QED
                    BY <5>1, <5>2, <1>12, SeqMonotonic
            <4> DEFINE then == f[i + 2]
                       all  == Found(q)
            <4>4. first \in Seq(all) /\ then \in Seq(all) /\ rest \in Seq(all)
                BY <4>2, <4>3
            <4> HIDE DEF first, then, all
            <4>5. (first \o then) \o rest = first \o (then \o rest)
                BY <4>4, ConcatAssociative
            <4> QED
                BY <4>1, <4>2, <4>5 DEF Good, then
        <3>3. CASE ~ Matches(p, i)
            <4>1. f[i] = f[i + 1] /\ g[i] = g[i + 1]
                BY <1>2, <1>3, <2>1, <3>1, <3>3, <3>4, Zenon DEF Scans
            <4>2. i + 1 \in Good
                BY <1>5, <3>1
            <4> QED
                BY <4>1, <4>2 DEF Good
        <3> QED
            BY <3>2, <3>3
    <2> QED
        BY <1>1, <2>2, <2>3
<1> HIDE DEF Good
<1>6. 1 \in Good
    <2>1. m \in Nat /\ 1 \in 1..m
        BY <1>1
    <2> QED
        BY <1>5, <2>1, BackwardInduction
<1>7. \E rest \in Seq(Found(q)) : g[1] = f[1] \o rest
    BY <1>6 DEF Good
<1>8. FindAll(p) \in Seq(Found(p))
    BY <1>1, <1>2
<1> QED
    BY <1>2, <1>3, <1>7, <1>8 DEF q

(* A token is not empty where another is not. *)
AsFull(u, t) == t # "" => u # ""

(* One more token at the end of a path is found with the number before it,  *)
(* or not at all; that depends on the token only in that it is not empty.   *)
LEMMA FindAllOneMore ==
    ASSUME NEW T, NEW p \in Seq(T), Len(p) # 0, NEW one \in T, NEW other \in T, AsFull(other, one)
    PROVE  \/ FindAll(p \o <<one>>) = FindAll(p)
           \/ /\ FindAll(p \o <<one>>) = FindAll(p) \o << <<p[Len(p)], one>> >>
              /\ FindAll(p \o <<other>>) = FindAll(p) \o << <<p[Len(p)], other>> >>
<1> DEFINE n == Len(p)
           q == p \o <<one>>
           r == p \o <<other>>
           S == T \X T
           a == << <<p[n], one>> >>
           b == << <<p[n], other>> >>
<1>1. /\ q \in Seq(T) /\ r \in Seq(T) /\ n \in Nat /\ n # 0 /\ n = Len(p)
      /\ Len(q) = n + 1 /\ Len(r) = n + 1 /\ q[n + 1] = one /\ r[n + 1] = other
      /\ \A i \in 1..n : q[i] = p[i] /\ r[i] = p[i] /\ p[i] \in T
    OBVIOUS
<1>0. n \in Nat /\ n # 0 /\ n = Len(p) /\ Len(q) = n + 1 /\ Len(r) = n + 1
    BY <1>1
<1> HIDE DEF n, q, r, S
<1>10. \A x, y, z \in Seq(S) : (x \o y) \o z = x \o (y \o z)
    BY ConcatAssociative
<1>2. PICK f \in [1..(Len(p) + 1) -> Seq(Found(p))] : FindAll(p) = f[1] /\ Scans(f, p)
    BY FindAllIsComputed
<1>3. PICK g \in [1..(Len(q) + 1) -> Seq(Found(q))] : FindAll(q) = g[1] /\ Scans(g, q)
    BY <1>1, FindAllIsComputed
<1>4. PICK h \in [1..(Len(r) + 1) -> Seq(Found(r))] : FindAll(r) = h[1] /\ Scans(h, r)
    BY <1>1, FindAllIsComputed
<1>5. a \in Seq(S) /\ b \in Seq(S)
    <2>1. p[n] \in T
        BY <1>1
    <2> QED
        BY <2>1 DEF S
<1>6. \A i \in 1..(n + 1) : f[i] \in Seq(S)
    <2>1. Found(p) \subseteq S
        <3>1. \A i \in 1..n : i < n => i + 1 \in 1..n
            BY <1>1
        <3>2. ASSUME NEW x \in Found(p)
              PROVE  x \in S
            <4>1. PICK i \in 1..Len(p) : Matches(p, i) /\ x = <<p[i], p[i + 1]>>
                BY DEF Found
            <4>2. i < Len(p)
                BY <4>1, Zenon DEF Matches
            <4>3. i \in 1..n /\ i + 1 \in 1..n
                BY <1>1, <3>1, <4>2
            <4>4. p[i] \in T /\ p[i + 1] \in T
                BY <1>1, <4>3
            <4> QED
                BY <4>1, <4>4 DEF S
        <3> QED
            BY <3>2
    <2>2. \A i \in 1..(n + 1) : f[i] \in Seq(Found(p))
        BY <1>1, <1>2
    <2> QED
        BY <2>1, <2>2, SeqMonotonic
<1> HIDE DEF a, b
<1> DEFINE Good == {i \in 1..(n + 1) : g[i] = f[i] \/ (g[i] = f[i] \o a /\ h[i] = f[i] \o b)}
<1>7. ASSUME NEW i \in 1..(n + 1), \A j \in 1..(n + 1) : j > i => j \in Good
      PROVE  i \in Good
    <2> HIDE DEF Good
    <2>1. i \in 1..(Len(p) + 1) /\ i \in 1..(Len(q) + 1) /\ i \in 1..(Len(r) + 1)
        BY <1>1
    <2>2. CASE i = n + 1
        <3>1. Len(p) <= i /\ Len(q) <= i
            BY <1>1, <2>2
        <3>2. f[i] = <<>> /\ g[i] = <<>>
            BY <1>2, <1>3, <2>1, <3>1, Zenon DEF Scans
        <3> QED
            BY <3>2, Zenon DEF Good
    <2>3. CASE i = n
        <3>1. /\ Len(p) <= i /\ ~ (Len(q) <= i) /\ ~ (Len(r) <= i) /\ i < Len(q) /\ i < Len(r)
              /\ Len(q) <= i + 1 /\ Len(q) <= i + 2 /\ Len(r) <= i + 2
              /\ i + 1 \in 1..(Len(q) + 1) /\ i + 2 \in 1..(Len(q) + 1)
              /\ i + 2 \in 1..(Len(r) + 1)
            BY <1>1, <2>3
        <3>2. f[i] = <<>> /\ g[i + 1] = <<>> /\ g[i + 2] = <<>> /\ h[i + 2] = <<>>
            BY <1>2, <1>3, <1>4, <2>1, <3>1, Zenon DEF Scans
        <3>3. CASE Matches(q, i)
            <4>0. q[i] = r[i] /\ q[i + 1] = one /\ r[i + 1] = other
                <5>1. n \in 1..n
                    BY <1>0
                <5> QED
                    BY <1>1, <2>3, <5>1
            <4>1. Matches(r, i)
                BY <3>1, <3>3, <4>0, Zenon DEF Matches, AsFull
            <4>2. g[i] = << <<q[i], q[i + 1]>> >> \o <<>> /\ h[i] = << <<r[i], r[i + 1]>> >> \o <<>>
                BY <1>3, <1>4, <2>1, <3>1, <3>2, <3>3, <4>1, Zenon DEF Scans
            <4>3. <<q[i], q[i + 1]>> = <<p[n], one>> /\ <<r[i], r[i + 1]>> = <<p[n], other>>
                BY <1>1, <2>3
            <4>4. g[i] = a \o <<>> /\ h[i] = b \o <<>>
                BY <4>2, <4>3 DEF a, b
            <4>5. g[i] = <<>> \o a /\ h[i] = <<>> \o b
                BY <1>5, <4>4
            <4> QED
                BY <3>2, <4>5 DEF Good
        <3>4. CASE ~ Matches(q, i)
            <4>1. g[i] = g[i + 1]
                BY <1>3, <2>1, <3>1, <3>4, Zenon DEF Scans
            <4> QED
                BY <3>2, <4>1, Zenon DEF Good
        <3> QED
            BY <3>3, <3>4
    <2>4. CASE i < n
        <3>1. /\ ~ (Len(p) <= i) /\ ~ (Len(q) <= i) /\ ~ (Len(r) <= i) /\ i + 1 \in 1..n
              /\ i < Len(p) /\ i < Len(q) /\ i < Len(r) /\ i \in 1..n
              /\ i + 1 \in 1..(n + 1) /\ i + 2 \in 1..(n + 1) /\ i + 1 > i /\ i + 2 > i
            BY <1>1, <2>4
        <3>2. /\ q[i] = p[i] /\ q[i + 1] = p[i + 1] /\ r[i] = p[i] /\ r[i + 1] = p[i + 1]
              /\ Matches(q, i) = Matches(p, i) /\ Matches(r, i) = Matches(p, i)
            BY <1>1, <3>1 DEF Matches
        <3>3. i + 1 \in Good /\ i + 2 \in Good
            BY <1>7, <3>1, Zenon
        <3>4. CASE Matches(p, i)
            <4> DEFINE first == << <<p[i], p[i + 1]>> >>
                       then == f[i + 2]
            <4>1. f[i] = first \o then /\ g[i] = first \o g[i + 2] /\ h[i] = first \o h[i + 2]
                BY <1>2, <1>3, <1>4, <2>1, <3>1, <3>2, <3>4, Zenon DEF Scans
            <4>2. first \in Seq(S) /\ then \in Seq(S)
                BY <1>1, <1>6, <3>1 DEF S
            <4> HIDE DEF first, then
            <4>3. /\ (first \o then) \o a = first \o (then \o a)
                  /\ (first \o then) \o b = first \o (then \o b)
                BY <1>5, <1>10, <4>2, Zenon
            <4>4. g[i + 2] = then \/ (g[i + 2] = then \o a /\ h[i + 2] = then \o b)
                BY <3>3 DEF Good, then
            <4>5. g[i] = f[i] \/ (g[i] = f[i] \o a /\ h[i] = f[i] \o b)
                BY <4>1, <4>3, <4>4, Zenon
            <4> QED
                BY <4>5 DEF Good
        <3>5. CASE ~ Matches(p, i)
            <4>1. f[i] = f[i + 1] /\ g[i] = g[i + 1] /\ h[i] = h[i + 1]
                BY <1>2, <1>3, <1>4, <2>1, <3>1, <3>2, <3>5, Zenon DEF Scans
            <4> QED
                BY <3>3, <4>1 DEF Good
        <3> QED
            BY <3>4, <3>5
    <2> QED
        BY <1>1, <2>2, <2>3, <2>4
<1> HIDE DEF Good
<1>8. 1 \in Good
    <2>1. n + 1 \in Nat /\ 1 \in 1..(n + 1)
        BY <1>1
    <2>2. 1..(n + 1) \subseteq Good
        BY <1>7, <2>1, BackwardInduction
    <2> QED
        BY <2>1, <2>2
<1>9. g[1] = f[1] \/ (g[1] = f[1] \o a /\ h[1] = f[1] \o b)
    BY <1>8 DEF Good
<1> QED
    BY <1>2, <1>3, <1>4, <1>9 DEF q, r, a, b, n

(* The scan reads a path of numbers and values pair by pair. *)
PairsUp(p, n) ==
    /\ Len(p) = 2*n
    /\ \A k \in 1..n : p[2*k - 1] \in Number /\ p[2*k] # ""

(* So every value is found with its number. *)
LEMMA FindAllAligned ==
    ASSUME NEW T, NEW p \in Seq(T), NEW n \in Nat, PairsUp(p, n)
    PROVE  FindAll(p) = [k \in 1..n |-> <<p[2*k - 1], p[2*k]>>]
<1> DEFINE Pair(k) == <<p[2*k - 1], p[2*k]>>
<1>1. PICK f \in [1..(Len(p) + 1) -> Seq(Found(p))] : FindAll(p) = f[1] /\ Scans(f, p)
    BY FindAllIsComputed
<1> DEFINE Good == {k \in 1..(n + 1) : /\ Len(f[2*k - 1]) = n + 1 - k
                                      /\ \A j \in 1..(n + 1 - k) : f[2*k - 1][j] = Pair(k - 1 + j)}
<1> HIDE DEF Pair
<1>6. Len(p) = 2*n
    BY DEF PairsUp
<1>2. ASSUME NEW k \in 1..(n + 1), \A j \in 1..(n + 1) : j > k => j \in Good
      PROVE  k \in Good
    <2> HIDE DEF Good
    <2>1. 2*k - 1 \in 1..(Len(p) + 1)
        BY <1>6
    <2>2. CASE k = n + 1
        <3>1. Len(p) <= 2*k - 1
            BY <1>6, <2>2
        <3>2. f[2*k - 1] = <<>>
            BY <1>1, <2>1, <3>1, Zenon DEF Scans
        <3> QED
            BY <2>2, <3>2 DEF Good
    <2>3. CASE k \in 1..n
        <3> DEFINE first == <<Pair(k)>>
                   rest == f[2*k + 1]
        <3>1. /\ k + 1 \in 1..(n + 1) /\ k + 1 > k /\ 2 * (k + 1) - 1 = 2*k + 1
              /\ 2*k + 1 \in 1..(Len(p) + 1) /\ (2*k - 1) + 2 = 2*k + 1
              /\ (2*k - 1) + 1 = 2*k /\ ~ (Len(p) <= 2*k - 1)
            BY <1>6, <2>3
        <3>2. Matches(p, 2*k - 1)
            <4>1. p[2*k - 1] \in Number /\ p[2*k] # ""
                BY <2>3, Zenon DEF PairsUp
            <4>2. 2*k - 1 < Len(p)
                BY <1>6, <2>3
            <4> QED
                BY <4>1, <4>2, <3>1 DEF Matches
        <3>3. f[2*k - 1] = first \o rest
            BY <1>1, <2>1, <3>1, <3>2 DEF Scans, Pair
        <3>4. /\ rest \in Seq(Found(p)) /\ Len(rest) = n - k
              /\ \A j \in 1..(n - k) : rest[j] = Pair(k + j)
            <4>1. k + 1 \in Good
                BY <1>2, <3>1
            <4>2. n + 1 - (k + 1) = n - k /\ \A j \in 1..(n - k) : (k + 1) - 1 + j = k + j
                BY <2>3
            <4> QED
                BY <3>1, <4>1, <4>2 DEF Good
        <3> HIDE DEF rest
        <3>5. Len(first \o rest) = n + 1 - k
            BY <2>3, <3>4
        <3>6. ASSUME NEW j \in 1..(n + 1 - k)
              PROVE  (first \o rest)[j] = Pair(k - 1 + j)
            <4>1. CASE j = 1
                BY <2>3, <3>4, <4>1
            <4>2. CASE j # 1
                <5>1. j - 1 \in 1..(n - k) /\ k + (j - 1) = k - 1 + j
                    BY <2>3, <4>2
                <5>2. (first \o rest)[j] = rest[j - 1]
                    BY <2>3, <3>4, <5>1
                <5> QED
                    BY <3>4, <5>1, <5>2
            <4> QED
                BY <4>1, <4>2
        <3> QED
            BY <3>3, <3>5, <3>6 DEF Good
    <2> QED
        BY <2>2, <2>3
<1> HIDE DEF Good
<1>3. 1 \in Good
    <2>1. n + 1 \in Nat /\ 1 \in 1..(n + 1)
        OBVIOUS
    <2> QED
        BY <1>2, <2>1, BackwardInduction
<1>4. /\ FindAll(p) \in Seq(Found(p)) /\ Len(FindAll(p)) = n
      /\ \A j \in 1..n : FindAll(p)[j] = Pair(j)
    BY <1>1, <1>3 DEF Good
<1>5. FindAll(p) = [k \in 1..n |-> Pair(k)]
    BY <1>4
<1> QED
    BY <1>5, Zenon DEF Pair

(* Translating names leaves the tokens of a path what tokens are, and what  *)
(* is printed at its end does not change how its beginning is translated.   *)
LEMMA NormaliseAlpha ==
    ASSUME NEW T, NEW p \in Seq(T)
    PROVE  /\ normalise_alpha(p) \in Seq(T \cup Range(NAME_TO_AI))
           /\ Len(normalise_alpha(p)) = Len(p)
           /\ \A c \in Seq(T) :
                 \E d \in Seq(T \cup Range(NAME_TO_AI)) :
                     normalise_alpha(p \o c) = normalise_alpha(p) \o d
<1> DEFINE V == T \cup Range(NAME_TO_AI)
           Token(q, i) == IF i % 2 = 1 /\ Lower(q[i]) \in DOMAIN NAME_TO_AI
                            THEN NAME_TO_AI[Lower(q[i])] ELSE q[i]
<1>1. \A name \in DOMAIN NAME_TO_AI : NAME_TO_AI[name] \in V
    BY Zenon DEF Range
<1> HIDE DEF V
<1>2. ASSUME NEW q \in Seq(T)
      PROVE  normalise_alpha(q) \in Seq(V) /\ Len(normalise_alpha(q)) = Len(q)
    <2>1. normalise_alpha(q) = [i \in DOMAIN q |-> Token(q, i)]
        BY DEF normalise_alpha
    <2>2. \A i \in DOMAIN q : Token(q, i) \in V
        <3>1. \A i \in DOMAIN q : q[i] \in V
            BY DEF V
        <3> QED
            BY <1>1, <3>1, Zenon
    <2> HIDE DEF Token
    <2>3. DOMAIN q = 1..Len(q) /\ Len(q) \in Nat
        OBVIOUS
    <2> QED
        BY <2>1, <2>2, <2>3
<1>3. ASSUME NEW c \in Seq(T)
      PROVE  \E d \in Seq(V) : normalise_alpha(p \o c) = normalise_alpha(p) \o d
    <2> DEFINE q == p \o c
               n == normalise_alpha(q)
               d == [i \in 1..Len(c) |-> n[Len(p) + i]]
    <2>1. /\ q \in Seq(T) /\ Len(q) = Len(p) + Len(c) /\ Len(p) \in Nat /\ Len(c) \in Nat
          /\ \A i \in 1..Len(p) : q[i] = p[i]
        OBVIOUS
    <2>2. n \in Seq(V) /\ Len(n) = Len(p) + Len(c)
        BY <1>2, <2>1
    <2>3. ASSUME NEW i \in 1..Len(p)
          PROVE  n[i] = normalise_alpha(p)[i]
        <3>1. n[i] = Token(q, i) /\ normalise_alpha(p)[i] = Token(p, i)
            BY <2>1 DEF normalise_alpha
        <3>2. q[i] = p[i]
            BY <2>1
        <3>3. Token(q, i) = Token(p, i)
            BY <3>2
        <3> QED
            BY <3>1, <3>3
    <2> HIDE DEF n
    <2>4. d \in Seq(V) /\ Len(d) = Len(c)
        BY <2>1, <2>2
    <2>5. n = normalise_alpha(p) \o d
        <3> DEFINE start == normalise_alpha(p)
        <3>1. start \in Seq(V) /\ Len(start) = Len(p) /\ \A i \in 1..Len(p) : n[i] = start[i]
            BY <1>2, <2>3
        <3>2. \A i \in 1..Len(c) : d[i] = n[Len(p) + i]
            OBVIOUS
        <3> HIDE DEF start, d
        <3>3. Len(start \o d) = Len(n)
            <4>1. Len(start \o d) = Len(start) + Len(d)
                BY <2>4, <3>1, ConcatProperties
            <4> QED
                BY <2>2, <2>4, <3>1, <4>1
        <3>4. ASSUME NEW i \in 1..Len(n)
              PROVE  n[i] = (start \o d)[i]
            <4>1. CASE i \in 1..Len(p)
                BY <2>1, <2>4, <3>1, <4>1
            <4>2. CASE i \notin 1..Len(p)
                <5>1. i - Len(p) \in 1..Len(c) /\ Len(p) + (i - Len(p)) = i
                    BY <2>1, <2>2, <4>2
                <5>2. (start \o d)[i] = d[i - Len(p)]
                    BY <2>1, <2>2, <2>4, <3>1, <4>2
                <5> QED
                    BY <3>2, <5>1, <5>2
            <4> QED
                BY <4>1, <4>2
        <3>5. start \o d \in Seq(V)
            BY <2>4, <3>1
        <3>6. n = start \o d
            BY <2>2, <3>3, <3>4, <3>5, SeqEqual
        <3> QED
            BY <3>6 DEF start
    <2> QED
        BY <2>4, <2>5 DEF n
<1> QED
    BY <1>2, <1>3 DEF V

(* Segments are sequences of pairs of a number and a value. *)
Pairs(V) == Number \X (V \ {""})

(* The parts of a pair. *)
LEMMA PairParts ==
    ASSUME NEW V, NEW pair \in Pairs(V)
    PROVE  /\ pair = <<pair[1], pair[2]>>
           /\ pair[1] \in Number /\ pair[2] \in V /\ pair[2] # ""
<1> DEFINE W == V \ {""}
<1>1. pair \in Number \X W
    BY DEF Pairs
<1> HIDE DEF W
<1>2. pair = <<pair[1], pair[2]>> /\ pair[1] \in Number /\ pair[2] \in W
    BY <1>1
<1> QED
    BY <1>2 DEF W

(* The tokens of a path once names are translated. *)
Translated(T) == T \cup Range(NAME_TO_AI)

(* The segments of a path are such pairs, and those of what it is        *)
(* extended to begin with them.                                          *)
LEMMA SegmentsType ==
    ASSUME NEW T, NEW p \in Seq(T)
    PROVE  /\ Segments(p) \in Seq(Pairs(Translated(T)))
           /\ \A c \in Seq(T) : \E rest \in Seq(Pairs(Translated(T))) : Segments(p \o c) = Segments(p) \o rest
<1> DEFINE V == Translated(T)
<1>1. ASSUME NEW q \in Seq(V)
      PROVE  Found(q) \subseteq Pairs(Translated(T))
    <2> HIDE DEF V
    <2> SUFFICES ASSUME NEW x \in Found(q)
                 PROVE  x \in Pairs(Translated(T))
        OBVIOUS
    <2>1. PICK i \in 1..Len(q) : Matches(q, i) /\ x = <<q[i], q[i + 1]>>
        BY DEF Found
    <2>2. q[i] \in Number /\ q[i + 1] # ""
        BY <2>1 DEF Matches
    <2>3. i < Len(q)
        BY <2>1, Zenon DEF Matches
    <2>6. Len(q) \in Nat
        OBVIOUS
    <2>4. i + 1 \in 1..Len(q)
        BY <2>3, <2>6
    <2>5. q[i + 1] \in V
        BY <2>4
    <2> QED
        BY <2>1, <2>2, <2>5 DEF Pairs, V
<1>2. normalise_alpha(p) \in Seq(V)
    BY NormaliseAlpha DEF Translated
<1> HIDE DEF V
<1>3. Segments(p) \in Seq(Pairs(Translated(T)))
    <2>1. <<>> \in Seq(V)
        OBVIOUS
    <2>2. FindAll(normalise_alpha(p)) \in Seq(Found(normalise_alpha(p)))
        BY <1>2, <2>1, FindAllExtends
    <2> QED
        BY <1>1, <1>2, <2>2, SeqMonotonic DEF Segments
<1>4. ASSUME NEW c \in Seq(T)
      PROVE  \E rest \in Seq(Pairs(Translated(T))) : Segments(p \o c) = Segments(p) \o rest
    <2> DEFINE n == normalise_alpha(p)
    <2>1. PICK d \in Seq(V) : normalise_alpha(p \o c) = n \o d
        BY NormaliseAlpha DEF V, Translated
    <2> HIDE DEF n
    <2>2. n \in Seq(V) /\ n \o d \in Seq(V)
        BY <1>2, <2>1 DEF n
    <2>3. PICK rest \in Seq(Found(n \o d)) : FindAll(n \o d) = FindAll(n) \o rest
        BY <2>1, <2>2, FindAllExtends
    <2>4. rest \in Seq(Pairs(Translated(T)))
        BY <1>1, <2>2, <2>3, SeqMonotonic
    <2> QED
        BY <2>1, <2>3, <2>4 DEF Segments, n
<1> QED
    BY <1>3, <1>4

(* The routing key is the first pair of a primary AI. *)
LEMMA PrimaryIndexFirst ==
    ASSUME NEW T, NEW p \in Seq(T)
    PROVE  /\ HasKey(p) <=> \E i \in 1..Len(Segments(p)) : Segments(p)[i][1] \in PRIMARY_AIS
           /\ HasKey(p) => /\ PrimaryIndex(p) \in 1..Len(Segments(p))
                           /\ Segments(p)[PrimaryIndex(p)][1] \in PRIMARY_AIS
                           /\ \A i \in 1..Len(Segments(p)) :
                                 Segments(p)[i][1] \in PRIMARY_AIS => PrimaryIndex(p) <= i
<1> DEFINE keys == {i \in 1..Len(Segments(p)) : Segments(p)[i][1] \in PRIMARY_AIS}
<1>1. PrimaryIndex(p) = IF keys # {} THEN Min(keys) ELSE 0
    BY DEF PrimaryIndex, SelectInSeq
<1>2. Len(Segments(p)) \in Nat
    BY SegmentsType
<1>3. keys \in SUBSET Nat /\ 0 \notin keys
    BY <1>2
<1>4. keys # {} => Min(keys) \in keys /\ \A i \in keys : Min(keys) <= i
    BY <1>3, LeastExists
<1> QED
    BY <1>1, <1>3, <1>4 DEF HasKey

(* What is printed behind a path that parses leaves its routing key alone. *)
LEMMA KeySettles ==
    ASSUME NEW T, NEW p \in Seq(T), NEW c \in Seq(T), HasKey(p)
    PROVE  /\ HasKey(p \o c)
           /\ ParsedPath(p \o c).primary_ai = ParsedPath(p).primary_ai
           /\ ParsedPath(p \o c).primary_value = ParsedPath(p).primary_value
<1> DEFINE segs == Segments(p)
           q == p \o c
           key == PrimaryIndex(p)
<1>1. q \in Seq(T)
    OBVIOUS
<1>2. PICK rest \in Seq(Pairs(Translated(T))) : Segments(q) = segs \o rest
    BY SegmentsType
<1>3. segs \in Seq(Pairs(Translated(T)))
    BY SegmentsType
<1> HIDE DEF segs, q
<1>4. /\ Len(segs) \in Nat /\ Len(Segments(q)) \in Nat /\ Len(segs) <= Len(Segments(q))
      /\ \A i \in 1..Len(segs) : Segments(q)[i] = segs[i]
    BY <1>2, <1>3
<1>5. /\ key \in 1..Len(segs) /\ segs[key][1] \in PRIMARY_AIS
      /\ \A i \in 1..Len(segs) : segs[i][1] \in PRIMARY_AIS => key <= i
    BY PrimaryIndexFirst DEF segs
<1> HIDE DEF key
<1>6. key \in 1..Len(Segments(q)) /\ Segments(q)[key] = segs[key]
    BY <1>4, <1>5
<1>7. HasKey(q)
    BY <1>1, <1>5, <1>6, PrimaryIndexFirst
<1>8. /\ PrimaryIndex(q) \in 1..Len(Segments(q))
      /\ Segments(q)[PrimaryIndex(q)][1] \in PRIMARY_AIS /\ PrimaryIndex(q) <= key
    BY <1>1, <1>5, <1>6, <1>7, PrimaryIndexFirst
<1>9. PrimaryIndex(q) = key
    <2>1. PrimaryIndex(q) \in 1..Len(segs)
        BY <1>4, <1>5, <1>8
    <2>2. segs[PrimaryIndex(q)][1] \in PRIMARY_AIS
        BY <1>4, <1>8, <2>1
    <2>3. key <= PrimaryIndex(q)
        BY <1>5, <2>1, <2>2
    <2> QED
        BY <1>4, <1>5, <1>8, <2>1, <2>3
<1> QED
    BY <1>6, <1>7, <1>9 DEF ParsedPath, Classified, segs, q, key

(* A key takes two tokens. *)
LEMMA KeyNeedsTwo ==
    ASSUME NEW T, NEW q \in Seq(T), HasKey(q)
    PROVE  Len(q) > 1
<1>1. Len(q) \in Nat
    OBVIOUS
<1>2. PrimaryIndex(q) \in 1..Len(Segments(q))
    BY PrimaryIndexFirst
<1>3. Segments(q) # <<>>
    BY <1>2
<1>4. ASSUME Len(q) <= 1
      PROVE  Segments(q) = <<>>
    <2> DEFINE d == normalise_alpha(q)
               W == Translated(T)
    <2>1. d \in Seq(W) /\ Len(d) = Len(q)
        BY NormaliseAlpha DEF Translated
    <2> HIDE DEF d, W
    <2>2. PICK f \in [1..(Len(d) + 1) -> Seq(Found(d))] : FindAll(d) = f[1] /\ Scans(f, d)
        BY <2>1, FindAllIsComputed
    <2>3. 1 \in 1..(Len(d) + 1) /\ Len(d) <= 1
        BY <1>1, <1>4, <2>1
    <2>4. f[1] = <<>>
        BY <2>2, <2>3, Zenon DEF Scans
    <2> QED
        BY <2>2, <2>4 DEF Segments, d
<1> QED
    BY <1>1, <1>3, <1>4

(* A sequence that is longer by one member. *)
LEMMA LongerByOne ==
    ASSUME NEW S, NEW x \in Seq(S), NEW d \in Seq(S), NEW m, m = Len(x) + 1, Len(x \o d) = m
    PROVE  d = <<d[1]>> /\ (x \o d)[m] = d[1] /\ d[1] \in S
<1> DEFINE n == Len(d)
           l == Len(x)
<1>1. l \in Nat /\ n \in Nat /\ Len(x \o d) = l + n /\ m = l + 1
    OBVIOUS
<1>2. \A a, b \in Nat : a + b = a + 1 => b = 1
    OBVIOUS
<1> HIDE DEF n, l
<1>3. n = 1
    BY <1>1, <1>2, Zenon
<1>4. d = <<d[1]>> /\ d[1] \in S
    BY <1>3 DEF n
<1>5. (x \o d)[m] = d[1]
    <2>1. x \o <<d[1]>> = x \o d
        BY <1>4
    <2>2. (x \o <<d[1]>>)[Len(x) + 1] = d[1]
        BY <1>4
    <2> QED
        BY <2>1, <2>2
<1> QED
    BY <1>4, <1>5

(* A member put at the end. *)
LEMMA PutBehind ==
    ASSUME NEW S, NEW x \in Seq(S), NEW e
    PROVE  /\ Len(x) \in Nat /\ Len(x \o <<e>>) = Len(x) + 1
           /\ (x \o <<e>>)[Len(x) + 1] = e
           /\ \A i \in 1..Len(x) : (x \o <<e>>)[i] = x[i]
OBVIOUS

(* One more token at the end of a path makes one more pair, with its value,  *)
(* or none.                                                                 *)
MakesAPair(p, one, other) ==
    \E ai, value, whole :
        /\ Segments(p \o <<one>>) = Segments(p) \o << <<ai, value>> >>
        /\ Segments(p \o <<other>>) = Segments(p) \o << <<ai, whole>> >>

LEMMA SegmentsOneMore ==
    ASSUME NEW T, NEW p \in Seq(T), Len(p) # 0, NEW one \in T, NEW other \in T,
           AsFull(other, one)
    PROVE  Segments(p \o <<one>>) = Segments(p) \/ MakesAPair(p, one, other)
<1> DEFINE V == Translated(T)
           n == normalise_alpha(p)
           i == Len(p) + 1
           Name(t) == i % 2 = 1 /\ Lower(t) \in DOMAIN NAME_TO_AI
           Read(t) == IF Name(t) THEN NAME_TO_AI[Lower(t)] ELSE t
<1>1. n \in Seq(V) /\ Len(n) = Len(p)
    BY NormaliseAlpha DEF Translated
<1> HIDE DEF V, n
<1>2. ASSUME NEW t \in T
      PROVE  Read(t) \in V /\ normalise_alpha(p \o <<t>>) = n \o <<Read(t)>>
    <2> DEFINE q == p \o <<t>>
    <2>1. /\ Len(p) \in Nat /\ Len(q) = i /\ q[i] = t /\ i \in 1..Len(q)
          /\ q \in Seq(T) /\ <<t>> \in Seq(T)
        OBVIOUS
    <2>2. PICK d \in Seq(V) : normalise_alpha(q) = n \o d
        BY <2>1, NormaliseAlpha DEF V, n, Translated
    <2>3. Len(normalise_alpha(q)) = Len(q)
        BY <2>1, NormaliseAlpha
    <2>4. DOMAIN q = 1..Len(q)
        BY <2>1
    <2> HIDE DEF q, i
    <2>5. normalise_alpha(q)[i] = Read(t)
        BY <2>1, <2>4, Zenon DEF normalise_alpha
    <2> HIDE DEF Read
    <2>6. Len(n \o d) = Len(n) + 1
        BY <1>1, <2>1, <2>2, <2>3 DEF i
    <2>8. i = Len(n) + 1
        BY <1>1 DEF i
    <2> HIDE DEF V
    <2>7. d = <<d[1]>> /\ (n \o d)[i] = d[1] /\ d[1] \in V
        BY <1>1, <2>2, <2>6, <2>8, LongerByOne
    <2> QED
        BY <2>2, <2>5, <2>7 DEF q
<1>3. AsFull(Read(other), Read(one))
    <2>1. \A t : Name(t) => Read(t) # ""
        <3>1. \A name \in DOMAIN NAME_TO_AI : NAME_TO_AI[name] # ""
            BY NumbersAssumption DEF Range
        <3> QED
            BY <3>1
    <2>2. \A t : ~ Name(t) => Read(t) = t
        OBVIOUS
    <2> HIDE DEF Read
    <2>3. CASE one = ""
        <3>1. CASE other = ""
            BY <2>3, <3>1, Zenon DEF AsFull
        <3>2. CASE other # ""
            BY <2>1, <2>2, <3>2, Zenon DEF AsFull
        <3> QED
            BY <3>1, <3>2
    <2>4. CASE one # ""
        BY <2>1, <2>2, <2>4, Zenon DEF AsFull
    <2> QED
        BY <2>3, <2>4
<1> HIDE DEF Read
<1>4. \/ FindAll(n \o <<Read(one)>>) = FindAll(n)
      \/ /\ FindAll(n \o <<Read(one)>>) = FindAll(n) \o << <<n[Len(n)], Read(one)>> >>
         /\ FindAll(n \o <<Read(other)>>) = FindAll(n) \o << <<n[Len(n)], Read(other)>> >>
    BY <1>1, <1>2, <1>3, FindAllOneMore
<1> QED
    BY <1>2, <1>4, Zenon DEF MakesAPair, Segments, n

(* What stands behind the last token of a path that parses, and another      *)
(* token in place of the last, change the routing key in its value at most,  *)
(* and only when its pair is the last of the path.                           *)
LEMMA KeyOutlastsItsToken ==
    ASSUME NEW T, NEW p \in Seq(T), NEW one \in T, NEW other \in T, NEW c \in Seq(T),
           AsFull(other, one), HasKey(p \o <<one>>)
    PROVE  LET q == p \o <<one>>
               r == (p \o <<other>>) \o c
           IN  /\ HasKey(r)
               /\ ParsedPath(r).primary_ai = ParsedPath(q).primary_ai
               /\ \/ ParsedPath(r).primary_value = ParsedPath(q).primary_value
                  \/ PrimaryIndex(q) = Len(Segments(q))
<1> DEFINE q == p \o <<one>>
           o == p \o <<other>>
           r == o \o c
           segs == Segments(p)
<1>1. /\ <<one>> \in Seq(T) /\ <<other>> \in Seq(T) /\ q \in Seq(T) /\ o \in Seq(T)
      /\ <<other>> \o c \in Seq(T)
    OBVIOUS
<1>2. r = p \o (<<other>> \o c)
    BY ConcatAssociative
<1>3. HasKey(q)
    OBVIOUS
<1>4. CASE HasKey(p)
    <2>1. /\ ParsedPath(q).primary_ai = ParsedPath(p).primary_ai
          /\ ParsedPath(q).primary_value = ParsedPath(p).primary_value
        BY <1>1, <1>4, KeySettles
    <2> HIDE DEF q, r
    <2>2. /\ HasKey(r)
          /\ ParsedPath(r).primary_ai = ParsedPath(p).primary_ai
          /\ ParsedPath(r).primary_value = ParsedPath(p).primary_value
        BY <1>1, <1>2, <1>4, KeySettles
    <2> QED
        BY <2>1, <2>2 DEF q, r, o
<1>5. CASE ~ HasKey(p)
    <2>1. segs \in Seq(Pairs(Translated(T))) /\ Segments(q) \in Seq(Pairs(Translated(T)))
        BY <1>1, SegmentsType
    <2>2. Segments(q) # segs
        BY <1>3, <1>5, Zenon DEF HasKey, PrimaryIndex
    <2>3. Len(p) # 0
        <3>1. Len(q) = Len(p) + 1 /\ Len(p) \in Nat
            BY PutBehind
        <3>2. Len(q) > 1
            BY <1>1, <1>3, KeyNeedsTwo
        <3> HIDE DEF q
        <3> QED
            BY <3>1, <3>2
    <2>4. PICK ai, value, whole :
              /\ Segments(q) = segs \o << <<ai, value>> >>
              /\ Segments(o) = segs \o << <<ai, whole>> >>
        <3>1. Segments(q) = segs \/ MakesAPair(p, one, other)
            BY <2>3, SegmentsOneMore
        <3> QED
            BY <2>2, <3>1, Zenon DEF MakesAPair
    <2> DEFINE m == Len(segs) + 1
    <2>5. /\ m \in Nat /\ Len(Segments(q)) = m /\ Len(Segments(o)) = m /\ m \in 1..m
          /\ Segments(q)[m][1] = ai /\ Segments(o)[m][1] = ai
          /\ \A i \in 1..m : i # m => /\ i \in 1..Len(segs)
                                      /\ Segments(q)[i] = segs[i] /\ Segments(o)[i] = segs[i]
        <3> DEFINE S == Pairs(Translated(T))
                   x == <<ai, value>>
                   y == <<ai, whole>>
        <3>1. segs \in Seq(S)
            BY <2>1
        <3>2. x[1] = ai /\ y[1] = ai
            OBVIOUS
        <3>3. Segments(q) = segs \o <<x>> /\ Segments(o) = segs \o <<y>>
            BY <2>4
        <3> HIDE DEF S, x, y, segs, q, o
        <3>4. /\ Len(segs) \in Nat /\ Len(segs \o <<x>>) = m /\ Len(segs \o <<y>>) = m
              /\ (segs \o <<x>>)[m] = x /\ (segs \o <<y>>)[m] = y
              /\ \A i \in 1..Len(segs) : (segs \o <<x>>)[i] = segs[i] /\ (segs \o <<y>>)[i] = segs[i]
            BY <3>1, PutBehind
        <3> QED
            BY <3>2, <3>3, <3>4
    <2>6. \A i \in 1..Len(segs) : segs[i][1] \notin PRIMARY_AIS
        BY <1>5, PrimaryIndexFirst
    <2> HIDE DEF q, o, r, segs, m
    <2>7. PrimaryIndex(q) \in 1..m /\ Segments(q)[PrimaryIndex(q)][1] \in PRIMARY_AIS
        BY <1>1, <1>3, <2>5, PrimaryIndexFirst
    <2>8. PrimaryIndex(q) = m /\ ai \in PRIMARY_AIS
        BY <2>5, <2>6, <2>7
    <2>9. HasKey(o)
        BY <1>1, <2>5, <2>8, PrimaryIndexFirst
    <2>10. PrimaryIndex(o) \in 1..m /\ Segments(o)[PrimaryIndex(o)][1] \in PRIMARY_AIS
        BY <1>1, <2>5, <2>9, PrimaryIndexFirst
    <2>11. PrimaryIndex(o) = m
        BY <2>5, <2>6, <2>10
    <2>12. ParsedPath(q).primary_ai = ai /\ ParsedPath(o).primary_ai = ai
        BY <2>5, <2>8, <2>11 DEF ParsedPath, Classified
    <2>13. HasKey(r) /\ ParsedPath(r).primary_ai = ParsedPath(o).primary_ai
        BY <1>1, <2>9, KeySettles DEF r
    <2> QED
        BY <2>5, <2>8, <2>12, <2>13 DEF q, o, r
<1> QED
    BY <1>4, <1>5

(* What urlparse leaves of a URI. *)
Parsed(T) == T \cup {Cut(t) : t \in T}

(* It is as long as it was, and differs in its last token at most. *)
LEMMA CutTokens ==
    ASSUME NEW T, NEW p \in Seq(T)
    PROVE  /\ CutAtTheEnd(p) \in Seq(Parsed(T)) /\ Len(CutAtTheEnd(p)) = Len(p)
           /\ \A i \in 1..Len(p) : CutAtTheEnd(p)[i] = IF i = Len(p) THEN Cut(p[i]) ELSE p[i]
           /\ p \in Seq(Parsed(T))
<1> DEFINE n == Len(p)
           V == Parsed(T)
           Token(i) == IF i = n THEN Cut(p[i]) ELSE p[i]
<1>1. n \in Nat /\ DOMAIN p = 1..n
    OBVIOUS
<1>2. \A i \in 1..n : Token(i) \in V /\ p[i] \in V
    BY DEF Parsed
<1>3. CutAtTheEnd(p) = [i \in 1..n |-> Token(i)]
    BY <1>1, Zenon DEF CutAtTheEnd
<1>6. p \in Seq(V)
    BY SeqMonotonic DEF Parsed
<1> HIDE DEF n, V, Token
<1>4. [i \in 1..n |-> Token(i)] \in Seq(V)
    BY <1>1, <1>2
<1>5. /\ Len(CutAtTheEnd(p)) = n
      /\ \A i \in 1..n : CutAtTheEnd(p)[i] = Token(i)
    BY <1>1, <1>3
<1> QED
    BY <1>3, <1>4, <1>5, <1>6 DEF n, V, Token

(* The host is taken from the beginning. *)
LEMMA HostTaken ==
    ASSUME NEW T, NEW uri \in Seq(T)
    PROVE  /\ WithoutHost(uri) \in Seq(T)
           /\ \/ WithoutHost(uri) = uri
              \/ Len(uri) > 1 /\ WithoutHost(uri) = SubSeq(uri, 3, Len(uri))
<1> DEFINE n == Len(uri)
<1>1. n \in Nat
    OBVIOUS
<1>2. SubSeq(uri, 3, n) \in Seq(T)
    <2>1. \A i \in 3..n : uri[i] \in T
        BY <1>1
    <2> HIDE DEF n
    <2> QED
        BY <1>1, <2>1, SubSeqProperties
<1>3. CASE n > 1 /\ uri[1] = ""
    BY <1>2, <1>3, Zenon DEF WithoutHost
<1>4. CASE ~ (n > 1 /\ uri[1] = "")
    BY <1>4, Zenon DEF WithoutHost
<1> QED
    BY <1>3, <1>4, Zenon

(* urlparse leaves tokens, some of them cut. *)
LEMMA UrlparseType ==
    ASSUME NEW T, NEW uri \in Seq(T)
    PROVE  urlparse(uri) \in Seq(Parsed(T))
<1>1. WithoutHost(uri) \in Seq(T)
    BY HostTaken
<1> QED
    BY <1>1, CutTokens DEF urlparse

(* A path that does not begin with an empty token, and has nothing to cut at *)
(* its end, is left as it is.                                                *)
LEMMA UrlparseLeaves ==
    ASSUME NEW T, NEW uri \in Seq(T), uri[1] # "", Cut(uri[Len(uri)]) = uri[Len(uri)]
    PROVE  urlparse(uri) = uri
<1>1. WithoutHost(uri) = uri
    BY Zenon DEF WithoutHost
<1>2. CutAtTheEnd(uri) = uri
    <2> DEFINE c == CutAtTheEnd(uri)
               V == Parsed(T)
    <2>1. c \in Seq(V) /\ uri \in Seq(V) /\ Len(c) = Len(uri)
        BY CutTokens
    <2>2. \A i \in 1..Len(uri) : c[i] = uri[i]
        BY CutTokens, Zenon
    <2> HIDE DEF c, V
    <2>3. c = uri
        BY <2>1, <2>2, SeqEqual
    <2> QED
        BY <2>3 DEF c
<1> QED
    BY <1>1, <1>2 DEF urlparse

(* When more is printed behind a URI, all that urlparse took the path for    *)
(* stays, and its last token is cut no more.                                 *)
Uncut(uri, c, T) ==
    \E p \in Seq(T), d \in Seq(Parsed(T)) :
        /\ urlparse(uri) = p \o <<Cut(uri[Len(uri)])>>
        /\ urlparse(uri \o c) = (p \o <<uri[Len(uri)]>>) \o d

LEMMA UrlparseExtends ==
    ASSUME NEW T, NEW uri \in Seq(T), NEW c \in Seq(T), c # <<>>, Len(urlparse(uri)) > 1
    PROVE  Uncut(uri, c, T)
<1> DEFINE V == Parsed(T)
           n == Len(uri)
           l == uri[n]
           path == WithoutHost(uri)
           m == Len(path)
           whole == uri \o c
           d == CutAtTheEnd(c)
           p == SubSeq(path, 1, m - 1)
<1>1. /\ n \in Nat /\ path \in Seq(T) /\ m \in Nat
      /\ path = uri \/ (n > 1 /\ path = SubSeq(uri, 3, n))
    <2>1. n \in Nat /\ path \in Seq(T) /\ (path = uri \/ (n > 1 /\ path = SubSeq(uri, 3, n)))
        BY HostTaken
    <2> HIDE DEF path
    <2> QED
        BY <2>1
<1>2. m > 1
    <2>1. Len(CutAtTheEnd(path)) = m
        BY <1>1, CutTokens
    <2> QED
        BY <2>1 DEF urlparse
<1>3. n > 1 /\ path[m] = l
    BY <1>1, <1>2
<1>4. WithoutHost(whole) = path \o c
    <2>1. Len(whole) \in Nat /\ Len(whole) > 1 /\ whole[1] = uri[1]
        BY <1>3
    <2>2. CASE uri[1] = ""
        <3>1. path = SubSeq(uri, 3, n) /\ WithoutHost(whole) = SubSeq(whole, 3, Len(whole))
            BY <1>3, <2>1, <2>2, Zenon DEF WithoutHost
        <3>2. SubSeq(whole, 3, Len(whole)) = SubSeq(uri, 3, n) \o c
            BY <1>3
        <3> QED
            BY <3>1, <3>2
    <2>3. CASE uri[1] # ""
        BY <2>1, <2>3, Zenon DEF WithoutHost
    <2> QED
        BY <2>2, <2>3
<1> HIDE DEF path
<1>5. p \in Seq(T) /\ Len(p) = m - 1 /\ \A i \in 1..(m - 1) : p[i] = path[i]
    BY <1>1, <1>2
<1>6. d \in Seq(V) /\ Len(d) = Len(c) /\ Len(c) \in Nat /\ Len(c) # 0
    BY CutTokens
<1>9. l \in T /\ l \in V /\ Cut(l) \in V /\ p \in Seq(V) /\ path \in Seq(V)
    <2>1. l \in T
        BY <1>3
    <2> QED
        BY <1>1, <1>5, <2>1, SeqMonotonic DEF Parsed
<1> HIDE DEF V, p, l, n, m
<1>7. CutAtTheEnd(path) = p \o <<Cut(l)>>
    <2> DEFINE x == CutAtTheEnd(path)
               y == p \o <<Cut(l)>>
    <2>1. /\ x \in Seq(V) /\ Len(x) = m
          /\ \A i \in 1..m : x[i] = IF i = m THEN Cut(path[i]) ELSE path[i]
        BY <1>1, CutTokens DEF V, m
    <2>2. /\ y \in Seq(V) /\ Len(y) = m /\ y[m] = Cut(l)
          /\ \A i \in 1..(m - 1) : y[i] = path[i]
        <3>1. y \in Seq(V)
            BY <1>9
        <3>2. Len(p) + 1 = m
            BY <1>1, <1>5
        <3>3. Len(y) = Len(p) + 1 /\ y[Len(p) + 1] = Cut(l) /\ \A i \in 1..Len(p) : y[i] = p[i]
            BY <1>5, PutBehind
        <3> HIDE DEF y
        <3> QED
            BY <1>5, <3>1, <3>2, <3>3
    <2> HIDE DEF x, y
    <2>3. \A i \in 1..m : x[i] = y[i]
        BY <1>1, <1>3, <2>1, <2>2
    <2>4. x = y
        BY <2>1, <2>2, <2>3, SeqEqual
    <2> QED
        BY <2>4 DEF x, y
<1>8. CutAtTheEnd(path \o c) = (p \o <<l>>) \o d
    <2> DEFINE x == CutAtTheEnd(path \o c)
               y == path \o d
               z == p \o <<l>>
               k == Len(c)
    <2>1. /\ path \o c \in Seq(T) /\ Len(path \o c) = m + k /\ k \in Nat /\ k # 0
          /\ \A i \in 1..(m + k) : (path \o c)[i] = IF i <= m THEN path[i] ELSE c[i - m]
        BY <1>1, <1>6 DEF m
    <2>2. /\ x \in Seq(V) /\ Len(x) = m + k
          /\ \A i \in 1..(m + k) :
                x[i] = IF i = m + k THEN Cut((path \o c)[i]) ELSE (path \o c)[i]
        BY <2>1, CutTokens DEF V
    <2>3. \A i \in 1..k : d[i] = IF i = k THEN Cut(c[i]) ELSE c[i]
        BY CutTokens
    <2>4. /\ y \in Seq(V) /\ Len(y) = m + k
          /\ \A i \in 1..(m + k) : y[i] = IF i <= m THEN path[i] ELSE d[i - m]
        <3>1. /\ y \in Seq(V) /\ Len(y) = Len(path) + Len(d)
              /\ \A i \in 1..(Len(path) + Len(d)) : y[i] = IF i <= Len(path) THEN path[i] ELSE d[i - Len(path)]
            BY <1>6, <1>9, ConcatProperties
        <3> HIDE DEF y, d
        <3> QED
            BY <1>6, <3>1 DEF m
    <2> HIDE DEF x, y, d, k
    <2>5. \A i \in 1..(m + k) : x[i] = y[i]
        <3> SUFFICES ASSUME NEW i \in 1..(m + k)
                     PROVE  x[i] = y[i]
            OBVIOUS
        <3>1. CASE i <= m
            <4>1. i # m + k
                BY <1>1, <2>1, <3>1
            <4> QED
                BY <2>1, <2>2, <2>4, <3>1, <4>1
        <3>2. CASE ~ (i <= m)
            <4>1. i - m \in 1..k /\ (i - m = k <=> i = m + k)
                BY <1>1, <2>1, <3>2
            <4> QED
                BY <2>1, <2>2, <2>3, <2>4, <3>2, <4>1
        <3> QED
            BY <3>1, <3>2
    <2>6. x = y
        BY <2>2, <2>4, <2>5, SeqEqual
    <2>7. z \in Seq(V) /\ Len(z) = m /\ \A i \in 1..m : path[i] = z[i]
        BY <1>1, <1>2, <1>3, <1>5, <1>9
    <2>8. Len(path) = m
        BY DEF m
    <2> HIDE DEF z
    <2>9. path = z
        BY <1>9, <2>7, <2>8, SeqEqual
    <2> QED
        BY <2>6, <2>9 DEF x, y, z
<1> QED
    BY <1>4, <1>5, <1>6, <1>7, <1>8, Zenon DEF Uncut, urlparse, path, V, l, n

(* A parse files every AI where it belongs. *)
LEMMA ParseType ==
    ASSUME NEW T, NEW p \in Seq(T), HasKey(p)
    PROVE  /\ ParsedPath(p).primary_ai \in PRIMARY_AIS
           /\ DOMAIN ParsedPath(p).qualifiers \subseteq QUALIFIER_AIS
           /\ DOMAIN ParsedPath(p).attributes \subseteq PRIMARY_AIS \cup ATTRIBUTE_AIS
           /\ \A seg \in Range(ParsedPath(p).unknown_ais) : seg[1] \in Number
<1> DEFINE segs == Segments(p)
           unknown == {seg \in Range(segs) : ~ is_known(seg[1])}
<1>1. ParsedPath(p).primary_ai \in PRIMARY_AIS
    BY PrimaryIndexFirst DEF ParsedPath, Classified
<1>2. /\ DOMAIN ParsedPath(p).qualifiers \subseteq QUALIFIER_AIS
      /\ DOMAIN ParsedPath(p).attributes \subseteq PRIMARY_AIS \cup ATTRIBUTE_AIS
    BY DEF ParsedPath, Classified, ByAI
<1>3. ASSUME NEW seg \in Range(ParsedPath(p).unknown_ais)
      PROVE  seg[1] \in Number
    <2>1. ParsedPath(p).unknown_ais = Only(segs, unknown)
        BY DEF ParsedPath, Classified
    <2>2. segs \in Seq(Pairs(Translated(T)))
        BY SegmentsType
    <2> HIDE DEF segs, unknown
    <2>3. seg \in Range(segs)
        BY <2>1, <2>2, OnlyRange
    <2>4. Range(segs) \subseteq Pairs(Translated(T))
        BY <2>2, RangeOfSeq
    <2> QED
        BY <2>3, <2>4 DEF Pairs
<1> QED
    BY <1>1, <1>2, <1>3

(* A path that carries pairs of a number and a value is read as them. *)
LEMMA PrintedReads ==
    ASSUME NEW V, NEW pairs \in Seq(Pairs(V))
    PROVE  /\ Printed(pairs) \in Seq(V \cup Number)
           /\ Segments(Printed(pairs)) = pairs
<1> DEFINE n == Len(pairs)
           p == Printed(pairs)
           W == V \cup Number
<1>1. /\ n \in Nat /\ pairs = [k \in 1..n |-> pairs[k]]
      /\ \A k \in 1..n : pairs[k] \in Pairs(V)
    OBVIOUS
<1> HIDE DEF n
<1>2. ASSUME NEW k \in 1..n
      PROVE  /\ pairs[k] = <<pairs[k][1], pairs[k][2]>>
             /\ pairs[k][1] \in Number /\ pairs[k][2] \in V /\ pairs[k][2] # ""
    BY <1>1, PairParts
<1>3. ASSUME NEW i \in 1..(2*n)
      PROVE  /\ (i + 1) \div 2 \in 1..n
             /\ p[i] = pairs[(i + 1) \div 2][IF i % 2 = 1 THEN 1 ELSE 2]
             /\ p[i] \in W
    <2> DEFINE k == (i + 1) \div 2
    <2>1. k \in 1..n
        BY <1>1
    <2>2. p[i] = pairs[k][IF i % 2 = 1 THEN 1 ELSE 2]
        BY DEF Printed, n
    <2> HIDE DEF k, p
    <2>3. p[i] \in W
        BY <1>2, <2>1, <2>2
    <2> QED
        BY <2>1, <2>2, <2>3 DEF k
<1>4. p = [i \in 1..(2*n) |-> p[i]]
    BY DEF Printed, n
<1> HIDE DEF p, W
<1>5. p \in Seq(W) /\ Len(p) = 2*n
    <2> DEFINE m == 2*n
    <2>1. m \in Nat
        BY <1>1
    <2>2. p = [i \in 1..m |-> p[i]] /\ \A i \in 1..m : p[i] \in W
        BY <1>3, <1>4
    <2> HIDE DEF m
    <2>3. p \in Seq(W) /\ Len(p) = m
        BY <2>1, <2>2
    <2> QED
        BY <2>3 DEF m
<1>6. ASSUME NEW k \in 1..n
      PROVE  p[2*k - 1] = pairs[k][1] /\ p[2*k] = pairs[k][2]
    <2>1. 2*k - 1 \in 1..(2*n) /\ 2*k \in 1..(2*n)
        BY <1>1
    <2>2. (2*k - 1) % 2 = 1 /\ ((2*k - 1) + 1) \div 2 = k
        BY <1>1
    <2>3. (2*k) % 2 = 0 /\ (2*k + 1) \div 2 = k
        BY <1>1
    <2> QED
        BY <1>3, <2>1, <2>2, <2>3
<1>7. PairsUp(p, n)
    BY <1>2, <1>5, <1>6, Zenon DEF PairsUp
<1>8. normalise_alpha(p) = p
    <2>1. ASSUME NEW i \in 1..(2*n), i % 2 = 1
          PROVE  Lower(p[i]) \notin DOMAIN NAME_TO_AI
        <3>1. p[i] \in Number
            BY <1>2, <1>3, <2>1
        <3> QED
            BY <3>1, NumbersAssumption
    <2>2. DOMAIN p = 1..(2*n)
        BY <1>4
    <2> QED
        BY <1>4, <2>1, <2>2 DEF normalise_alpha
<1>9. FindAll(p) = [k \in 1..n |-> <<p[2*k - 1], p[2*k]>>]
    BY <1>1, <1>5, <1>7, FindAllAligned
<1>10. FindAll(p) = [k \in 1..n |-> pairs[k]]
    BY <1>2, <1>6, <1>9, Zenon
<1> QED
    BY <1>1, <1>5, <1>8, <1>10 DEF Segments, p, W

-------------------------------------------------------------------------------
(* A printed path is all path for urlparse, when there is nothing to cut at *)
(* its end.                                                                 *)
LEMMA PrintedIsLeft ==
    ASSUME NEW V, NEW pairs \in Seq(Pairs(V)), Len(pairs) # 0,
           Cut(Printed(pairs)[Len(Printed(pairs))]) = Printed(pairs)[Len(Printed(pairs))]
    PROVE  urlparse(Printed(pairs)) = Printed(pairs)
<1> DEFINE p == Printed(pairs)
           W == V \cup Number
<1>1. p \in Seq(W)
    BY PrintedReads
<1>2. p[1] # ""
    <2>1. Len(pairs) \in Nat /\ 1 \in 1..Len(pairs) /\ 1 \in 1..(2 * Len(pairs))
        OBVIOUS
    <2>2. p[1] = pairs[1][1]
        BY <2>1 DEF Printed
    <2>3. pairs[1] \in Pairs(V)
        BY <2>1
    <2>4. pairs[1][1] \in Number
        BY <2>3, PairParts
    <2> HIDE DEF p
    <2> QED
        BY <2>2, <2>4, NumbersAssumption
<1> HIDE DEF p, W
<1> QED
    BY <1>1, <1>2, UrlparseLeaves DEF p

(* The tables. *)

(* No qualifier is in another category, the order of a canonical link has a *)
(* place for every AI of the tables, and none of them is empty.             *)
LEMMA Tables ==
    /\ QUALIFIER_AIS \cap (PRIMARY_AIS \cup ATTRIBUTE_AIS) = {}
    /\ QUALIFIER_AIS \cup PRIMARY_AIS \cup ATTRIBUTE_AIS \subseteq Range(SORTED_AIS)
    /\ "" \notin QUALIFIER_AIS \cup PRIMARY_AIS \cup ATTRIBUTE_AIS
<1>1. QUALIFIER_AIS = {"22", "10", "21", "235", "254", "8011"}
    BY DEF QUALIFIER_AIS, QUALIFIERS, Range
<1>2. PRIMARY_AIS = {"00", "01", "253", "255", "401", "402", "414", "417", "8003",
                     "8004", "8006", "8010", "8013", "8017", "8018"}
    BY DEF PRIMARY_AIS, PRIMARIES, Range
<1>3. ATTRIBUTE_AIS = {"17", "11", "12", "13", "15", "16", "240", "241", "242", "243", "250",
                       "251", "400", "403", "4300", "4321", "710", "711", "712", "713", "714",
                       "715", "723", "7003", "7020", "7021", "7022", "7040", "8001", "8002",
                       "8005", "8007", "8008", "8019", "8020", "8110", "8200", "90"}
    BY DEF ATTRIBUTE_AIS, ATTRIBUTES, Range
<1>4. QUALIFIER_AIS \cap PRIMARY_AIS = {}
    BY <1>1, <1>2
<1>5. QUALIFIER_AIS \subseteq Range(SORTED_AIS)
    BY <1>1 DEF Range, SORTED_AIS
<1>6. PRIMARY_AIS \subseteq Range(SORTED_AIS)
    BY <1>2 DEF Range, SORTED_AIS
<1>7. ATTRIBUTE_AIS \subseteq Range(SORTED_AIS)
    BY <1>3 DEF Range, SORTED_AIS
<1>8. "" \notin QUALIFIER_AIS \cup PRIMARY_AIS \cup ATTRIBUTE_AIS
    BY <1>1, <1>2, <1>3
<1>9. QUALIFIER_AIS \cap ATTRIBUTE_AIS = {}
    BY <1>1, <1>3
<1> QED
    BY <1>4, <1>5, <1>6, <1>7, <1>8, <1>9

(* sorted() keeps all the AIs of the tables that it is given. *)
LEMMA SortedKeeps ==
    ASSUME NEW ais \in SUBSET (QUALIFIER_AIS \cup PRIMARY_AIS \cup ATTRIBUTE_AIS)
    PROVE  sorted(ais) \in Seq(ais) /\ Range(sorted(ais)) = ais
<1> DEFINE all == Range(SORTED_AIS)
<1>1. SORTED_AIS \in Seq(all)
    BY DEF SORTED_AIS, Range
<1> HIDE DEF all
<1>2. sorted(ais) \in Seq(all) /\ Range(sorted(ais)) = Range(SORTED_AIS) \cap ais
    BY <1>1, OnlyRange DEF sorted
<1>3. Range(sorted(ais)) = ais
    BY <1>2, Tables
<1> QED
    BY <1>2, <1>3, SeqOfRange

-------------------------------------------------------------------------------
(* The canonical form. *)

(* ByAI has a value for the AIs of a category that stand anywhere but at the *)
(* routing key, and it is one that stands with the AI.                       *)
ReadsInto(dict, segs, key, ais) ==
    /\ dict = [ai \in DOMAIN dict |-> dict[ai]]
    /\ DOMAIN dict = {ai \in ais : \E i \in 1..Len(segs) : i # key /\ segs[i][1] = ai}
    /\ \A ai \in DOMAIN dict : \E i \in 1..Len(segs) :
          i # key /\ segs[i][1] = ai /\ segs[i][2] = dict[ai]

(* What ByAI computes is such a dictionary. *)
LEMMA ByAIValues ==
    ASSUME NEW S, NEW segs \in Seq(S), NEW key, NEW ais
    PROVE  ReadsInto(ByAI(segs, key, ais), segs, key, ais)
<1> DEFINE of(ai) == {i \in DOMAIN segs \ {key} : segs[i][1] = ai}
           found == {ai \in ais : of(ai) # {}}
           dict == [ai \in found |-> segs[Max(of(ai))][2]]
<1>1. ByAI(segs, key, ais) = dict
    BY DEF ByAI
<1>2. DOMAIN segs = 1..Len(segs) /\ Len(segs) \in Nat
    OBVIOUS
<1>3. ASSUME NEW ai, of(ai) # {}
      PROVE  Max(of(ai)) \in of(ai)
    <2>1. of(ai) \in SUBSET (1..Len(segs))
        BY <1>2
    <2> HIDE DEF of
    <2> QED
        BY <1>2, <1>3, <2>1, GreatestExists
<1>4. \A ai : of(ai) # {} <=> \E i \in 1..Len(segs) : i # key /\ segs[i][1] = ai
    BY <1>2
<1>5. \A ai \in found : \E i \in 1..Len(segs) :
          i # key /\ segs[i][1] = ai /\ segs[i][2] = dict[ai]
    <2> SUFFICES ASSUME NEW ai \in found
                 PROVE  \E i \in 1..Len(segs) :
                            i # key /\ segs[i][1] = ai /\ segs[i][2] = dict[ai]
        OBVIOUS
    <2>1. Max(of(ai)) \in of(ai) /\ dict[ai] = segs[Max(of(ai))][2]
        BY <1>3
    <2> QED
        BY <1>2, <2>1
<1>6. DOMAIN dict = {ai \in ais : \E i \in 1..Len(segs) : i # key /\ segs[i][1] = ai}
    BY <1>4
<1>7. \A ai \in DOMAIN dict : \E i \in 1..Len(segs) :
          i # key /\ segs[i][1] = ai /\ segs[i][2] = dict[ai]
    BY <1>5
<1>8. dict = [ai \in DOMAIN dict |-> dict[ai]]
    OBVIOUS
<1> HIDE DEF dict
<1> QED
    BY <1>1, <1>6, <1>7, <1>8, Zenon DEF ReadsInto

(* The pairs of a canonical link behind its routing key are its qualifiers  *)
(* and its attributes, each of them.                                        *)
PairsOf(values) == {<<ai, values[ai]>> : ai \in DOMAIN values}

(* Valued writes the pairs of a dictionary, all of them when it is given *)
(* all AIs.                                                              *)
LEMMA ValuedPairs ==
    ASSUME NEW values, NEW ais \in Seq(DOMAIN values)
    PROVE  /\ Valued(values, ais) \in Seq(PairsOf(values))
           /\ Range(ais) = DOMAIN values => Range(Valued(values, ais)) = PairsOf(values)
<1>1. /\ DOMAIN ais = 1..Len(ais) /\ Len(ais) \in Nat
      /\ \A i \in 1..Len(ais) : ais[i] \in DOMAIN values
    OBVIOUS
<1>2. Valued(values, ais) = [i \in 1..Len(ais) |-> <<ais[i], values[ais[i]]>>]
    BY <1>1 DEF Valued
<1>3. \A i \in 1..Len(ais) : <<ais[i], values[ais[i]]>> \in PairsOf(values)
    BY <1>1 DEF PairsOf
<1>4. Valued(values, ais) \in Seq(PairsOf(values))
    BY <1>1, <1>2, <1>3
<1>5. ASSUME Range(ais) = DOMAIN values, NEW x \in PairsOf(values)
      PROVE  x \in Range(Valued(values, ais))
    <2>1. PICK ai \in DOMAIN values : x = <<ai, values[ai]>>
        BY DEF PairsOf
    <2>2. PICK i \in 1..Len(ais) : ais[i] = ai
        BY <1>1, <1>5 DEF Range
    <2>3. Valued(values, ais)[i] = x /\ i \in DOMAIN Valued(values, ais)
        BY <1>2, <2>1, <2>2
    <2> QED
        BY <2>3 DEF Range
<1> QED
    BY <1>4, <1>5, RangeOfSeq

(* Behind the key a canonical link has the pairs of its qualifiers and   *)
(* its attributes, and no others.                                        *)
LEMMA CanonicalPairsAre ==
    ASSUME NEW link,
           DOMAIN link.qualifiers \subseteq QUALIFIER_AIS,
           DOMAIN link.attributes \subseteq PRIMARY_AIS \cup ATTRIBUTE_AIS
    PROVE  \E rest \in Seq(PairsOf(link.qualifiers) \cup PairsOf(link.attributes)) :
              /\ CanonicalPairs(link) = <<KeyPair(link)>> \o rest
              /\ Range(rest) = PairsOf(link.qualifiers) \cup PairsOf(link.attributes)
<1> DEFINE Q == link.qualifiers
           A == link.attributes
           ordered == Only(QUALIFIER_ORDER(link.primary_ai), DOMAIN Q)
           others == sorted(DOMAIN Q \ Range(ordered))
           qs == Valued(Q, ordered \o others)
           as == Valued(A, sorted(DOMAIN A))
           both == PairsOf(Q) \cup PairsOf(A)
<1>1. ordered \in Seq(DOMAIN Q) /\ Range(ordered) \subseteq DOMAIN Q
    <2> DEFINE order == QUALIFIER_ORDER(link.primary_ai)
               T == {"22", "10", "21", "254", "8011"}
    <2>1. order \in Seq(T)
        <3>1. /\ <<"22", "10", "21">> \in Seq(T) /\ <<"254">> \in Seq(T)
              /\ <<"21">> \in Seq(T) /\ <<"8011">> \in Seq(T) /\ <<>> \in Seq(T)
            OBVIOUS
        <3> HIDE DEF T
        <3> QED
            BY <3>1 DEF QUALIFIER_ORDER
    <2> HIDE DEF order, T
    <2>2. Only(order, DOMAIN Q) \in Seq(T) /\ Range(Only(order, DOMAIN Q)) \subseteq DOMAIN Q
        BY <2>1, OnlyRange
    <2> QED
        BY <2>2, SeqOfRange, SeqMonotonic DEF order
<1>2. others \in Seq(DOMAIN Q) /\ Range(others) = DOMAIN Q \ Range(ordered)
    <2> DEFINE left == DOMAIN Q \ Range(ordered)
    <2>1. left \in SUBSET (QUALIFIER_AIS \cup PRIMARY_AIS \cup ATTRIBUTE_AIS) /\ left \subseteq DOMAIN Q
        OBVIOUS
    <2> HIDE DEF left
    <2>2. sorted(left) \in Seq(left) /\ Range(sorted(left)) = left
        BY <2>1, SortedKeeps
    <2> QED
        BY <2>1, <2>2, SeqMonotonic DEF left
<1>3. sorted(DOMAIN A) \in Seq(DOMAIN A) /\ Range(sorted(DOMAIN A)) = DOMAIN A
    BY SortedKeeps
<1> HIDE DEF ordered, others, Q, A
<1>4. ordered \o others \in Seq(DOMAIN Q) /\ Range(ordered \o others) = DOMAIN Q
    <2> DEFINE D == DOMAIN Q
    <2>1. ordered \in Seq(D) /\ others \in Seq(D)
        BY <1>1, <1>2
    <2> HIDE DEF D
    <2>2. ordered \o others \in Seq(D)
        BY <2>1
    <2>3. Range(ordered \o others) = Range(ordered) \cup Range(others)
        BY <2>1, RangeConcatenation
    <2> QED
        BY <1>1, <1>2, <2>2, <2>3 DEF D
<1>5. qs \in Seq(PairsOf(Q)) /\ Range(qs) = PairsOf(Q)
    BY <1>4, ValuedPairs
<1>6. as \in Seq(PairsOf(A)) /\ Range(as) = PairsOf(A)
    BY <1>3, ValuedPairs
<1>7. CanonicalPairs(link) = <<KeyPair(link)>> \o qs \o as
    BY DEF CanonicalPairs, ordered, others, Q, A
<1> HIDE DEF qs, as
<1>8. qs \in Seq(both) /\ as \in Seq(both)
    BY <1>5, <1>6, SeqMonotonic
<1> HIDE DEF both
<1>9. qs \o as \in Seq(both) /\ Range(qs \o as) = both
    <2>1. Range(qs \o as) = Range(qs) \cup Range(as)
        BY <1>8, RangeConcatenation
    <2>2. qs \o as \in Seq(both)
        BY <1>8
    <2> QED
        BY <1>5, <1>6, <2>1, <2>2 DEF both
<1>10. CanonicalPairs(link) = <<KeyPair(link)>> \o (qs \o as)
    <2> DEFINE first == <<KeyPair(link)>>
               all == both \cup {KeyPair(link)}
    <2>1. first \in Seq(all)
        OBVIOUS
    <2>2. both \subseteq all
        OBVIOUS
    <2> HIDE DEF first, all, both
    <2>3. qs \in Seq(all) /\ as \in Seq(all)
        BY <1>8, <2>2, SeqMonotonic
    <2>4. \A a, b, c \in Seq(all) : (a \o b) \o c = a \o (b \o c)
        BY ConcatAssociative
    <2>5. (first \o qs) \o as = first \o (qs \o as)
        BY <2>1, <2>3, <2>4, Zenon
    <2> QED
        BY <1>7, <2>5 DEF first
<1> QED
    BY <1>9, <1>10 DEF Q, A, both

(* ByAI reads back the values that the pairs of a category carry, when each *)
(* of them is carried, and nothing else.                                    *)
Carries(segs, key, ais, values) ==
    /\ values = [ai \in DOMAIN values |-> values[ai]]
    /\ DOMAIN values \subseteq ais
    /\ \A i \in 1..Len(segs) :
          i # key /\ segs[i][1] \in ais
            => segs[i][1] \in DOMAIN values /\ segs[i][2] = values[segs[i][1]]
    /\ \A ai \in DOMAIN values : \E i \in 1..Len(segs) : i # key /\ segs[i][1] = ai

(* Reading such segments gives the values back. *)
LEMMA ByAIReads ==
    ASSUME NEW S, NEW segs \in Seq(S), NEW key, NEW ais, NEW values,
           Carries(segs, key, ais, values)
    PROVE  ByAI(segs, key, ais) = values
<1> DEFINE dict == ByAI(segs, key, ais)
<1>1. ReadsInto(dict, segs, key, ais)
    BY ByAIValues
<1> HIDE DEF dict
<1> USE DEF ReadsInto, Carries
<1>2. DOMAIN dict = DOMAIN values
    BY <1>1
<1>3. \A ai \in DOMAIN dict : dict[ai] = values[ai]
    <2> SUFFICES ASSUME NEW ai \in DOMAIN dict
                 PROVE  dict[ai] = values[ai]
        OBVIOUS
    <2>1. PICK i \in 1..Len(segs) : i # key /\ segs[i][1] = ai /\ segs[i][2] = dict[ai]
        BY <1>1
    <2>2. ai \in ais
        BY <1>1
    <2> QED
        BY <2>1, <2>2
<1>4. dict = values
    BY <1>1, <1>2, <1>3
<1> QED
    BY <1>4 DEF dict

(* What a parse keeps, by category: values that stand with their AIs.       *)
LEMMA ParseValues ==
    ASSUME NEW T, NEW p \in Seq(T), HasKey(p)
    PROVE  /\ ParsedPath(p).qualifiers = [ai \in DOMAIN ParsedPath(p).qualifiers |-> ParsedPath(p).qualifiers[ai]]
           /\ ParsedPath(p).attributes = [ai \in DOMAIN ParsedPath(p).attributes |-> ParsedPath(p).attributes[ai]]
           /\ <<ParsedPath(p).primary_ai, ParsedPath(p).primary_value>> \in Pairs(Translated(T))
           /\ PairsOf(ParsedPath(p).qualifiers) \subseteq Pairs(Translated(T))
           /\ PairsOf(ParsedPath(p).attributes) \subseteq Pairs(Translated(T))
<1> DEFINE segs == Segments(p)
           key  == PrimaryIndex(p)
           V    == Translated(T)
<1>1. segs \in Seq(Pairs(V))
    BY SegmentsType
<1>2. key \in 1..Len(segs)
    BY PrimaryIndexFirst
<1>3. ParsedPath(p).primary_ai = segs[key][1] /\ ParsedPath(p).primary_value = segs[key][2]
    BY DEF ParsedPath, Classified
<1>4. /\ ParsedPath(p).qualifiers = ByAI(segs, key, QUALIFIER_AIS)
      /\ ParsedPath(p).attributes = ByAI(segs, key, PRIMARY_AIS \cup ATTRIBUTE_AIS)
    BY DEF ParsedPath, Classified
<1> HIDE DEF segs, key, V
<1>5. ASSUME NEW i \in 1..Len(segs)
      PROVE  segs[i] \in Pairs(V) /\ segs[i] = <<segs[i][1], segs[i][2]>>
    <2>1. segs[i] \in Pairs(V)
        BY <1>1
    <2> QED
        BY <2>1, PairParts
<1>6. <<ParsedPath(p).primary_ai, ParsedPath(p).primary_value>> \in Pairs(V)
    BY <1>2, <1>3, <1>5
<1>7. ASSUME NEW ais
      PROVE  /\ ByAI(segs, key, ais) = [ai \in DOMAIN ByAI(segs, key, ais) |-> ByAI(segs, key, ais)[ai]]
             /\ PairsOf(ByAI(segs, key, ais)) \subseteq Pairs(V)
    <2> DEFINE dict == ByAI(segs, key, ais)
    <2>1. ReadsInto(dict, segs, key, ais)
        BY <1>1, ByAIValues
    <2> HIDE DEF dict
    <2>2. ASSUME NEW pair \in PairsOf(dict)
          PROVE  pair \in Pairs(V)
        <3>1. PICK ai \in DOMAIN dict : pair = <<ai, dict[ai]>>
            BY DEF PairsOf
        <3>2. PICK i \in 1..Len(segs) : segs[i][1] = ai /\ segs[i][2] = dict[ai]
            BY <2>1 DEF ReadsInto
        <3> QED
            BY <1>5, <3>1, <3>2
    <2> QED
        BY <2>1, <2>2 DEF dict, ReadsInto
<1> QED
    BY <1>4, <1>6, <1>7 DEF V

(* The pairs of a canonical form are pairs of an AI and a value: padding a   *)
(* value never leaves it empty.                                             *)
Padded(V) == V \cup {Pad(v) : v \in V}

(* So the pairs of a canonical link are segments themselves. *)
LEMMA CanonicalPairsType ==
    ASSUME NEW T, NEW p \in Seq(T), HasKey(p),
           \A v \in Translated(T) : v # "" => Pad(v) # ""
    PROVE  CanonicalPairs(ParsedPath(p)) \in Seq(Pairs(Padded(Translated(T))))
<1> DEFINE link == ParsedPath(p)
           V == Translated(T)
           W == Padded(V)
<1>1. Pairs(V) \subseteq Pairs(W)
    BY DEF Pairs, Padded
<1>2. KeyPair(link) \in Pairs(W)
    <2>1. <<link.primary_ai, link.primary_value>> \in Pairs(V)
        BY ParseValues
    <2> HIDE DEF link, V
    <2>2. link.primary_ai \in Number /\ link.primary_value \in V /\ link.primary_value # ""
        BY <2>1 DEF Pairs
    <2>3. Pad(link.primary_value) \in W /\ Pad(link.primary_value) # "" /\ link.primary_value \in W
        BY <2>2 DEF Padded, V
    <2> QED
        BY <2>2, <2>3 DEF KeyPair, Pairs
<1>3. PICK rest \in Seq(PairsOf(link.qualifiers) \cup PairsOf(link.attributes)) :
          CanonicalPairs(link) = <<KeyPair(link)>> \o rest
    BY ParseType, CanonicalPairsAre
<1>4. PairsOf(link.qualifiers) \cup PairsOf(link.attributes) \subseteq Pairs(V)
    BY ParseValues
<1> DEFINE all == Pairs(W)
<1>5. rest \in Seq(all)
    BY <1>1, <1>3, <1>4, SeqMonotonic
<1> DEFINE key == KeyPair(link)
<1>6. key \in all
    BY <1>2
<1> HIDE DEF key, all
<1>7. <<key>> \o rest \in Seq(all)
    BY <1>5, <1>6, Prefixed
<1> QED
    BY <1>3, <1>7 DEF all, key

(* A path with the pairs of a link's canonical form is parsed as that link, *)
(* its key padded and without its unknown AIs.                              *)
LEMMA CanonicalReads ==
    ASSUME NEW link, NEW T, NEW q \in Seq(T),
           Segments(q) = CanonicalPairs(link),
           link.primary_ai \in PRIMARY_AIS,
           link.qualifiers = [ai \in DOMAIN link.qualifiers |-> link.qualifiers[ai]],
           link.attributes = [ai \in DOMAIN link.attributes |-> link.attributes[ai]],
           DOMAIN link.qualifiers \subseteq QUALIFIER_AIS,
           DOMAIN link.attributes \subseteq PRIMARY_AIS \cup ATTRIBUTE_AIS
    PROVE  /\ HasKey(q)
           /\ ParsedPath(q) = [primary_ai    |-> link.primary_ai,
                          primary_value |-> KeyPair(link)[2],
                          qualifiers    |-> link.qualifiers,
                          attributes    |-> link.attributes,
                          unknown_ais   |-> <<>>]
<1> DEFINE Q == link.qualifiers
           A == link.attributes
           both == PairsOf(Q) \cup PairsOf(A)
           segs == Segments(q)
           S == Pairs(Translated(T))
<1>1. PICK rest \in Seq(both) : segs = <<KeyPair(link)>> \o rest /\ Range(rest) = both
    BY CanonicalPairsAre
<1>2. segs \in Seq(S)
    BY SegmentsType
<1> HIDE DEF segs, S, both
<1>3. /\ Len(rest) \in Nat /\ Len(segs) = Len(rest) + 1 /\ segs[1] = KeyPair(link)
      /\ \A i \in 1..Len(rest) : segs[i + 1] = rest[i]
      /\ DOMAIN rest = 1..Len(rest)
    BY <1>1
<1>4. \A i \in 1..Len(segs) : i # 1 => segs[i] \in both
    <2> SUFFICES ASSUME NEW i \in 1..Len(segs), i # 1
                 PROVE  segs[i] \in both
        OBVIOUS
    <2>1. i - 1 \in 1..Len(rest) /\ i = (i - 1) + 1
        BY <1>3
    <2>2. segs[i] = rest[i - 1]
        BY <1>3, <2>1
    <2> QED
        BY <2>1, <2>2
<1>5. \A pair \in both : \E i \in 1..Len(segs) : i # 1 /\ segs[i] = pair
    <2> SUFFICES ASSUME NEW pair \in both
                 PROVE  \E i \in 1..Len(segs) : i # 1 /\ segs[i] = pair
        OBVIOUS
    <2>1. PICK j \in 1..Len(rest) : rest[j] = pair
        BY <1>1, <1>3 DEF Range
    <2>2. j + 1 \in 1..Len(segs) /\ j + 1 # 1 /\ segs[j + 1] = pair
        BY <1>3, <2>1
    <2> QED
        BY <2>2
<1>6. KeyPair(link) = <<link.primary_ai, KeyPair(link)[2]>>
    BY DEF KeyPair
<1>7. HasKey(q) /\ PrimaryIndex(q) = 1
    <2>1. 1 \in 1..Len(segs) /\ segs[1][1] \in PRIMARY_AIS
        BY <1>3, <1>6
    <2>2. HasKey(q)
        BY <2>1, PrimaryIndexFirst DEF segs
    <2>3. PrimaryIndex(q) \in 1..Len(segs) /\ PrimaryIndex(q) <= 1
        BY <2>1, <2>2, PrimaryIndexFirst DEF segs
    <2>4. Len(segs) \in Nat
        BY <1>2
    <2> QED
        BY <2>2, <2>3, <2>4
<1>8. /\ \A pair \in PairsOf(Q) :
            pair[1] \in QUALIFIER_AIS /\ pair[1] \in DOMAIN Q /\ pair[2] = Q[pair[1]]
      /\ \A pair \in PairsOf(A) :
            /\ pair[1] \in PRIMARY_AIS \cup ATTRIBUTE_AIS
            /\ pair[1] \in DOMAIN A /\ pair[2] = A[pair[1]]
    BY DEF PairsOf
<1>9. /\ \A ai \in DOMAIN Q : <<ai, Q[ai]>> \in both
      /\ \A ai \in DOMAIN A : <<ai, A[ai]>> \in both
    BY DEF PairsOf, both
<1> HIDE DEF Q, A
<1>10. ByAI(segs, 1, QUALIFIER_AIS) = Q
    <2>1. \A i \in 1..Len(segs) : i # 1 /\ segs[i][1] \in QUALIFIER_AIS
             => segs[i][1] \in DOMAIN Q /\ segs[i][2] = Q[segs[i][1]]
        BY <1>4, <1>8, Tables DEF both
    <2>2. ASSUME NEW ai \in DOMAIN Q
          PROVE  \E i \in 1..Len(segs) : i # 1 /\ segs[i][1] = ai
        <3>1. PICK i \in 1..Len(segs) : i # 1 /\ segs[i] = <<ai, Q[ai]>>
            BY <1>5, <1>9
        <3> QED
            BY <3>1
    <2>3. Q = [ai \in DOMAIN Q |-> Q[ai]] /\ DOMAIN Q \subseteq QUALIFIER_AIS
        BY DEF Q
    <2>4. Carries(segs, 1, QUALIFIER_AIS, Q)
        BY <2>1, <2>2, <2>3 DEF Carries
    <2> QED
        BY <1>2, <2>4, ByAIReads
<1>11. ByAI(segs, 1, PRIMARY_AIS \cup ATTRIBUTE_AIS) = A
    <2> DEFINE ais == PRIMARY_AIS \cup ATTRIBUTE_AIS
    <2>1. \A i \in 1..Len(segs) : i # 1 /\ segs[i][1] \in ais
             => segs[i][1] \in DOMAIN A /\ segs[i][2] = A[segs[i][1]]
        BY <1>4, <1>8, Tables DEF both
    <2>2. ASSUME NEW ai \in DOMAIN A
          PROVE  \E i \in 1..Len(segs) : i # 1 /\ segs[i][1] = ai
        <3>1. PICK i \in 1..Len(segs) : i # 1 /\ segs[i] = <<ai, A[ai]>>
            BY <1>5, <1>9
        <3> QED
            BY <3>1
    <2>3. A = [ai \in DOMAIN A |-> A[ai]] /\ DOMAIN A \subseteq ais
        BY DEF A
    <2> HIDE DEF ais
    <2>4. Carries(segs, 1, ais, A)
        BY <2>1, <2>2, <2>3 DEF Carries
    <2>5. ByAI(segs, 1, ais) = A
        BY <1>2, <2>4, ByAIReads
    <2> QED
        BY <2>5 DEF ais
<1>12. Only(segs, {seg \in Range(segs) : ~ is_known(seg[1])}) = <<>>
    <2> DEFINE unknown == {seg \in Range(segs) : ~ is_known(seg[1])}
               left == Only(segs, unknown)
    <2>1. DOMAIN segs = 1..Len(segs)
        BY <1>2
    <2>2. \A i \in 1..Len(segs) : is_known(segs[i][1])
        BY <1>3, <1>4, <1>6, <1>8 DEF is_known, both
    <2>3. unknown = {}
        BY <2>1, <2>2 DEF Range
    <2> HIDE DEF unknown
    <2>4. left \in Seq(S) /\ Range(left) = Range(segs) \cap unknown
        BY <1>2, OnlyRange
    <2> HIDE DEF left
    <2>5. Range(left) = {}
        BY <2>3, <2>4
    <2>6. left = <<>>
        BY <2>4, <2>5, RangelessIsEmpty
    <2> QED
        BY <2>6 DEF left, unknown
<1> QED
    BY <1>3, <1>6, <1>7, <1>10, <1>11, <1>12 DEF ParsedPath, Classified, segs, Q, A

(* The order of the pairs is nothing to what is read, when no AI stands     *)
(* twice: pairs in another order, the routing key where it has moved to,    *)
(* have the same value for every AI.                                        *)
Distinct(segs) ==
    \A i, j \in 1..Len(segs) : segs[i][1] = segs[j][1] => i = j

Reordered(perm, segs, order, moved, key) ==
    /\ order \in Bijection(1..Len(segs), 1..Len(segs))
    /\ Len(perm) = Len(segs)
    /\ \A i \in 1..Len(segs) : perm[i] = segs[order[i]]
    /\ moved \in 1..Len(segs) /\ order[moved] = key
    /\ Distinct(segs)

(* ByAI reads the same from both. *)
LEMMA ReorderedReads ==
    ASSUME NEW S, NEW segs \in Seq(S), NEW perm \in Seq(S), NEW order,
           NEW moved, NEW key, Reordered(perm, segs, order, moved, key), NEW ais
    PROVE  ByAI(perm, moved, ais) = ByAI(segs, key, ais)
<1> DEFINE values == ByAI(segs, key, ais)
           n      == Len(segs)
<1>1. ReadsInto(values, segs, key, ais)
    BY ByAIValues
<1>2. /\ \A i \in 1..n : order[i] \in 1..n
      /\ \A i, j \in 1..n : order[i] = order[j] => i = j
      /\ \A j \in 1..n : \E i \in 1..n : order[i] = j
      /\ Len(perm) = n /\ \A i \in 1..n : perm[i] = segs[order[i]]
      /\ moved \in 1..n /\ order[moved] = key
    BY DEF Reordered, Bijection, Injection, Surjection, IsInjective
<1>3. \A i, j \in 1..n : segs[i][1] = segs[j][1] => i = j
    BY DEF Reordered, Distinct
<1> HIDE DEF values, n
<1>4. Carries(perm, moved, ais, values)
    <2>1. ASSUME NEW i \in 1..n, i # moved, perm[i][1] \in ais
          PROVE  perm[i][1] \in DOMAIN values /\ perm[i][2] = values[perm[i][1]]
        <3>1. order[i] \in 1..n /\ order[i] # key /\ perm[i] = segs[order[i]]
            BY <1>2, <2>1 DEF n
        <3>2. perm[i][1] \in DOMAIN values
            BY <1>1, <2>1, <3>1 DEF ReadsInto, n
        <3>3. PICK j \in 1..n : segs[j][1] = perm[i][1] /\ segs[j][2] = values[perm[i][1]]
            BY <1>1, <3>2 DEF ReadsInto, n
        <3>4. j = order[i]
            BY <1>3, <3>1, <3>3
        <3> QED
            BY <3>1, <3>2, <3>3, <3>4
    <2>2. ASSUME NEW ai \in DOMAIN values
          PROVE  \E i \in 1..n : i # moved /\ perm[i][1] = ai
        <3>1. PICK j \in 1..n : j # key /\ segs[j][1] = ai
            BY <1>1 DEF ReadsInto, n
        <3>2. PICK i \in 1..n : order[i] = j
            BY <1>2
        <3> QED
            BY <1>2, <3>1, <3>2
    <2>3. values = [ai \in DOMAIN values |-> values[ai]] /\ DOMAIN values \subseteq ais
        BY <1>1 DEF ReadsInto
    <2> QED
        BY <1>2, <2>1, <2>2, <2>3 DEF Carries, n
<1>5. ByAI(perm, moved, ais) = values
    BY <1>4, ByAIReads
<1> QED
    BY <1>5 DEF values

(* The pairs of a canonical link have AIs of the tables, and values that     *)
(* the link has; its key needs no padding when it is accepted.               *)
LEMMA CanonicalPairsKnown ==
    ASSUME NEW T, NEW p \in Seq(T), HasKey(p),
           KeyPair(ParsedPath(p)) = <<ParsedPath(p).primary_ai, ParsedPath(p).primary_value>>
    PROVE  LET pairs == CanonicalPairs(ParsedPath(p))
           IN  /\ pairs \in Seq(Pairs(Translated(T)))
               /\ Len(pairs) \in Nat \ {0}
               /\ \A i \in 1..Len(pairs) :
                     /\ pairs[i][1] \in PRIMARY_AIS \cup QUALIFIER_AIS \cup ATTRIBUTE_AIS
                     /\ pairs[i][2] \in Translated(T)
<1> DEFINE link == ParsedPath(p)
           pairs == CanonicalPairs(link)
           key == KeyPair(link)
           AIs == PRIMARY_AIS \cup QUALIFIER_AIS \cup ATTRIBUTE_AIS
           S == Pairs(Translated(T))
           both == PairsOf(link.qualifiers) \cup PairsOf(link.attributes)
           all == {pair \in S : pair[1] \in AIs}
<1>1. /\ link.primary_ai \in PRIMARY_AIS
      /\ DOMAIN link.qualifiers \subseteq QUALIFIER_AIS
      /\ DOMAIN link.attributes \subseteq PRIMARY_AIS \cup ATTRIBUTE_AIS
    BY ParseType
<1>2. PICK rest \in Seq(both) : pairs = <<key>> \o rest
    BY <1>1, CanonicalPairsAre
<1>3. both \subseteq S
    BY ParseValues
<1>4. key \in S
    BY ParseValues
<1> HIDE DEF S
<1>5. key \in all
    BY <1>1, <1>4
<1>6. both \subseteq all
    BY <1>1, <1>3 DEF PairsOf
<1> HIDE DEF all, key, both, pairs
<1>7. rest \in Seq(all)
    BY <1>2, <1>6, SeqMonotonic
<1>8. pairs \in Seq(all) /\ Len(pairs) \in Nat \ {0}
    BY <1>2, <1>5, <1>7
<1>9. all \subseteq S /\ \A pair \in all : pair[1] \in AIs
    BY DEF all
<1>10. \A i \in 1..Len(pairs) : pairs[i][1] \in AIs /\ pairs[i] \in S
    BY <1>8, <1>9
<1>11. pairs \in Seq(S)
    BY <1>8, <1>9, SeqMonotonic
<1>12. \A i \in 1..Len(pairs) : pairs[i][2] \in Translated(T)
    BY <1>10, PairParts DEF S
<1> QED
    BY <1>8, <1>10, <1>11, <1>12 DEF S, pairs

-------------------------------------------------------------------------------
(* What a template may name. *)

(* What a link carries, by AI: its primary key, qualifiers and attributes.   *)
CarriedAIs(link) == {link.primary_ai} \cup DOMAIN link.qualifiers \cup DOMAIN link.attributes

NamesFor(ais) == ais \cup {AI_TO_NAME[ai] : ai \in ais} \cup {"serial", "batch", "expiry"}

(* A context has the AIs that a link carries, their names and the        *)
(* aliases.                                                              *)
LEMMA ContextNames ==
    ASSUME NEW link
    PROVE  DOMAIN as_dict(link) = NamesFor(CarriedAIs(link))
BY DEF as_dict, Updated, CarriedAIs, NamesFor

(* The AIs that are put into a context are those that the link carries.      *)
LEMMA PutsCarried ==
    ASSUME NEW T, NEW p \in Seq(T), HasKey(p)
    PROVE  LET segs == Segments(p)
               key  == PrimaryIndex(p)
               rest(ais) == Picked(segs, {i \in DOMAIN segs \ {key} : segs[i][1] \in ais})
               puts == <<segs[key]>> \o rest(QUALIFIER_AIS) \o rest(PRIMARY_AIS \cup ATTRIBUTE_AIS)
           IN  /\ puts \in Seq(Pairs(Translated(T)))
               /\ {pair[1] : pair \in Range(puts)} = CarriedAIs(ParsedPath(p))
<1> DEFINE segs == Segments(p)
           key  == PrimaryIndex(p)
           chosen(ais) == {i \in DOMAIN segs \ {key} : segs[i][1] \in ais}
           rest(ais) == Picked(segs, chosen(ais))
           S == Pairs(Translated(T))
           first == <<segs[key]>>
           qs == rest(QUALIFIER_AIS)
           others == rest(PRIMARY_AIS \cup ATTRIBUTE_AIS)
<1>1. segs \in Seq(S) /\ key \in 1..Len(segs)
    BY SegmentsType, PrimaryIndexFirst
<1>2. /\ ParsedPath(p).primary_ai = segs[key][1]
      /\ ParsedPath(p).qualifiers = ByAI(segs, key, QUALIFIER_AIS)
      /\ ParsedPath(p).attributes = ByAI(segs, key, PRIMARY_AIS \cup ATTRIBUTE_AIS)
    BY DEF ParsedPath, Classified
<1> HIDE DEF segs, key, S
<1>3. ASSUME NEW ais
      PROVE  /\ rest(ais) \in Seq(S)
             /\ {pair[1] : pair \in Range(rest(ais))} = DOMAIN ByAI(segs, key, ais)
    <2>1. /\ rest(ais) \in Seq(S)
          /\ Range(rest(ais)) = {segs[i] : i \in chosen(ais) \cap 1..Len(segs)}
        BY <1>1, PickedRange
    <2>2. DOMAIN ByAI(segs, key, ais) = {ai \in ais : \E i \in 1..Len(segs) : i # key /\ segs[i][1] = ai}
        <3>1. ReadsInto(ByAI(segs, key, ais), segs, key, ais)
            BY <1>1, ByAIValues
        <3> QED
            BY <3>1, Zenon DEF ReadsInto
    <2>3. DOMAIN segs = 1..Len(segs)
        BY <1>1
    <2> QED
        BY <2>1, <2>2, <2>3
<1>4. first \in Seq(S) /\ Range(first) = {segs[key]}
    BY <1>1 DEF Range
<1>5. /\ qs \in Seq(S) /\ others \in Seq(S)
      /\ {pair[1] : pair \in Range(qs)} = DOMAIN ParsedPath(p).qualifiers
      /\ {pair[1] : pair \in Range(others)} = DOMAIN ParsedPath(p).attributes
    BY <1>2, <1>3
<1> HIDE DEF first, qs, others
<1>6. /\ first \o qs \o others \in Seq(S)
      /\ Range(first \o qs \o others) = Range(first) \cup Range(qs) \cup Range(others)
    <2>1. first \in Seq(S) /\ qs \in Seq(S) /\ others \in Seq(S)
        BY <1>4, <1>5
    <2> QED
        BY <2>1, RangeOfThree
<1>7. {pair[1] : pair \in Range(first \o qs \o others)} = CarriedAIs(ParsedPath(p))
    BY <1>2, <1>4, <1>5, <1>6 DEF CarriedAIs
<1> QED
    BY <1>6, <1>7 DEF segs, key, S, first, qs, others

(* The order of a context has each of its names.                             *)
LEMMA OrderNames ==
    ASSUME NEW T, NEW p \in Seq(T), HasKey(p)
    PROVE  /\ OrderOf(Segments(p), PrimaryIndex(p)) \in Seq(NamesFor(CarriedAIs(ParsedPath(p))))
           /\ Range(OrderOf(Segments(p), PrimaryIndex(p))) = NamesFor(CarriedAIs(ParsedPath(p)))
<1> DEFINE segs == Segments(p)
           key  == PrimaryIndex(p)
           rest(ais) == Picked(segs, {i \in DOMAIN segs \ {key} : segs[i][1] \in ais})
           puts == <<segs[key]>> \o rest(QUALIFIER_AIS) \o rest(PRIMARY_AIS \cup ATTRIBUTE_AIS)
           ais == CarriedAIs(ParsedPath(p))
           names == NamesFor(ais)
           seqs == [i \in DOMAIN puts |-> <<AI_TO_NAME[puts[i][1]], puts[i][1]>>]
           flat == FlattenSeq(seqs)
           aliases == <<"serial", "batch", "expiry">>
<1>1. puts \in Seq(Pairs(Translated(T))) /\ {pair[1] : pair \in Range(puts)} = ais
    BY PutsCarried
<1>2. OrderOf(Segments(p), PrimaryIndex(p)) = Firsts(flat \o aliases)
    BY DEF OrderOf
<1> HIDE DEF puts, ais
<1>3. DOMAIN puts = 1..Len(puts) /\ Len(puts) \in Nat
    BY <1>1
<1>4. ASSUME NEW i \in 1..Len(puts)
      PROVE  /\ puts[i][1] \in ais
             /\ seqs[i] \in Seq(names)
             /\ Range(seqs[i]) = {AI_TO_NAME[puts[i][1]], puts[i][1]}
    <2>1. puts[i][1] \in ais
        BY <1>1, <1>3 DEF Range
    <2> DEFINE ai == puts[i][1]
               name == AI_TO_NAME[ai]
    <2>2. ai \in names /\ name \in names
        BY <2>1 DEF NamesFor
    <2>3. seqs[i] = <<name, ai>>
        BY <1>3
    <2> HIDE DEF ai, name, names, seqs
    <2>4. seqs[i] \in Seq(names) /\ Range(seqs[i]) = {name, ai}
        BY <2>2, <2>3 DEF Range
    <2> QED
        BY <2>1, <2>4 DEF ai, name
<1>5. \A ai \in ais : \E i \in 1..Len(puts) : puts[i][1] = ai
    BY <1>1, <1>3 DEF Range
<1>6. seqs \in Seq(Seq(names)) /\ Len(seqs) = Len(puts)
    <2> DEFINE all == Seq(names)
    <2>1. \A i \in 1..Len(puts) : seqs[i] \in all
        BY <1>4
    <2>2. seqs = [i \in 1..Len(puts) |-> seqs[i]]
        BY <1>3
    <2> HIDE DEF all, seqs
    <2> QED
        BY <1>3, <2>1, <2>2 DEF all
<1> HIDE DEF seqs
<1>7. flat \in Seq(names) /\ Range(flat) = UNION {Range(seqs[i]) : i \in 1..Len(seqs)}
    <2> HIDE DEF names
    <2> QED
        BY <1>6, FlattenRange
<1>8. Range(flat) = ais \cup {AI_TO_NAME[ai] : ai \in ais}
    <2>1. ASSUME NEW x \in Range(flat)
          PROVE  x \in ais \cup {AI_TO_NAME[ai] : ai \in ais}
        <3>1. PICK i \in 1..Len(puts) : x \in Range(seqs[i])
            BY <1>6, <1>7
        <3>2. x \in {AI_TO_NAME[puts[i][1]], puts[i][1]} /\ puts[i][1] \in ais
            BY <1>4, <3>1
        <3> QED
            BY <3>2
    <2>2. ASSUME NEW ai \in ais
          PROVE  ai \in Range(flat) /\ AI_TO_NAME[ai] \in Range(flat)
        <3>1. PICK i \in 1..Len(puts) : puts[i][1] = ai
            BY <1>5
        <3>2. Range(seqs[i]) = {AI_TO_NAME[ai], ai}
            BY <1>4, <3>1
        <3> QED
            BY <1>6, <1>7, <3>2
    <2> QED
        BY <2>1, <2>2
<1>9. aliases \in Seq(names) /\ Range(aliases) = {"serial", "batch", "expiry"}
    BY DEF NamesFor, Range
<1> HIDE DEF flat, aliases
<1>10. flat \o aliases \in Seq(names) /\ Range(flat \o aliases) = names
    <2>1. Range(flat \o aliases) = Range(flat) \cup Range(aliases)
        BY <1>7, <1>9, RangeConcatenation
    <2>2. Range(flat) \cup Range(aliases) = names
        BY <1>8, <1>9 DEF NamesFor
    <2> HIDE DEF names
    <2> QED
        BY <1>7, <1>9, <2>1, <2>2
<1> HIDE DEF names
<1>11. OrderOf(Segments(p), PrimaryIndex(p)) \in Seq(names) /\ Range(OrderOf(Segments(p), PrimaryIndex(p))) = names
    BY <1>2, <1>10, FirstsRange
<1> QED
    BY <1>11 DEF names, ais

=============================================================================

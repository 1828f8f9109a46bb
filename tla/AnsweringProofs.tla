--------------------------- MODULE AnsweringProofs ---------------------------
(***************************************************************************)
(* Proofs about the answers of module Answering: link-sets of routes with  *)
(* any number of links, and Accept headers of any length.                  *)
(***************************************************************************)
EXTENDS Answering, CollectionsProofs, FiniteSetTheorems

(* Links and entries are added one by one: what the lemmas below ask.       *)
AnswerType ==
    /\ links \in Seq(Link) /\ accept \in Seq(Entry)
    /\ requested \in LinkType \cup {None} /\ validated \in BOOLEAN

(* They are at the start. *)
LEMMA InitAnswer == Init => AnswerType
BY DEF Init, AnswerType

(* They stay so. *)
LEMMA StepAnswer ==
    ASSUME AnswerType, [Next]_vars
    PROVE  AnswerType'
<1> USE DEF AnswerType
<1>1. CASE UNCHANGED vars
    BY <1>1 DEF vars
<1>2. ASSUME NEW link \in Link, Declare(link)
      PROVE  AnswerType'
    BY <1>2 DEF Declare
<1>3. ASSUME NEW entry \in Entry, Prefer(entry)
      PROVE  AnswerType'
    BY <1>3 DEF Prefer
<1> QED
    BY <1>1, <1>2, <1>3 DEF Next

-------------------------------------------------------------------------------
(* Links of one relation. *)

(* The links of a relation are links with that relation, all of them. *)
LEMMA OfSelects ==
    ASSUME NEW S, NEW s \in Seq(S), NEW rel
    PROVE  /\ Of(s, rel) \in Seq(S)
           /\ Range(Of(s, rel)) = {link \in Range(s) : link.rel = rel}
<1> DEFINE same == {link \in Range(s) : link.rel = rel}
<1>1. same \subseteq Range(s)
    OBVIOUS
<1> HIDE DEF same
<1>2. Only(s, same) \in Seq(S) /\ Range(Only(s, same)) = Range(s) \cap same
    BY OnlyRange
<1>3. Of(s, rel) = Only(s, same)
    BY DEF Of, same
<1> QED
    BY <1>1, <1>2, <1>3 DEF same

(* Selecting twice is selecting once. *)
LEMMA OfTwice ==
    ASSUME NEW S, NEW s \in Seq(S), NEW rel
    PROVE  Of(Of(s, rel), rel) = Of(s, rel)
<1> DEFINE t == Of(s, rel)
           same == {link \in Range(t) : link.rel = rel}
<1>1. t \in Seq(S) /\ Range(t) = {link \in Range(s) : link.rel = rel}
    BY OfSelects
<1> HIDE DEF t
<1>2. Range(t) \subseteq same
    BY <1>1
<1>3. Of(t, rel) = Only(t, same)
    BY DEF Of
<1> HIDE DEF same
<1>4. Only(t, same) = t
    BY <1>1, <1>2, OnlyAll
<1> QED
    BY <1>3, <1>4 DEF t

(* A link that is appended is the last of its relation. *)
LEMMA OfAppend ==
    ASSUME NEW S, NEW s \in Seq(S), NEW x \in S, NEW rel
    PROVE  Of(Append(s, x), rel) = IF x.rel = rel THEN Append(Of(s, rel), x) ELSE Of(s, rel)
<1> DEFINE all == {link \in S : link.rel = rel}
<1>1. ASSUME NEW t \in Seq(S)
      PROVE  Of(t, rel) = Only(t, all)
    <2> DEFINE same == {link \in Range(t) : link.rel = rel}
    <2>1. \A link \in Range(t) : link \in same <=> link \in all
        BY RangeOfSeq
    <2>2. Of(t, rel) = Only(t, same)
        BY DEF Of
    <2> HIDE DEF same, all
    <2> QED
        BY <2>1, <2>2, OnlyAgrees
<1>2. x \in all <=> x.rel = rel
    OBVIOUS
<1>3. Append(s, x) \in Seq(S)
    OBVIOUS
<1> HIDE DEF all
<1>4. Only(Append(s, x), all) = IF x \in all THEN Append(Only(s, all), x) ELSE Only(s, all)
    BY OnlyAppend
<1> QED
    BY <1>1, <1>2, <1>3, <1>4

(* The members of a sequence, by their places. *)
LEMMA Members ==
    ASSUME NEW S, NEW s \in Seq(S)
    PROVE  \A y : y \in Range(s) <=> \E i \in 1..Len(s) : y = s[i]
<1>1. DOMAIN s = 1..Len(s)
    OBVIOUS
<1> QED
    BY <1>1 DEF Range

Hrefs(s) == [i \in DOMAIN s |-> s[i].href]

(* A link-set has a group for each relation, with the hrefs of its links.   *)
LEMMA GroupIs ==
    ASSUME NEW S, NEW s \in Seq(S)
    PROVE  /\ DOMAIN Group(s) = {link.rel : link \in Range(s)}
           /\ \A rel \in DOMAIN Group(s) : Group(s)[rel] = Hrefs(Of(s, rel))
           /\ \A rel : rel \in DOMAIN Group(s) <=> Of(s, rel) # <<>>
<1>1. DOMAIN Group(s) = {link.rel : link \in Range(s)}
    <2>1. DOMAIN Group(s) = {s[i].rel : i \in DOMAIN s}
        BY DEF Group
    <2>2. Range(s) = {s[i] : i \in DOMAIN s}
        BY DEF Range
    <2> QED
        BY <2>1, <2>2
<1>2. \A rel \in DOMAIN Group(s) : Group(s)[rel] = Hrefs(Of(s, rel))
    BY DEF Group, Hrefs
<1>3. ASSUME NEW rel
      PROVE  rel \in DOMAIN Group(s) <=> Of(s, rel) # <<>>
    <2>1. Of(s, rel) \in Seq(S) /\ Range(Of(s, rel)) = {link \in Range(s) : link.rel = rel}
        BY OfSelects
    <2>2. Of(s, rel) = <<>> <=> Range(Of(s, rel)) = {}
        <3> DEFINE t == Of(s, rel)
        <3>1. t \in Seq(S)
            BY <2>1
        <3> HIDE DEF t
        <3>2. Range(t) = {} => t = <<>>
            BY <3>1, RangelessIsEmpty
        <3>3. t = <<>> => Range(t) = {}
            BY DEF Range
        <3> QED
            BY <3>2, <3>3 DEF t
    <2> QED
        BY <1>1, <2>1, <2>2
<1> QED
    BY <1>1, <1>2, <1>3

(* The href a redirect goes to is that of the first default link.           *)
LEMMA DefaultHref ==
    ASSUME NEW S, NEW s \in Seq(S), NEW b, b.groups = Group(s)
    PROVE  default_link_href(b)
             = IF Of(s, defaultLink) = <<>> THEN None ELSE Of(s, defaultLink)[1].href
<1> DEFINE d == defaultLink
           t == Of(s, d)
<1>1. t \in Seq(S)
    BY OfSelects
<1>2. d \in DOMAIN Group(s) <=> t # <<>>
    BY GroupIs
<1>3. d \in DOMAIN Group(s) => Group(s)[d] = Hrefs(t)
    BY GroupIs
<1> HIDE DEF t, d
<1>4. t # <<>> => 1 \in DOMAIN t
    BY <1>1
<1>5. t # <<>> => Hrefs(t)[1] = t[1].href
    BY <1>4 DEF Hrefs
<1> QED
    BY <1>2, <1>3, <1>5 DEF default_link_href, d, t

-------------------------------------------------------------------------------
(* The links of a route, expanded and with a default. *)

Plain(L) ==
    \A link \in L : link = [rel |-> link.rel, href |-> link.href, detail |-> link.detail]

(* What links become: their relations written in full, or the default one.  *)
FullLink ==
    {[rel |-> expand_rel(link.rel), href |-> link.href, detail |-> link.detail] : link \in Link}
      \cup {[rel |-> defaultLink, href |-> link.href, detail |-> link.detail] : link \in Link}

InFull(link) == [rel |-> expand_rel(link.rel), href |-> link.href, detail |-> link.detail]

(* expand_rel touches the relations and nothing else. *)
LEMMA ExpandedIs ==
    ASSUME NEW L, Plain(L), NEW s \in Seq(L)
    PROVE  /\ Len(expanded(s)) = Len(s) /\ DOMAIN expanded(s) = 1..Len(s)
           /\ expanded(s) = [i \in 1..Len(s) |-> expanded(s)[i]]
           /\ \A i \in 1..Len(s) :
                 expanded(s)[i] = InFull(s[i])
<1>1. DOMAIN s = 1..Len(s) /\ Len(s) \in Nat
    OBVIOUS
<1>2. ASSUME NEW i \in 1..Len(s)
      PROVE  [s[i] EXCEPT !.rel = expand_rel(@)] = InFull(s[i])
    <2> DEFINE link == s[i]
    <2>1. link = [rel |-> link.rel, href |-> link.href, detail |-> link.detail]
        BY DEF Plain
    <2> HIDE DEF link
    <2>2. [link EXCEPT !.rel = expand_rel(@)] = InFull(link)
        BY <2>1 DEF InFull
    <2> QED
        BY <2>2 DEF link
<1> QED
    BY <1>1, <1>2 DEF expanded

(* A route's links in full are full links, and expanding them again changes *)
(* nothing.                                                                 *)
LEMMA ExpandedLinks ==
    ASSUME NEW s \in Seq(Link)
    PROVE  /\ expanded(s) \in Seq(FullLink) /\ Len(expanded(s)) = Len(s)
           /\ expanded(expanded(s)) = expanded(s)
<1> DEFINE e == expanded(s)
           n == Len(s)
<1>1. Plain(Link)
    BY LinksAssumption DEF Plain
<1>2. /\ Len(e) = n /\ e = [i \in 1..n |-> e[i]]
      /\ \A i \in 1..n : e[i] = InFull(s[i])
    BY <1>1, ExpandedIs
<1>3. n \in Nat /\ \A i \in 1..n : s[i] \in Link
    OBVIOUS
<1> HIDE DEF e, n
<1>4. \A i \in 1..n : e[i] \in FullLink
    BY <1>2, <1>3 DEF FullLink, InFull
<1>5. e \in Seq(FullLink)
    BY <1>2, <1>3, <1>4
<1>6. Plain(FullLink)
    BY DEF Plain, FullLink
<1>7. /\ expanded(e) = [i \in 1..n |-> expanded(e)[i]]
      /\ \A i \in 1..n : expanded(e)[i] = InFull(e[i])
    BY <1>2, <1>5, <1>6, ExpandedIs
<1>8. \A i \in 1..n : expanded(e)[i] = e[i]
    BY <1>2, <1>3, <1>7, LinksAssumption DEF InFull
<1>9. expanded(e) = e
    BY <1>2, <1>7, <1>8
<1> QED
    BY <1>2, <1>5, <1>9 DEF e, n

(* The promoted link is a full link, and is put last. *)
LEMMA Promoted ==
    ASSUME NEW e \in Seq(FullLink), e # <<>>
    PROVE  /\ [e[1] EXCEPT !.rel = defaultLink] \in FullLink
           /\ [e[1] EXCEPT !.rel = defaultLink].rel = defaultLink
           /\ Of(e, defaultLink) # <<>> => Promote(e) = e
           /\ Of(e, defaultLink) = <<>>
                => Promote(e) = Append(e, [e[1] EXCEPT !.rel = defaultLink])
           /\ Promote(e) \in Seq(FullLink)
<1> DEFINE d == defaultLink
<1>1. PICK link \in Link : e[1].href = link.href /\ e[1].detail = link.detail /\ e[1] = [rel |-> e[1].rel, href |-> e[1].href, detail |-> e[1].detail]
    <2>1. e[1] \in FullLink
        OBVIOUS
    <2> QED
        BY <2>1 DEF FullLink
<1>2. [e[1] EXCEPT !.rel = d] = [rel |-> d, href |-> e[1].href, detail |-> e[1].detail]
    <2> DEFINE first == e[1]
    <2>1. first = [rel |-> first.rel, href |-> first.href, detail |-> first.detail]
        BY <1>1
    <2> HIDE DEF first, d
    <2>2. [first EXCEPT !.rel = d] = [rel |-> d, href |-> first.href, detail |-> first.detail]
        BY <2>1
    <2> QED
        BY <2>2 DEF first
<1>3. [e[1] EXCEPT !.rel = d] \in FullLink /\ [e[1] EXCEPT !.rel = d].rel = d
    BY <1>1, <1>2 DEF FullLink
<1>4. Of(e, d) # <<>> <=> \E i \in DOMAIN e : e[i].rel = d
    BY GroupIs DEF Group
<1> DEFINE first == [e[1] EXCEPT !.rel = d]
<1>5. Promote(e) = IF Of(e, d) # <<>> THEN e ELSE Append(e, first)
    BY <1>4 DEF Promote
<1>6. Promote(e) \in Seq(FullLink)
    <2> HIDE DEF first
    <2>1. Append(e, first) \in Seq(FullLink)
        BY <1>3 DEF first
    <2> QED
        BY <1>5, <2>1
<1> QED
    BY <1>3, <1>5, <1>6

-------------------------------------------------------------------------------
(* The linkType parameter. *)

(* The filter of build_linkset answers with all the links of a relation     *)
(* that the route has, and else with the full link-set.                     *)
LEMMA FilterNarrows ==
    ASSUME NEW S, NEW s \in Seq(S), NEW r
    PROVE  LET full == Group(s)
               part == Group(Filter(s, r))
               rel  == expand_rel(r)
           IN  IF r # None /\ rel \in DOMAIN full
                 THEN DOMAIN part = {rel} /\ part[rel] = full[rel]
                 ELSE Filter(s, r) = s
<1> DEFINE rel == expand_rel(r)
           wanted == Of(s, rel)
<1>1. wanted \in Seq(S) /\ Range(wanted) = {link \in Range(s) : link.rel = rel}
    BY OfSelects
<1>2. Of(wanted, rel) = wanted
    BY OfTwice
<1>3. rel \in DOMAIN Group(s) <=> wanted # <<>>
    BY GroupIs
<1>4. rel \in DOMAIN Group(s) => Group(s)[rel] = Hrefs(wanted)
    BY GroupIs
<1>5. Filter(s, r) = IF r = None \/ wanted = <<>> THEN s ELSE wanted
    BY DEF Filter
<1> HIDE DEF rel, wanted
<1>6. rel \in DOMAIN Group(wanted) <=> wanted # <<>>
    BY <1>1, <1>2, GroupIs
<1>7. DOMAIN Group(wanted) = {link.rel : link \in Range(wanted)}
    BY <1>1, GroupIs
<1>8. rel \in DOMAIN Group(wanted) => Group(wanted)[rel] = Hrefs(wanted)
    BY <1>1, <1>2, GroupIs
<1>9. wanted # <<>> => DOMAIN Group(wanted) = {rel}
    BY <1>1, <1>6, <1>7
<1> QED
    BY <1>3, <1>4, <1>5, <1>6, <1>8, <1>9 DEF rel

(* What a route with links is answered with. *)
LEMMA LinkSetOf ==
    ASSUME NEW s \in Seq(Link), s # <<>>, NEW r, NEW v
    PROVE  LET shown == Shown(s, r)
               b     == build_linkset(s, r, v)
           IN  /\ Promote(expanded(s)) \in Seq(FullLink) /\ shown \in Seq(FullLink)
               /\ Range(shown) \subseteq Range(Promote(expanded(s)))
               /\ b.raises \in BOOLEAN /\ b.prints \in BOOLEAN
               /\ b.raises <=> \E link \in Range(shown) : link.detail = "unlistable"
               /\ b.prints <=> \A link \in Range(shown) : link.detail = "fine"
               /\ b.groups = IF b.raises THEN <<>> ELSE Group(shown)
               /\ b = [raises |-> b.raises, prints |-> b.prints, groups |-> b.groups,
                       validation |-> v]
<1> DEFINE e == expanded(s)
           p == Promote(e)
           shown == Shown(s, r)
<1>1. e \in Seq(FullLink) /\ e # <<>>
    BY ExpandedLinks
<1>2. p \in Seq(FullLink)
    BY <1>1, Promoted
<1>3. shown \in Seq(FullLink) /\ Range(shown) \subseteq Range(p)
    <2>1. shown = Filter(p, r)
        BY DEF Shown
    <2> HIDE DEF p, shown
    <2>2. \A rel : Of(p, rel) \in Seq(FullLink) /\ Range(Of(p, rel)) \subseteq Range(p)
        BY <1>2, OfSelects
    <2> QED
        BY <1>2, <2>1, <2>2 DEF Filter
<1> HIDE DEF p
<1> QED
    BY <1>2, <1>3 DEF build_linkset, p

(* Two answers made of the same links are the same. *)
LEMMA SameShown ==
    ASSUME NEW s \in Seq(Link), s # <<>>, NEW r, NEW q, NEW v, Shown(s, r) = Shown(s, q)
    PROVE  build_linkset(s, r, v) = build_linkset(s, q, v)
BY DEF build_linkset

(* ?linkType= answers with all the links of its relation, or with the full  *)
(* link-set: the filter and the fallback of build_linkset.                  *)
THEOREM LinkTypeFilters == Spec => []LinkTypeNarrows
<1>1. ASSUME AnswerType
      PROVE  LinkTypeNarrows
    <2> DEFINE s == Promote(expanded(links))
               full == FullLinkSet
               part == build_linkset(links, requested, validated)
               rel  == expand_rel(requested)
    <2> SUFFICES ASSUME links # <<>>, ~ full.raises
                 PROVE  IF requested # None /\ rel \in DOMAIN full.groups
                          THEN /\ ~ part.raises /\ DOMAIN part.groups = {rel}
                               /\ part.groups[rel] = full.groups[rel]
                          ELSE part = full
        BY DEF LinkTypeNarrows
    <2>1. Shown(links, requested) = Filter(s, requested) /\ Shown(links, None) = s
        BY DEF Shown, Filter
    <2>2. /\ s \in Seq(FullLink)
          /\ full.raises <=> \E link \in Range(Shown(links, None)) : link.detail = "unlistable"
          /\ full.groups = IF full.raises THEN <<>> ELSE Group(Shown(links, None))
        BY <1>1, LinkSetOf DEF AnswerType, FullLinkSet
    <2>3. /\ Range(Shown(links, requested)) \subseteq Range(s)
          /\ part.raises <=> \E link \in Range(Shown(links, requested)) : link.detail = "unlistable"
          /\ part.groups = IF part.raises THEN <<>> ELSE Group(Shown(links, requested))
        BY <1>1, LinkSetOf DEF AnswerType
    <2>4. Filter(s, requested) = s => part = full
        BY <1>1, <2>1, SameShown DEF AnswerType, FullLinkSet
    <2> HIDE DEF s, full, part
    <2>5. ~ part.raises /\ full.groups = Group(s) /\ part.groups = Group(Filter(s, requested))
        BY <2>1, <2>2, <2>3
    <2> QED
        BY <2>2, <2>4, <2>5, FilterNarrows
<1> QED
    BY <1>1, InitAnswer, StepAnswer, PTL DEF Spec

(* A link whose details are broken does not keep the other relations of its *)
(* route from being asked for: the links are filtered before their entries  *)
(* are made.                                                                *)
THEOREM BrokenConfined == Spec => []BrokenLinksAreConfined
<1>1. ASSUME AnswerType
      PROVE  BrokenLinksAreConfined
    <2> DEFINE e == expanded(links)
               p == Promote(e)
               rel == expand_rel(requested)
               own == {link \in Range(links) : expand_rel(link.rel) = rel}
               shown == Shown(links, requested)
               b == build_linkset(links, requested, validated)
    <2> SUFFICES ASSUME requested # None, own # {}, \A link \in own : link.detail = "fine"
                 PROVE  resolve.status # 500
        BY DEF BrokenLinksAreConfined
    <2>1. links \in Seq(Link) /\ links # <<>>
        <3>1. PICK link : link \in own
            OBVIOUS
        <3> QED
            BY <1>1, <3>1 DEF AnswerType, Range
    <2>2. /\ Len(e) = Len(links) /\ \A i \in 1..Len(links) : e[i] = InFull(links[i])
        BY <2>1, ExpandedIs, LinksAssumption DEF Plain
    <2>3. e \in Seq(FullLink) /\ e # <<>>
        BY <2>1, ExpandedLinks
    <2>4. \A link \in Range(e) : link.rel = rel => link.detail = "fine"
        <3> SUFFICES ASSUME NEW link \in Range(e), link.rel = rel
                     PROVE  link.detail = "fine"
            OBVIOUS
        <3>1. PICK i \in 1..Len(links) : link = InFull(links[i])
            BY <2>2, <2>3, Members
        <3>2. links[i] \in Range(links)
            BY <2>1, Members
        <3>3. links[i] \in own
            BY <3>1, <3>2 DEF InFull
        <3> QED
            BY <3>1, <3>3 DEF InFull
    <2>5. \E link \in Range(e) : link.rel = rel
        <3>1. PICK link \in Range(links) : expand_rel(link.rel) = rel
            OBVIOUS
        <3>2. PICK i \in 1..Len(links) : link = links[i]
            BY <2>1, Members
        <3>3. e[i] \in Range(e)
            BY <2>2, <2>3, Members
        <3> HIDE DEF e
        <3>4. e[i] = InFull(link)
            BY <2>2, <3>2
        <3>5. e[i].rel = rel
            BY <3>1, <3>4 DEF InFull
        <3> QED
            BY <3>3, <3>5
    <2> HIDE DEF e, rel, own
    <2>6. p \in Seq(FullLink) /\ Range(e) \subseteq Range(p)
          /\ \A link \in Range(p) : link.rel = rel => link.detail = "fine"
        <3> DEFINE x == [e[1] EXCEPT !.rel = defaultLink]
        <3>1. /\ x \in FullLink /\ x.rel = defaultLink /\ p \in Seq(FullLink)
              /\ Of(e, defaultLink) # <<>> => p = e
              /\ Of(e, defaultLink) = <<>> => p = Append(e, x)
            BY <2>3, Promoted
        <3>2. Of(e, defaultLink) = <<>> => rel # defaultLink
            <4>1. Range(Of(e, defaultLink)) = {link \in Range(e) : link.rel = defaultLink}
                BY <2>3, OfSelects
            <4>2. Of(e, defaultLink) = <<>> => Range(Of(e, defaultLink)) = {}
                BY DEF Range
            <4> QED
                BY <2>5, <4>1, <4>2
        <3> HIDE DEF x, p
        <3>3. Range(Append(e, x)) = Range(e) \cup {x}
            <4>1. Append(e, x) \in Seq(FullLink) /\ Len(Append(e, x)) = Len(e) + 1
                  /\ Append(e, x)[Len(e) + 1] = x /\ \A i \in 1..Len(e) : Append(e, x)[i] = e[i]
                BY <2>3, <3>1
            <4>2. Len(e) \in Nat
                BY <2>3
            <4> HIDE DEF x
            <4>3. \A y : y \in Range(Append(e, x)) <=> \E i \in 1..(Len(e) + 1) : y = Append(e, x)[i]
                <5> DEFINE t == Append(e, x)
                <5>1. t \in Seq(FullLink) /\ Len(t) = Len(e) + 1
                    BY <4>1
                <5> HIDE DEF t
                <5>2. \A y : y \in Range(t) <=> \E i \in 1..Len(t) : y = t[i]
                    BY <5>1, Members
                <5> QED
                    BY <5>1, <5>2 DEF t
            <4>4. \A y : y \in Range(e) <=> \E i \in 1..Len(e) : y = e[i]
                BY <2>3, Members
            <4>5. \A i : i \in 1..(Len(e) + 1) <=> i \in 1..Len(e) \/ i = Len(e) + 1
                BY <4>2
            <4> QED
                BY <4>1, <4>3, <4>4, <4>5
        <3> QED
            BY <2>4, <3>1, <3>2, <3>3
    <2>7. shown = Of(p, rel)
        <3>1. Range(Of(p, rel)) = {link \in Range(p) : link.rel = rel}
            BY <2>6, OfSelects
        <3>2. Range(Of(p, rel)) # {}
            BY <2>5, <2>6, <3>1
        <3>3. Of(p, rel) # <<>>
            BY <3>2 DEF Range
        <3> QED
            BY <3>3 DEF Shown, Filter, p, e, rel
    <2>8. \A link \in Range(shown) : link.detail = "fine"
        BY <2>6, <2>7, OfSelects
    <2>9. ~ b.raises /\ b.prints
        BY <2>1, <2>8, LinkSetOf
    <2> HIDE DEF b
    <2>10. resolve.status \in {200, 302}
        BY <2>9 DEF resolve, b
    <2> QED
        BY <2>10
<1> QED
    BY <1>1, InitAnswer, StepAnswer, PTL DEF Spec

(* Operator and client may write a relation in short or in full: expand_rel *)
(* gives the answer one spelling.                                           *)
THEOREM SpellingsAgree == Spec => []SpellingIsIrrelevant
<1>1. ASSUME AnswerType
      PROVE  SpellingIsIrrelevant
    <2> SUFFICES ASSUME NEW rel \in LinkType, requested # None,
                        expand_rel(rel) = expand_rel(requested)
                 PROVE  /\ build_linkset(links, rel, validated)
                             = build_linkset(links, requested, validated)
                        /\ build_linkset(expanded(links), rel, validated)
                             = build_linkset(links, requested, validated)
        BY DEF SpellingIsIrrelevant
    <2>1. rel # None
        BY LinksAssumption
    <2>2. \A s : Filter(s, rel) = Filter(s, requested)
        BY <2>1 DEF Filter
    <2>3. build_linkset(links, rel, validated) = build_linkset(links, requested, validated)
        <3>1. Shown(links, rel) = Shown(links, requested)
            BY <2>2 DEF Shown
        <3> QED
            BY <3>1 DEF build_linkset
    <2>4. /\ expanded(expanded(links)) = expanded(links)
          /\ expanded(links) = <<>> <=> links = <<>>
        <3>1. links \in Seq(Link)
            BY <1>1 DEF AnswerType
        <3>2. /\ expanded(expanded(links)) = expanded(links)
              /\ expanded(links) \in Seq(FullLink) /\ Len(expanded(links)) = Len(links)
            BY <3>1, ExpandedLinks
        <3> QED
            BY <3>1, <3>2
    <2>5. build_linkset(expanded(links), rel, validated) = build_linkset(links, rel, validated)
        BY <2>4 DEF build_linkset, Shown
    <2> QED
        BY <2>3, <2>5
<1> QED
    BY <1>1, InitAnswer, StepAnswer, PTL DEF Spec

-------------------------------------------------------------------------------
(* The default link. *)

(* The default href of a route with links: its first default link's, or its *)
(* first link's.                                                            *)
LEMMA DefaultOf ==
    ASSUME NEW s \in Seq(Link), s # <<>>, NEW v, ~ build_linkset(s, None, v).raises
    PROVE  default_link_href(build_linkset(s, None, v))
             = IF Of(expanded(s), defaultLink) = <<>>
                 THEN expanded(s)[1].href
                 ELSE Of(expanded(s), defaultLink)[1].href
<1> DEFINE e == expanded(s)
           d == defaultLink
           promoted == [e[1] EXCEPT !.rel = d]
<1>1. e \in Seq(FullLink) /\ e # <<>>
    BY ExpandedLinks
<1>2. /\ promoted \in FullLink /\ promoted.rel = d
      /\ Of(e, d) # <<>> => Promote(e) = e
      /\ Of(e, d) = <<>> => Promote(e) = Append(e, promoted)
      /\ Promote(e) \in Seq(FullLink)
    BY <1>1, Promoted
<1>3. promoted.href = e[1].href
    <2>1. e[1] \in FullLink
        BY <1>1
    <2>2. e[1] = [rel |-> e[1].rel, href |-> e[1].href, detail |-> e[1].detail]
        BY <2>1 DEF FullLink
    <2> QED
        BY <2>2
<1> HIDE DEF promoted
<1>4. build_linkset(s, None, v).groups = Group(Promote(e))
    BY LinkSetOf DEF Shown, Filter
<1>5. default_link_href(build_linkset(s, None, v))
        = IF Of(Promote(e), d) = <<>> THEN None ELSE Of(Promote(e), d)[1].href
    BY <1>2, <1>4, DefaultHref
<1> HIDE DEF e, d
<1>6. CASE Of(e, d) # <<>>
    BY <1>2, <1>5, <1>6 DEF e, d
<1>7. CASE Of(e, d) = <<>>
    <2>1. Of(Promote(e), d) = Append(<<>>, promoted)
        BY <1>1, <1>2, <1>7, OfAppend
    <2>2. Of(Promote(e), d) # <<>> /\ Of(Promote(e), d)[1] = promoted
        BY <2>1
    <2> QED
        BY <1>3, <1>5, <1>7, <2>2 DEF e, d
<1> QED
    BY <1>6, <1>7

(* A link declared behind others, unless it is a default link itself,       *)
(* leaves the promoted default of build_linkset where it was.               *)
THEOREM DefaultStays == Spec => DefaultIsStable
<1> DEFINE Stable == \A link \in Link :
               /\ Declare(link) /\ links # <<>> /\ expand_rel(link.rel) # defaultLink
               /\ ~ FullLinkSet.raises /\ ~ FullLinkSet'.raises
               => default_link_href(FullLinkSet)' = default_link_href(FullLinkSet)
<1>1. ASSUME AnswerType
      PROVE  Stable
    <2> SUFFICES ASSUME NEW link \in Link, Declare(link), links # <<>>,
                        expand_rel(link.rel) # defaultLink,
                        ~ FullLinkSet.raises, ~ FullLinkSet'.raises
                 PROVE  default_link_href(FullLinkSet)' = default_link_href(FullLinkSet)
        OBVIOUS
    <2> DEFINE e == expanded(links)
               x == InFull(link)
               d == defaultLink
    <2>1. links \in Seq(Link) /\ validated' = validated /\ links' = Append(links, link)
        BY <1>1 DEF AnswerType, Declare
    <2>2. links' \in Seq(Link) /\ links' # <<>>
        BY <2>1
    <2>3. e \in Seq(FullLink) /\ Len(e) = Len(links) /\ e # <<>>
        BY <2>1, ExpandedLinks
    <2>4. x \in FullLink /\ x.rel # d
        BY DEF FullLink, InFull
    <2>5. expanded(links') = Append(e, x)
        <3>1. Plain(Link)
            BY LinksAssumption DEF Plain
        <3>2. /\ e = [i \in 1..Len(links) |-> e[i]]
              /\ \A i \in 1..Len(links) :
                    e[i] = InFull(links[i])
            BY <2>1, <3>1, ExpandedIs
        <3>3. /\ expanded(links') = [i \in 1..Len(links') |-> expanded(links')[i]]
              /\ \A i \in 1..Len(links') :
                    expanded(links')[i] = InFull(links'[i])
            BY <2>2, <3>1, ExpandedIs
        <3>4. /\ Len(links') = Len(links) + 1 /\ links'[Len(links) + 1] = link
              /\ \A i \in 1..Len(links) : links'[i] = links[i]
              /\ Len(links) \in Nat
            BY <2>1
        <3> DEFINE n == Len(links)
                   E == expanded(links')
        <3>5. /\ E = [i \in 1..(n + 1) |-> E[i]] /\ E[n + 1] = x
              /\ \A i \in 1..n : E[i] = e[i]
            BY <3>2, <3>3, <3>4
        <3> HIDE DEF E, e, x
        <3>6. E \in Seq(FullLink)
            BY <2>2, ExpandedLinks DEF E
        <3>7. Append(e, x) \in Seq(FullLink) /\ Len(Append(e, x)) = n + 1
              /\ Append(e, x)[n + 1] = x /\ \A i \in 1..n : Append(e, x)[i] = e[i]
            BY <2>3, <2>4
        <3>8. Len(E) = n + 1
            BY <3>4, <3>5, <3>6
        <3> HIDE DEF n
        <3>9. ASSUME NEW i \in 1..(n + 1)
              PROVE  E[i] = Append(e, x)[i]
            <4>1. n \in Nat
                BY <3>4 DEF n
            <4>2. i = n + 1 \/ i \in 1..n
                BY <4>1
            <4> QED
                BY <3>5, <3>7, <4>2
        <3>10. E = Append(e, x)
            BY <3>6, <3>7, <3>8, <3>9
        <3> QED
            BY <3>10 DEF E
    <2> HIDE DEF e, x, d
    <2>6. Of(Append(e, x), d) = Of(e, d)
        BY <2>3, <2>4, OfAppend
    <2>7. Append(e, x)[1] = e[1]
        BY <2>3, <2>4
    <2>8. default_link_href(build_linkset(links, None, validated))
            = IF Of(e, d) = <<>> THEN e[1].href ELSE Of(e, d)[1].href
        BY <2>1, DefaultOf DEF FullLinkSet, e, d
    <2>9. default_link_href(build_linkset(links', None, validated'))
            = IF Of(Append(e, x), d) = <<>> THEN Append(e, x)[1].href ELSE Of(Append(e, x), d)[1].href
        BY <2>2, <2>5, DefaultOf DEF FullLinkSet, d
    <2> QED
        BY <2>6, <2>7, <2>8, <2>9 DEF FullLinkSet
<1> QED
    BY <1>1, InitAnswer, StepAnswer, PTL DEF Spec, DefaultIsStable

-------------------------------------------------------------------------------
(* Content negotiation. *)

(* The entries that go before an entry. *)
Ahead(a, i) == {j \in DOMAIN a : Sooner(a, j, i)}

(* Every place in the order of preference has an entry, and what goes first *)
(* has the lower place: the sort of _parse_accept loses no entry.           *)
LEMMA Places ==
    ASSUME NEW a \in Seq(Entry)
    PROVE  /\ \A i \in 1..Len(a) : Place(a, i) \in 1..Len(a)
           /\ \A i, j \in 1..Len(a) : Sooner(a, i, j) => Place(a, i) < Place(a, j)
           /\ \A n \in 1..Len(a) : \E i \in 1..Len(a) : Place(a, i) = n
<1> DEFINE n == Len(a)
<1>1. n \in Nat /\ DOMAIN a = 1..n /\ \A i \in 1..n : a[i].q \in Int
    BY EntriesAssumption
<1> HIDE DEF n
<1>2. IsFiniteSet(1..n) /\ Cardinality(1..n) = n
    BY <1>1, FS_Interval
<1>3. ASSUME NEW i \in 1..n
      PROVE  /\ Ahead(a, i) \subseteq (1..n) \ {i}
             /\ IsFiniteSet(Ahead(a, i)) /\ Cardinality(Ahead(a, i)) \in 0..(n - 1)
             /\ Place(a, i) = Cardinality(Ahead(a, i)) + 1
    <2> DEFINE others == (1..n) \ {i}
               ahead == Ahead(a, i)
    <2>1. ahead \subseteq others
        BY <1>1 DEF Ahead, Sooner
    <2>2. IsFiniteSet(others) /\ Cardinality(others) = n - 1
        BY <1>2, FS_RemoveElement
    <2>3. Place(a, i) = Cardinality(ahead) + 1
        BY DEF Place, Ahead
    <2> HIDE DEF others, ahead
    <2>4. IsFiniteSet(ahead) /\ Cardinality(ahead) <= Cardinality(others)
        BY <2>1, <2>2, FS_Subset
    <2>5. Cardinality(ahead) \in Nat
        BY <2>4, FS_CardinalityType
    <2> QED
        BY <1>1, <2>1, <2>2, <2>3, <2>4, <2>5 DEF others, ahead
<1>4. \A i \in 1..n : Place(a, i) \in 1..n
    BY <1>1, <1>3
<1>5. ASSUME NEW i \in 1..n, NEW j \in 1..n, Sooner(a, i, j)
      PROVE  Place(a, i) < Place(a, j)
    <2> DEFINE S == Ahead(a, i)
               T == Ahead(a, j)
    <2>1. S \subseteq T /\ i \in T /\ i \notin S
        BY <1>1, <1>5 DEF Ahead, Sooner
    <2>2. IsFiniteSet(T) /\ Place(a, i) = Cardinality(S) + 1 /\ Place(a, j) = Cardinality(T) + 1
        BY <1>3
    <2>3. Cardinality(S) \in Int /\ Cardinality(T) \in Int
        BY <1>1, <1>3
    <2> HIDE DEF S, T
    <2>4. Cardinality(S) <= Cardinality(T) /\ (Cardinality(T) = Cardinality(S) => T = S)
        BY <2>1, <2>2, FS_Subset
    <2> QED
        BY <2>1, <2>2, <2>3, <2>4
<1>6. ASSUME NEW i \in 1..n, NEW j \in 1..n, i # j
      PROVE  Place(a, i) # Place(a, j)
    <2>1. Sooner(a, i, j) \/ Sooner(a, j, i)
        BY <1>1, <1>6 DEF Sooner
    <2>2. Place(a, i) \in Int /\ Place(a, j) \in Int
        BY <1>4
    <2> QED
        BY <1>5, <2>1, <2>2
<1> DEFINE place == [i \in 1..n |-> Place(a, i)]
           D == 1..n
<1>7. place \in Injection(D, D)
    BY <1>4, <1>6 DEF Injection, IsInjective
<1>8. \A m \in D : \E i \in D : place[i] = m
    <2>1. IsFiniteSet(D)
        BY <1>2
    <2> HIDE DEF D, place
    <2>2. place \in Surjection(D, D)
        BY <1>7, <2>1, FS_Injection
    <2> QED
        BY <2>2 DEF Surjection
<1> QED
    BY <1>4, <1>5, <1>8 DEF n

(* The entry at a place of the parsed header is one of the client's. *)
LEMMA ParsedAt ==
    ASSUME NEW a \in Seq(Entry)
    PROVE  /\ DOMAIN parse_accept(a) = 1..Len(a)
           /\ \A n \in 1..Len(a) :
                 \E i \in 1..Len(a) : Place(a, i) = n /\ parse_accept(a)[n] = a[i]
           /\ \A i \in 1..Len(a) : parse_accept(a)[Place(a, i)] = a[i]
<1> DEFINE at(n) == CHOOSE i \in 1..Len(a) : Place(a, i) = n
<1>1. DOMAIN a = 1..Len(a) /\ Len(a) \in Nat
    OBVIOUS
<1>2. parse_accept(a) = [n \in 1..Len(a) |-> a[at(n)]]
    BY <1>1 DEF parse_accept
<1>3. \A n \in 1..Len(a) : at(n) \in 1..Len(a) /\ Place(a, at(n)) = n
    BY Places
<1>4. ASSUME NEW i \in 1..Len(a)
      PROVE  at(Place(a, i)) = i
    <2> DEFINE j == at(Place(a, i))
    <2>1. Place(a, i) \in 1..Len(a)
        BY Places
    <2>2. j \in 1..Len(a) /\ Place(a, j) = Place(a, i)
        BY <1>3, <2>1
    <2> HIDE DEF j
    <2>3. j # i => Sooner(a, i, j) \/ Sooner(a, j, i)
        BY <1>1, <2>2, EntriesAssumption DEF Sooner
    <2>4. Place(a, i) \in Int /\ ~ (Place(a, i) < Place(a, j)) /\ ~ (Place(a, j) < Place(a, i))
        BY <2>1, <2>2
    <2>5. ~ Sooner(a, i, j) /\ ~ Sooner(a, j, i)
        BY <2>2, <2>4, Places
    <2> QED
        BY <2>3, <2>5 DEF j
<1> HIDE DEF at
<1>5. \A i \in 1..Len(a) : parse_accept(a)[Place(a, i)] = a[i]
    BY <1>2, <1>4, Places
<1> QED
    BY <1>2, <1>3, <1>5

(* The first offer among some, in the server's order. *)
LEMMA FirstOffer ==
    ASSUME NEW offers \in SUBSET Range(OFFERS), offers # {}
    PROVE  LET n == SelectInSeq(OFFERS, LAMBDA offer : offer \in offers)
           IN  /\ n \in 1..4 /\ OFFERS[n] \in offers
               /\ \A m \in 1..4 : OFFERS[m] \in offers => n <= m
<1> DEFINE found == {m \in 1..Len(OFFERS) : OFFERS[m] \in offers}
<1>1. Len(OFFERS) = 4 /\ DOMAIN OFFERS = 1..4
    BY DEF OFFERS
<1>2. found # {} /\ found \in SUBSET Nat
    BY <1>1 DEF Range
<1>3. Min(found) \in found /\ \A m \in found : Min(found) <= m
    BY <1>2, LeastExists
<1>4. SelectInSeq(OFFERS, LAMBDA offer : offer \in offers) = Min(found)
    BY <1>2 DEF SelectInSeq
<1> QED
    BY <1>1, <1>3, <1>4

Serves(entry) == entry.q > 0 /\ Offered(entry.range) # {}

(* The client's best entry that stands for an offer settles the answer; the *)
(* default answers when no entry does.                                      *)
LEMMA Selected ==
    ASSUME NEW a \in Seq(Entry)
    PROVE  /\ (\A i \in 1..Len(a) : ~ Serves(a[i])) => select_media_type(a) = DEFAULT
           /\ (\E i \in 1..Len(a) : Serves(a[i])) =>
                 \E i \in 1..Len(a) :
                    /\ Serves(a[i])
                    /\ select_media_type(a)
                         = OFFERS[SelectInSeq(OFFERS, LAMBDA offer : offer \in Offered(a[i].range))]
                    /\ \A j \in 1..Len(a) : Serves(a[j]) => ~ Sooner(a, j, i)
<1> DEFINE p == parse_accept(a)
           useful == {n \in 1..Len(p) : Serves(p[n])}
           first == IF useful # {} THEN Min(useful) ELSE 0
<1>1. Len(a) \in Nat /\ DOMAIN a = 1..Len(a)
    OBVIOUS
<1>2. /\ DOMAIN p = 1..Len(a)
      /\ \A n \in 1..Len(a) : \E i \in 1..Len(a) : Place(a, i) = n /\ p[n] = a[i]
      /\ \A i \in 1..Len(a) : p[Place(a, i)] = a[i]
    BY ParsedAt
<1>3. Len(p) = Len(a)
    <2>1. p = [n \in 1..Len(a) |-> p[n]]
        BY <1>1 DEF parse_accept
    <2> HIDE DEF p
    <2> QED
        BY <1>1, <2>1
<1>4. select_media_type(a)
        = IF first = 0 THEN DEFAULT
          ELSE OFFERS[SelectInSeq(OFFERS, LAMBDA offer : offer \in Offered(p[first].range))]
    BY DEF select_media_type, SelectInSeq, Serves
<1> HIDE DEF p
<1>5. useful \in SUBSET Nat /\ 0 \notin useful
    BY <1>1, <1>3
<1>6. useful # {} => first \in useful /\ \A n \in useful : first <= n
    BY <1>5, LeastExists
<1>7. (\E i \in 1..Len(a) : Serves(a[i])) <=> useful # {}
    <2>1. ASSUME NEW i \in 1..Len(a), Serves(a[i])
          PROVE  Place(a, i) \in useful
        BY <1>2, <1>3, <2>1, Places
    <2>2. ASSUME NEW n \in useful
          PROVE  \E i \in 1..Len(a) : Serves(a[i])
        BY <1>2, <1>3
    <2> QED
        BY <2>1, <2>2
<1>8. useful = {} => select_media_type(a) = DEFAULT
    BY <1>4
<1>9. ASSUME useful # {}
      PROVE  \E i \in 1..Len(a) :
                /\ Serves(a[i])
                /\ select_media_type(a)
                     = OFFERS[SelectInSeq(OFFERS, LAMBDA offer : offer \in Offered(a[i].range))]
                /\ \A j \in 1..Len(a) : Serves(a[j]) => ~ Sooner(a, j, i)
    <2>1. first \in 1..Len(a) /\ first # 0 /\ Serves(p[first])
        BY <1>3, <1>5, <1>6, <1>9
    <2> HIDE DEF first
    <2>2. PICK i \in 1..Len(a) : Place(a, i) = first /\ p[first] = a[i]
        BY <1>2, <2>1
    <2>3. select_media_type(a)
            = OFFERS[SelectInSeq(OFFERS, LAMBDA offer : offer \in Offered(a[i].range))]
        BY <1>4, <2>1, <2>2
    <2>4. ASSUME NEW j \in 1..Len(a), Serves(a[j]), Sooner(a, j, i)
          PROVE  FALSE
        <3>1. Place(a, j) \in 1..Len(a) /\ Place(a, j) < first
            BY <2>2, <2>4, Places
        <3>2. Place(a, j) \in useful
            BY <1>2, <1>3, <2>4, <3>1
        <3> QED
            BY <1>1, <1>6, <2>1, <3>1, <3>2
    <2> QED
        BY <2>1, <2>2, <2>3, <2>4
<1> QED
    BY <1>7, <1>8, <1>9

(* A range matches types that the resolver offers. *)
LEMMA OfferedAreOffers ==
    ASSUME NEW range
    PROVE  Offered(range) \subseteq Range(OFFERS)
BY DEF Offered, OFFERS, Range

(* Whatever the header, an offer is selected. *)
LEMMA SelectedIsOffered ==
    ASSUME NEW a \in Seq(Entry)
    PROVE  select_media_type(a) \in Range(OFFERS)
<1>1. DEFAULT \in Range(OFFERS)
    <2>1. OFFERS[1] = DEFAULT /\ 1 \in DOMAIN OFFERS
        BY DEF OFFERS, DEFAULT
    <2> QED
        BY <2>1 DEF Range
<1>2. ASSUME NEW i \in 1..Len(a), Serves(a[i])
      PROVE  OFFERS[SelectInSeq(OFFERS, LAMBDA offer : offer \in Offered(a[i].range))] \in Range(OFFERS)
    <2> DEFINE offers == Offered(a[i].range)
    <2>1. offers \in SUBSET Range(OFFERS) /\ offers # {}
        BY <1>2, OfferedAreOffers DEF Serves
    <2> HIDE DEF offers
    <2>2. OFFERS[SelectInSeq(OFFERS, LAMBDA offer : offer \in offers)] \in offers
        BY <2>1, FirstOffer
    <2> QED
        BY <2>1, <2>2 DEF offers
<1> QED
    BY <1>1, <1>2, Selected

(* select_media_type walks the client's preferences in order and answers    *)
(* with the server's first offer for the best one.                          *)
THEOREM BestOfferWins == Spec => []BestOfferIsChosen
<1>1. ASSUME AnswerType
      PROVE  BestOfferIsChosen
    <2> DEFINE n == Len(accept)
               Rank(t) == CHOOSE m \in DOMAIN OFFERS : OFFERS[m] = t
    <2>1. accept \in Seq(Entry) /\ DOMAIN accept = 1..n /\ n \in Nat
        BY <1>1 DEF AnswerType
    <2>2. resolve.status # 500 => resolve.type = select_media_type(accept)
        BY DEF resolve, ServerError
    <2>3. \A i \in 1..n : accept[i].q \in Int
        BY <2>1, EntriesAssumption
    <2>4. \A m \in 1..4 : Rank(OFFERS[m]) = m
        BY DEF OFFERS
    <2>5. ASSUME resolve.status # 500, \E i \in 1..n : Serves(accept[i])
          PROVE  \E i \in 1..n :
                    /\ Serves(accept[i]) /\ resolve.type \in Offered(accept[i].range)
                    /\ \A t \in Offered(accept[i].range) : Rank(resolve.type) <= Rank(t)
                    /\ \A j \in 1..n : Serves(accept[j]) =>
                          accept[j].q < accept[i].q \/ (accept[j].q = accept[i].q /\ i <= j)
        <3>1. PICK i \in 1..n :
                 /\ Serves(accept[i])
                 /\ select_media_type(accept)
                      = OFFERS[SelectInSeq(OFFERS, LAMBDA offer : offer \in Offered(accept[i].range))]
                 /\ \A j \in 1..n : Serves(accept[j]) => ~ Sooner(accept, j, i)
            BY <2>1, <2>5, Selected
        <3> DEFINE offers == Offered(accept[i].range)
                   m == SelectInSeq(OFFERS, LAMBDA offer : offer \in offers)
        <3>2. offers \in SUBSET Range(OFFERS) /\ offers # {}
            BY <3>1, OfferedAreOffers DEF Serves
        <3>3. resolve.type = OFFERS[m]
            BY <2>2, <2>5, <3>1
        <3> HIDE DEF offers
        <3>4. /\ m \in 1..4 /\ OFFERS[m] \in offers
              /\ \A k \in 1..4 : OFFERS[k] \in offers => m <= k
            BY <3>2, FirstOffer
        <3> HIDE DEF m, Rank
        <3>5. ASSUME NEW t \in offers
              PROVE  Rank(resolve.type) <= Rank(t)
            <4>1. PICK k \in 1..4 : OFFERS[k] = t
                BY <3>2 DEF Range, OFFERS
            <4> QED
                BY <2>4, <3>3, <3>4, <4>1
        <3>6. ASSUME NEW j \in 1..n, Serves(accept[j])
              PROVE  accept[j].q < accept[i].q \/ (accept[j].q = accept[i].q /\ i <= j)
            BY <2>1, <2>3, <3>1, <3>6 DEF Sooner
        <3> QED
            BY <3>1, <3>3, <3>4, <3>5, <3>6 DEF offers
    <2> QED
        BY <2>1, <2>5 DEF BestOfferIsChosen, Serves
<1> QED
    BY <1>1, InitAnswer, StepAnswer, PTL DEF Spec

-------------------------------------------------------------------------------
(* The answer. *)

(* A redirect of a route with links goes to one of them, or to no default.  *)
LEMMA DefaultIsALink ==
    ASSUME NEW s \in Seq(Link), NEW r, NEW v
    PROVE  default_link_href(build_linkset(s, r, v)) \in {None} \cup {link.href : link \in Link}
<1> DEFINE d == defaultLink
           p == Promote(expanded(s))
           f == Filter(p, r)
<1>1. CASE s = <<>>
    BY <1>1 DEF build_linkset, default_link_href
<1>2. CASE s # <<>>
    <2>1. f \in Seq(FullLink) /\ build_linkset(s, r, v).groups \in {<<>>, Group(f)}
        BY <1>2, LinkSetOf DEF Shown
    <2> HIDE DEF f, d
    <2>2. build_linkset(s, r, v).groups = <<>> => default_link_href(build_linkset(s, r, v)) = None
        BY DEF default_link_href
    <2>3. build_linkset(s, r, v).groups = Group(f) =>
            default_link_href(build_linkset(s, r, v)) = IF Of(f, d) = <<>> THEN None ELSE Of(f, d)[1].href
        BY <2>1, DefaultHref DEF d
    <2>4. Of(f, d) \in Seq(FullLink)
        BY <2>1, OfSelects
    <2>5. Of(f, d) # <<>> => Of(f, d)[1] \in FullLink
        BY <2>4
    <2>6. \A link \in FullLink : link.href \in {l.href : l \in Link}
        BY DEF FullLink
    <2> QED
        BY <2>1, <2>2, <2>3, <2>5, <2>6
<1> QED
    BY <1>1, <1>2

(* The handler's tail answers every request: a redirect to a link of the    *)
(* route or to its target, or a link-set of a media type the server offers. *)
THEOREM TypeCorrect == Spec => []TypeOK
<1>1. ASSUME AnswerType
      PROVE  TypeOK
    <2> DEFINE href == default_link_href(build_linkset(links, requested, validated))
               all  == {link.href : link \in Link}
    <2>1. href \in {None} \cup all
        BY <1>1, DefaultIsALink DEF AnswerType
    <2>2. resolve.status = 500 \/ resolve.type \in Range(OFFERS)
        BY <1>1, SelectedIsOffered DEF AnswerType, resolve, ServerError
    <2> HIDE DEF href, all
    <2>3. IF resolve.status = 302 THEN resolve.location \in {Target} \cup (all \ {None})
                                  ELSE resolve.location = None
        BY <2>1 DEF resolve, ServerError, href
    <2> QED
        BY <1>1, <2>2, <2>3 DEF AnswerType, TypeOK, all
<1> QED
    BY <1>1, InitAnswer, StepAnswer, PTL DEF Spec

=============================================================================

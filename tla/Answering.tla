------------------------------ MODULE Answering ------------------------------
(***************************************************************************)
(* What resolve() answers once a route is found (src/resolver/app.py): the *)
(* links of the route, the ?linkType= parameter, the Accept header and the *)
(* validation decide between a link-set and a redirect, and what is in it. *)
(*                                                                         *)
(* The operator declares the route's links one by one and the client lists *)
(* its media ranges one by one: every route and every header up to a       *)
(* length is answered.                                                     *)
(***************************************************************************)
EXTENDS LinkSets, Negotiation

CONSTANTS
    Link,        \* links a route may declare: relation, href and detail
    Entry,       \* entries of an Accept header: media range and q-value
    LinkType,    \* relations a client may ask for
    Target,      \* the target of the route
    Bound        \* pairs of bounds, on the links of the route and on the entries

ASSUME LinksAssumption ==
    /\ None \notin LinkType
    /\ \A link \in Link :
          /\ link = [rel |-> link.rel, href |-> link.href, detail |-> link.detail]
          /\ link.detail \in {"fine", "unlistable", "unprintable"}
          /\ expand_rel(expand_rel(link.rel)) = expand_rel(link.rel)

ASSUME EntriesAssumption == \A entry \in Entry : entry.q \in Int

VARIABLES
    links,       \* the links the route declares
    accept,      \* the client's Accept header
    requested,   \* its linkType parameter
    validated    \* whether the validator has a profile, and so a payload

vars == <<links, accept, requested, validated>>

Init ==
    /\ links = <<>>
    /\ accept = <<>>
    /\ requested \in LinkType \cup {None}
    /\ validated \in BOOLEAN

Within(n, m) == \E bound \in Bound : n <= bound[1] /\ m <= bound[2]

Declare(link) ==
    /\ Within(Len(links) + 1, Len(accept))
    /\ links' = Append(links, link)
    /\ UNCHANGED <<accept, requested, validated>>

Prefer(entry) ==
    /\ Within(Len(links), Len(accept) + 1)
    /\ accept' = Append(accept, entry)
    /\ UNCHANGED <<links, requested, validated>>

Next == (\E link \in Link : Declare(link)) \/ (\E entry \in Entry : Prefer(entry))

Spec == Init /\ [][Next]_vars

-------------------------------------------------------------------------------

(* An exception leaves resolve(). *)
ServerError == [status |-> 500, type |-> None, groups |-> <<>>, validation |-> FALSE,
                location |-> None]

(* Mutation: the target is not what a redirect falls back on. *)
ResolveWithoutTarget ==
    LET chosen  == select_media_type(accept)
        linkset == build_linkset(links, requested, validated)
    IN  IF linkset.raises
          THEN ServerError
        ELSE IF chosen = "text/html"
          THEN [status |-> 302, type |-> chosen, groups |-> <<>>, validation |-> FALSE,
                location |-> default_link_href(linkset)]
        ELSE IF linkset.prints
          THEN [status |-> 200, type |-> chosen, groups |-> linkset.groups,
                validation |-> linkset.validation, location |-> None]
          ELSE ServerError

(* The tail of resolve(): a redirect for text/html, else the link-set, which *)
(* build_jsonld wraps for JSON-LD. The validator's result, if there is one,  *)
(* can be printed here; ResolverService has those that cannot.               *)
resolve ==
    LET chosen  == select_media_type(accept)
        linkset == build_linkset(links, requested, validated)
        href    == default_link_href(linkset)
    IN  IF linkset.raises
          THEN ServerError
        ELSE IF chosen = "text/html"
          THEN [status |-> 302, type |-> chosen, groups |-> <<>>, validation |-> FALSE,
                location |-> IF href = None THEN Target ELSE href]
        ELSE IF linkset.prints
          THEN [status |-> 200, type |-> chosen, groups |-> linkset.groups,
                validation |-> linkset.validation, location |-> None]
          ELSE ServerError

(* The link-set of the route, for a client that asks for no relation. *)
FullLinkSet == build_linkset(links, None, validated)

(* The default link of the route: the first that is declared to be one, or  *)
(* the first.                                                               *)
DeclaredDefault ==
    LET defaults == Of(expanded(links), defaultLink)
    IN  IF defaults = <<>> THEN links[1].href ELSE defaults[1].href

-------------------------------------------------------------------------------
(* Properties. *)

(* Every combination is answered: a redirect to somewhere, a link-set of an *)
(* advertised media type, or an error where a link's details do not allow   *)
(* for either.                                                              *)
TypeOK ==
    /\ links \in Seq(Link) /\ accept \in Seq(Entry)
    /\ requested \in LinkType \cup {None} /\ validated \in BOOLEAN
    /\ resolve.status = 500 \/ resolve.type \in Range(OFFERS)
    /\ IF resolve.status = 302
         THEN resolve.location \in {Target} \cup ({link.href : link \in Link} \ {None})
         ELSE resolve.location = None

(* The client gets what it likes best (docs/ARCHITECTURE.md, "Content       *)
(* negotiation"): no entry of a higher q-value, or of the same q-value and  *)
(* earlier, stands for an offer; among its offers, the server's first.      *)
BestOfferIsChosen ==
    LET Serves(i) == accept[i].q > 0 /\ Offered(accept[i].range) # {}
        Rank(t)   == CHOOSE n \in DOMAIN OFFERS : OFFERS[n] = t
    IN  resolve.status # 500 /\ (\E i \in DOMAIN accept : Serves(i)) =>
          \E i \in DOMAIN accept :
             /\ Serves(i) /\ resolve.type \in Offered(accept[i].range)
             /\ \A t \in Offered(accept[i].range) : Rank(resolve.type) <= Rank(t)
             /\ \A j \in DOMAIN accept : Serves(j) =>
                   accept[j].q < accept[i].q \/ (accept[j].q = accept[i].q /\ i <= j)

(* ?linkType= answers with all the links of that relation and no others, or *)
(* with the full link-set: never with a part of it, and never with nothing  *)
(* (where the full link-set can be built).                                  *)
LinkTypeNarrows ==
    LET full == FullLinkSet
        part == build_linkset(links, requested, validated)
        rel  == expand_rel(requested)
    IN  links # <<>> /\ ~ full.raises =>
          IF requested # None /\ rel \in DOMAIN full.groups
            THEN /\ ~ part.raises /\ DOMAIN part.groups = {rel}
                 /\ part.groups[rel] = full.groups[rel]
            ELSE part = full

(* A link with broken details spoils the answers that it belongs to and no  *)
(* others: a client that asks for a relation of the route whose own links   *)
(* are in order is answered, whatever stands beside them.                   *)
BrokenLinksAreConfined ==
    LET own == {link \in Range(links) : expand_rel(link.rel) = expand_rel(requested)}
    IN  requested # None /\ own # {} /\ (\A link \in own : link.detail = "fine") =>
            resolve.status # 500

(* A relation may be spelt in short or in full, by the operator and by the  *)
(* client, and the answer is the same.                                      *)
SpellingIsIrrelevant ==
    \A rel \in LinkType :
        requested # None /\ expand_rel(rel) = expand_rel(requested) =>
            /\ build_linkset(links, rel, validated) = build_linkset(links, requested, validated)
            /\ build_linkset(expanded(links), rel, validated)
                 = build_linkset(links, requested, validated)

(* Declaring one more link, unless it is a default link, leaves the default *)
(* of a route that has links, and so the page its users see, as it was, as  *)
(* long as the links can be listed.                                         *)
DefaultIsStable ==
    [][\A link \in Link :
         /\ Declare(link) /\ links # <<>> /\ expand_rel(link.rel) # defaultLink
         /\ ~ FullLinkSet.raises /\ ~ FullLinkSet'.raises
         => default_link_href(FullLinkSet)' = default_link_href(FullLinkSet)]_vars

-------------------------------------------------------------------------------
(* What the docs say, and the code does not. *)

(* docs/stability.md: text/html is answered with a "302 to the default      *)
(* link's href".                                                            *)
HtmlGoesToTheDefault ==
    resolve.status = 302 /\ links # <<>> /\ DeclaredDefault # None =>
        resolve.location = DeclaredDefault

=============================================================================

------------------------------ MODULE LinkSets ------------------------------
(***************************************************************************)
(* Link-sets (src/resolver/linkset.py).  A link is its relation, its href   *)
(* and its detail, which stands for its type, title and languages.  These  *)
(* are carried along, and no check of the config looks at them: the detail *)
(* is "unlistable" if hreflang is neither a text nor a list, "unprintable" *)
(* if JSON cannot represent some of it (a YAML date, say), else "fine".    *)
(* A link-set gives for each relation the hrefs of its links.              *)
(***************************************************************************)
EXTENDS Collections, SequencesExt

CONSTANTS
    expand_rel(_),   \* a relation's full IRI
    None             \* no linkType parameter, no default link, or the href that
                     \* a template has when it is filled with nothing

defaultLink == expand_rel("gs1:defaultLink")

expanded(links) == [i \in DOMAIN links |-> [links[i] EXCEPT !.rel = expand_rel(@)]]

(* Mutation: the link declared last is promoted. *)
PromoteLast(links) ==
    IF \E i \in DOMAIN links : links[i].rel = defaultLink
      THEN links
      ELSE Append(links, [links[Len(links)] EXCEPT !.rel = defaultLink])

(* The first link is the default one if none is declared to be. *)
Promote(links) ==
    IF \E i \in DOMAIN links : links[i].rel = defaultLink
      THEN links
      ELSE Append(links, [links[1] EXCEPT !.rel = defaultLink])

(* The links of a relation, in their order. *)
Of(links, rel) == Only(links, {link \in Range(links) : link.rel = rel})

(* Mutation: nothing to fall back on. *)
FilterAlways(links, requested) ==
    IF requested = None THEN links ELSE Of(links, expand_rel(requested))

(* Mutation: the requested relation is compared as it is spelt. *)
FilterAsSpelt(links, requested) ==
    IF requested = None \/ Of(links, requested) = <<>> THEN links ELSE Of(links, requested)

(* The links of the requested relation, or all links if there are none. *)
Filter(links, requested) ==
    LET wanted == Of(links, expand_rel(requested))
    IN  IF requested = None \/ wanted = <<>> THEN links ELSE wanted

Group(links) ==
    [rel \in {links[i].rel : i \in DOMAIN links} |->
        LET same == Of(links, rel)
        IN  [i \in DOMAIN same |-> same[i].href]]

(* The links that are put into the answer. *)
Shown(links, requested) == Filter(Promote(expanded(links)), requested)

(* Mutation: the entries are made before the links are filtered. *)
build_linkset_unfiltered(links, requested, validated) ==
    LET shown  == Shown(links, requested)
        raises == \E link \in Range(links) : link.detail = "unlistable"
    IN  IF links = <<>>
          THEN [raises |-> FALSE, prints |-> TRUE, groups |-> <<>>, validation |-> FALSE]
          ELSE [raises     |-> raises,
                prints     |-> \A link \in Range(shown) : link.detail = "fine",
                groups     |-> IF raises THEN <<>> ELSE Group(shown),
                validation |-> validated]

(* Without links there is only the anchor: no default, no validation. No    *)
(* link-set is built of a link whose languages cannot be listed; whether    *)
(* what is built can be printed shows when it is put into a response.       *)
build_linkset(links, requested, validated) ==
    LET shown  == Shown(links, requested)
        raises == \E link \in Range(shown) : link.detail = "unlistable"
    IN  IF links = <<>>
          THEN [raises |-> FALSE, prints |-> TRUE, groups |-> <<>>, validation |-> FALSE]
          ELSE [raises     |-> raises,
                prints     |-> \A link \in Range(shown) : link.detail = "fine",
                groups     |-> IF raises THEN <<>> ELSE Group(shown),
                validation |-> validated]

default_link_href(linkset) ==
    IF defaultLink \in DOMAIN linkset.groups THEN linkset.groups[defaultLink][1] ELSE None

=============================================================================

---------------------------- MODULE Negotiation ----------------------------
(***************************************************************************)
(* Accept-header negotiation (src/resolver/negotiate.py).  A header is the *)
(* sequence of its entries, a media range with its q-value in tenths; an   *)
(* entry without a q-value has 10, one whose q-value is not a number 0.    *)
(***************************************************************************)
EXTENDS Integers, Sequences, SequencesExt

OFFERS == <<"application/linkset+json", "application/ld+json", "application/json", "text/html">>

DEFAULT == "application/linkset+json"

(* Mutation: the q-values do not matter. *)
ParsedUnsorted(accept) == accept

(* The sort is stable: the i-th entry goes before the j-th if it has a higher *)
(* q-value, or the same one and is the client's earlier entry.               *)
Sooner(accept, i, j) ==
    accept[i].q > accept[j].q \/ (accept[i].q = accept[j].q /\ i < j)

Place(accept, i) == Cardinality({j \in DOMAIN accept : Sooner(accept, j, i)}) + 1

(* The entries by descending q-value; equal ones in the client's order. *)
parse_accept(accept) ==
    [n \in DOMAIN accept |-> accept[CHOOSE i \in DOMAIN accept : Place(accept, i) = n]]

(* The offers a media range stands for: _matches, for every offer. *)
Offered(range) ==
    CASE range = "*/*"           -> Range(OFFERS)
      [] range = "application/*" -> {OFFERS[1], OFFERS[2], OFFERS[3]}
      [] range = "text/*"        -> {OFFERS[4]}
      [] OTHER                   -> {range} \cap Range(OFFERS)

(* The preferred offer of the first entry that stands for any. *)
select_media_type(accept) ==
    LET parsed == parse_accept(accept)
        Useful(entry) == entry.q > 0 /\ Offered(entry.range) # {}
        first == SelectInSeq(parsed, Useful)
        offers == Offered(parsed[first].range)
    IN  IF first = 0 THEN DEFAULT
                     ELSE OFFERS[SelectInSeq(OFFERS, LAMBDA offer : offer \in offers)]

=============================================================================

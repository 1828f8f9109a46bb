-------------------------- MODULE MCResolverService --------------------------
(***************************************************************************)
(* Small instances of ResolverService. The contents of the config file are *)
(* named for the validator they select; "broken" does not load. They       *)
(* disagree about the URI "lot", so that an answer that mixes two of them  *)
(* shows.                                                                  *)
(***************************************************************************)
EXTENDS ResolverService, TLC

CONSTANTS r1, r2, d1, p1, s1

Nobody     == {}
One        == {r1}
Two        == {r1, r2}
OneReader  == {d1}
OneProbe   == {p1}
OneScrape  == {s1}

HttpOnly     == {"http"}
HttpOrSmoke  == {"http", "smoke"}
OrBroken     == {"http", "smoke", "broken"}
NoopOrSmoke  == {"noop", "smoke"}
Mixed        == {"noop", "schema", "anonymous"}

(* The "anonymous" config leaves the profile to the validation service. *)
MCValidatorOf(c) ==
    CASE c = "noop"      -> [kind |-> "noop", profile |-> FALSE, plain |-> TRUE]
      [] c = "smoke"     -> [kind |-> "smoke", profile |-> TRUE, plain |-> TRUE]
      [] c = "schema"    -> [kind |-> "schema", profile |-> TRUE, plain |-> TRUE]
      [] c = "http"      -> [kind |-> "http", profile |-> TRUE, plain |-> TRUE]
      [] c = "anonymous" -> [kind |-> "http", profile |-> FALSE, plain |-> TRUE]

(* "page" is the URI of "gtin" in a browser. *)
MCUri      == {"garbled", "gtin", "page", "lot"}
OneUri     == {"gtin"}
MCReadable == {"gtin", "page", "lot"}
MCHtml     == {"page"}

(* Under "smoke" the lot's rule has a pattern that raises when it is tried. *)
MCRouteOf(c, u) ==
    CASE u \in {"gtin", "page"}    -> "match"
      [] u = "lot" /\ c = "smoke"  -> "raises"
      [] u = "lot" /\ c = "schema" -> "match"
      [] OTHER                     -> "none"

(* The lot's route has an hreflang that is a number, that of "gtin" under   *)
(* "noop" a date for a type; the page's has no links there.                 *)
MCLinksOf(c, u) ==
    CASE u = "lot"                 -> "unlistable"
      [] c = "noop" /\ u = "gtin"  -> "unprintable"
      [] c = "noop" /\ u = "page"  -> "bare"
      [] OTHER                     -> "links"

(* The description of "smoke" has a date among its contact data. *)
MCDescribable == {"noop", "http", "schema", "anonymous"}

Symmetric == Permutations({r1, r2})
===============================================================================

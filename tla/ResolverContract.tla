--------------------------- MODULE ResolverContract ---------------------------
(***************************************************************************)
(* What the resolver process promises its clients (src/resolver/app.py):   *)
(* every request that arrives gets one answer, in one indivisible step,    *)
(* which the contents of the config file since the process started justify *)
(* and which is counted in that step.  The event loop, worker threads and  *)
(* the router they share, loads that race and a validator that is waited   *)
(* for are not to be seen.                                                 *)
(***************************************************************************)
EXTENDS Validators, Naturals

CONSTANTS
    Resolve,        \* requests to the catch-all endpoint
    Describe,       \* requests for the resolver description
    Plain,          \* requests that need no config: /healthz and /metrics
    Config,         \* contents the config file may have
    Loadable,       \* those a router can be built from
    ValidatorOf(_), \* the validator a loadable config selects
    Describable,    \* those whose description can be printed
    Uri,            \* what can be asked for: a URI and an Accept header
    Readable,       \* where the URI parses and its GTIN has a valid check digit
    WantsHtml,      \* where a redirect is asked for
    RouteOf(_, _),  \* what the routes of a config make of a URI
    LinksOf(_, _)   \* what becomes of the links of the route

VARIABLES
    file,      \* the contents of the config file
    since,     \* the contents it has had since the process started
    uri,       \* what each resolve request asks for
    phase,     \* "expected" | "open" | "answered" | "gone"
    answer,    \* the answer of each request
    outcomes   \* requests_total, by outcome

contract == <<file, since, uri, phase, answer, outcomes>>

Request == Resolve \cup Describe \cup Plain
Outcome == {"resolved", "redirect", "not_found", "bad_request"}

Init ==
    /\ file \in Config
    /\ since = {file}
    /\ uri \in [Resolve -> Uri]
    /\ phase = [r \in Request |-> "expected"]
    /\ answer = [r \in Request |-> "none"]
    /\ outcomes = [o \in Outcome |-> 0]

Sound  == since \cap Loadable
Broken == since \ Loadable

OutcomeOf(u) == IF u \in WantsHtml THEN "redirect" ELSE "resolved"

(* Some validator in force has a verdict that no link-set can show. *)
Spoilt == \E d \in Sound : \E v \in Verdicts(ValidatorOf(d)) : Spoils(v)

(* What becomes of a request whose links can be listed and printed. *)
Shown(c, u) ==
    {OutcomeOf(u)} \cup {e \in {"response_error"} :
        LinksOf(c, u) = "links" /\ u \notin WantsHtml /\ Spoilt}

Linked(c, u) ==
    CASE LinksOf(c, u) = "unlistable"  -> {"linkset_error"}
      [] LinksOf(c, u) = "unprintable" -> {"response_error"}
      [] OTHER                         -> Shown(c, u)

(* What a config in force makes of a readable URI. Another one may select   *)
(* the validator, which can fail the request by calling out, or by its      *)
(* verdict.                                                                 *)
RoutedTo(c, u) ==
    CASE RouteOf(c, u) = "none"   -> {"not_found"}
      [] RouteOf(c, u) = "raises" -> {"routing_error"}
      [] OTHER -> Linked(c, u)
                    \cup {e \in {"validator_error"} : \E d \in Sound : Asks(ValidatorOf(d))}

Unloadable == {e \in {"config_error"} : Broken # {}}

Described ==
    {s \in {"served"} : Sound \cap Describable # {}}
      \cup {e \in {"response_error"} : Sound \ Describable # {}}

Justified(r) ==
    IF r \in Resolve
      THEN IF uri[r] \notin Readable
             THEN {"bad_request"}
             ELSE Unloadable \cup UNION {RoutedTo(c, uri[r]) : c \in Sound}
      ELSE IF r \in Describe
             THEN Unloadable \cup Described
             ELSE {"served"}

(* The outcome an answer is counted under, if any: a response that could    *)
(* not be made has been counted before.                                     *)
CountedAs(r, a) ==
    IF r \in Resolve /\ a = "response_error" THEN OutcomeOf(uri[r]) ELSE a

Arrive(r) ==
    /\ phase[r] = "expected"
    /\ phase' = [phase EXCEPT ![r] = "open"]
    /\ UNCHANGED <<file, since, uri, answer, outcomes>>

Answer(r, a) ==
    /\ phase[r] = "open" /\ a \in Justified(r)
    /\ phase' = [phase EXCEPT ![r] = "answered"]
    /\ answer' = [answer EXCEPT ![r] = a]
    /\ outcomes' = [o \in Outcome |-> outcomes[o] + IF o = CountedAs(r, a) THEN 1 ELSE 0]
    /\ UNCHANGED <<file, since, uri>>

Edit ==
    /\ file' \in Config \ {file}
    /\ since' = since \cup {file'}
    /\ UNCHANGED <<uri, phase, answer, outcomes>>

Restart ==
    /\ since' = {file}
    /\ phase' = [r \in Request |-> IF phase[r] = "expected" THEN "expected" ELSE "gone"]
    /\ outcomes' = [o \in Outcome |-> 0]
    /\ UNCHANGED <<file, uri, answer>>

Next ==
    \/ \E r \in Request : Arrive(r) \/ \E a \in Justified(r) : Answer(r, a)
    \/ Edit \/ Restart

Spec == Init /\ [][Next]_contract
===============================================================================

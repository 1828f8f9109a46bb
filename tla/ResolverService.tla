--------------------------- MODULE ResolverService ---------------------------
(***************************************************************************)
(* One resolver process serving requests (src/resolver/app.py).            *)
(*                                                                         *)
(* The catch-all endpoint, resolve(), is an `async def` without an await:  *)
(* from its first line to its return it holds the event loop, the call to  *)
(* a downstream validator included.  /healthz, /metrics and the resolver   *)
(* description are plain `def`s: the framework runs each in a worker       *)
(* thread, which interleaves with the loop, but needs the loop to be       *)
(* dispatched and to send its response.                                    *)
(*                                                                         *)
(* The threads and the loop share the lazily loaded router - get_router()  *)
(* checks, loads and publishes it with no lock - and the counters, whose   *)
(* updates are atomic (module Metrics shows why).  The config file may     *)
(* change at any time, and the process may be restarted at any time.       *)
(***************************************************************************)
EXTENDS Validators, Naturals, FiniteSets

CONSTANTS
    Resolve,        \* requests to the catch-all endpoint
    Describe,       \* requests for /.well-known/gs1resolver
    Probe,          \* requests for /healthz
    Scrape,         \* requests for /metrics
    Config,         \* contents the config file may have
    Loadable,       \* those from which Router(CONFIG_PATH) can be built
    ValidatorOf(_), \* the validator a loadable config selects
    Describable,    \* loadable configs whose description JSON can represent
    Uri,            \* what can be asked for: a URI and an Accept header
    Readable,       \* where the URI parses and its GTIN has a valid check digit
    WantsHtml,      \* where text/html is the chosen media type
    RouteOf(_, _),  \* what Router.resolve does with a URI under a config
    LinksOf(_, _),  \* what becomes of the links of a route that matches
    NoRouter,       \* _router is None
    NoLoad,         \* the request is not loading the config
    Opening         \* the request found _router None and is about to open the file

Loader  == Resolve \cup Describe
Request == Resolve \cup Describe \cup Probe \cup Scrape

ASSUME RequestsAssumption ==
    /\ IsFiniteSet(Resolve)
    /\ Resolve \cap (Describe \cup Probe \cup Scrape) = {}
    /\ Describe \cap (Probe \cup Scrape) = {}
    /\ Probe \cap Scrape = {}

ASSUME ConfigAssumption ==
    /\ Loadable \subseteq Config
    /\ {NoRouter, NoLoad, Opening} \cap Config = {}
    /\ NoLoad # Opening
    /\ \A c \in Loadable : ValidatorOf(c) \in Validator

(* Router.resolve fills a route's templates, finds no route, or raises on a *)
(* rule that the config checks let through (an invalid gtin_regex, say).    *)
ASSUME RoutingAssumption ==
    /\ Readable \subseteq Uri
    /\ \A c \in Loadable, u \in Uri : RouteOf(c, u) \in {"match", "none", "raises"}

(* The config checks do not look at what stands beside a link's relation    *)
(* and href. A link-set carries the sidecar, unless it is bare for want of  *)
(* links; an hreflang that is neither a text nor a list makes build_linkset *)
(* raise; and there are links that no response can be made of, such as one  *)
(* with a date for its type.                                                *)
ASSUME LinksAssumption ==
    \A c \in Loadable, u \in Uri :
        LinksOf(c, u) \in {"links", "bare", "unlistable", "unprintable"}

VARIABLES
    file,        \* the contents of the config file
    since,       \* ghost: the contents it has had since the process started
    router,      \* _router: the config it was built from, or NoRouter
    staged,      \* a loader's Router under construction
    pc,          \* where each request is
    uri,         \* what each resolve request asks for
    by,          \* the config whose routes, or description, a request used
    checkedBy,   \* the config whose validator a resolve request used
    verdict,     \* the validation payload of a resolve request
    answer,      \* the outcome of a request, or how it failed
    outcomes,    \* metrics._requests
    validations, \* metrics._validations
    scraped      \* what each scrape rendered

counters == <<outcomes, validations>>
vars == <<file, since, router, staged, pc, uri, by, checkedBy, verdict, answer, counters, scraped>>

-------------------------------------------------------------------------------

Outcome == {"resolved", "redirect", "not_found", "bad_request"}
Failure ==   \* status 500
    {"config_error", "routing_error", "validator_error", "linkset_error", "response_error"}

(* resolve() answers with a link-set or with a redirect. *)
OutcomeOf(u) == IF u \in WantsHtml THEN "redirect" ELSE "resolved"

(* The request is inside resolve(): it holds the event loop. *)
OnLoop   == {"routing", "validating", "waiting", "validated", "counted"}
InThread == {"describing", "probing", "scraping"}
Place    == {"new", "queued", "returning", "answered", "gone"} \cup OnLoop \cup InThread

LoopIdle == \A r \in Resolve : pc[r] \notin OnLoop

NoPayload == [ok |-> TRUE, profile |-> FALSE, plain |-> TRUE]   \* validation_payload is None

Snapshot == [outcomes : [Outcome -> Nat], validations : [BOOLEAN -> Nat]]

TypeOK ==
    /\ file \in Config
    /\ since \subseteq Config
    /\ router \in Loadable \cup {NoRouter}
    /\ staged \in [Loader -> Loadable \cup {NoLoad, Opening}]
    /\ pc \in [Request -> Place]
    /\ uri \in [Resolve -> Uri]
    /\ by \in [Loader -> Loadable \cup {NoRouter}]
    /\ checkedBy \in [Resolve -> Loadable \cup {NoRouter}]
    /\ verdict \in [Resolve -> Verdict]
    /\ answer \in [Request -> Outcome \cup Failure \cup {"none", "served"}]
    /\ outcomes \in [Outcome -> Nat]
    /\ validations \in [BOOLEAN -> Nat]
    /\ scraped \in [Scrape -> Snapshot]

Init ==
    /\ file \in Config
    /\ since = {file}
    /\ router = NoRouter
    /\ staged = [r \in Loader |-> NoLoad]
    /\ pc = [r \in Request |-> "new"]
    /\ uri \in [Resolve -> Uri]
    /\ by = [r \in Loader |-> NoRouter]
    /\ checkedBy = [r \in Resolve |-> NoRouter]
    /\ verdict = [r \in Resolve |-> NoPayload]
    /\ answer = [r \in Request |-> "none"]
    /\ outcomes = [o \in Outcome |-> 0]
    /\ validations = [b \in BOOLEAN |-> 0]
    /\ scraped = [s \in Scrape |-> [outcomes |-> outcomes, validations |-> validations]]

-------------------------------------------------------------------------------
(* Helpers of the actions. *)

Goto(r, place) == pc' = [pc EXCEPT ![r] = place]

(* The handler returns, or an exception leaves it. *)
Return(r, a) == Goto(r, "returning") /\ answer' = [answer EXCEPT ![r] = a]

record_request(o) == outcomes' = [outcomes EXCEPT ![o] = @ + 1]

(* The request is in a get_router() call that is not loading. *)
NeedsRouter(r) == pc[r] \in {"routing", "describing"} /\ staged[r] = NoLoad

Serving == <<file, since, uri>>   \* what no step of a request changes

-------------------------------------------------------------------------------
(* Steps of the event loop. *)

(* A request reaches the process. *)
Arrive(r) ==
    /\ pc[r] = "new"
    /\ Goto(r, "queued")
    /\ UNCHANGED <<Serving, router, staged, by, checkedBy, verdict, answer,
                   counters, scraped>>

(* Mutation: an early return without its record_request. *)
RejectUncounted(r) ==
    /\ pc[r] = "queued" /\ LoopIdle
    /\ uri[r] \notin Readable
    /\ Return(r, "bad_request")
    /\ UNCHANGED <<Serving, router, staged, by, checkedBy, verdict,
                   counters, scraped>>

(* resolve() turns away a URI it cannot parse, or whose check digit is wrong. *)
Reject(r) ==
    /\ pc[r] = "queued" /\ LoopIdle
    /\ uri[r] \notin Readable
    /\ record_request("bad_request")
    /\ Return(r, "bad_request")
    /\ UNCHANGED <<Serving, router, staged, by, checkedBy, verdict,
                   validations, scraped>>

(* Mutation: resolve() as a plain `def`, in a worker thread like the others. *)
AdmitInThread(r) ==
    /\ pc[r] = "queued"
    /\ uri[r] \in Readable
    /\ Goto(r, "routing")
    /\ UNCHANGED <<Serving, router, staged, by, checkedBy, verdict, answer,
                   counters, scraped>>

Admit(r) ==
    /\ pc[r] = "queued" /\ LoopIdle
    /\ uri[r] \in Readable
    /\ Goto(r, "routing")
    /\ UNCHANGED <<Serving, router, staged, by, checkedBy, verdict, answer,
                   counters, scraped>>

(* A plain `def` endpoint is handed to a worker thread. *)
Dispatch(r, place) ==
    /\ pc[r] = "queued" /\ LoopIdle
    /\ Goto(r, place)
    /\ UNCHANGED <<Serving, router, staged, by, checkedBy, verdict, answer,
                   counters, scraped>>

(* The response goes out: the handler's, or after an exception the server's *)
(* own 500.                                                                *)
Respond(r) ==
    /\ pc[r] = "returning" /\ LoopIdle
    /\ Goto(r, "answered")
    /\ UNCHANGED <<Serving, router, staged, by, checkedBy, verdict, answer, counters,
                   scraped>>

-------------------------------------------------------------------------------
(* get_router(), on the loop or in a worker thread. *)

(* Mutation: the check is lost, every request loads the config. *)
MissAlways(r) ==
    /\ NeedsRouter(r)
    /\ staged' = [staged EXCEPT ![r] = Opening]
    /\ UNCHANGED <<Serving, router, pc, by, checkedBy, verdict, answer,
                   counters, scraped>>

(* The check finds no router. *)
Miss(r) ==
    /\ NeedsRouter(r)
    /\ router = NoRouter
    /\ staged' = [staged EXCEPT ![r] = Opening]
    /\ UNCHANGED <<Serving, router, pc, by, checkedBy, verdict, answer,
                   counters, scraped>>

(* Mutation: the config is not validated. *)
LoadUnchecked(r) ==
    /\ staged[r] = Opening
    /\ staged' = [staged EXCEPT ![r] = file]
    /\ UNCHANGED <<Serving, router, pc, by, checkedBy, verdict, answer,
                   counters, scraped>>

(* Router.load reads the file and builds a router from it ... *)
Load(r) ==
    /\ staged[r] = Opening
    /\ file \in Loadable
    /\ staged' = [staged EXCEPT ![r] = file]
    /\ UNCHANGED <<Serving, router, pc, by, checkedBy, verdict, answer,
                   counters, scraped>>

(* Mutation: the caller tries again until the file is right. *)
FailAndRetry(r) ==
    /\ staged[r] = Opening
    /\ file \notin Loadable
    /\ staged' = [staged EXCEPT ![r] = NoLoad]
    /\ UNCHANGED <<Serving, router, pc, by, checkedBy, verdict, answer,
                   counters, scraped>>

(* Mutation: a config that comes with the package stands in for a broken one. *)
FallBack(r) ==
    /\ staged[r] = Opening
    /\ file \notin Loadable
    /\ staged' = [staged EXCEPT ![r] = CHOOSE c \in Loadable : TRUE]
    /\ UNCHANGED <<Serving, router, pc, by, checkedBy, verdict, answer,
                   counters, scraped>>

(* ... or raises: nothing is published and the next request tries again. *)
FailToLoad(r) ==
    /\ staged[r] = Opening
    /\ file \notin Loadable
    /\ staged' = [staged EXCEPT ![r] = NoLoad]
    /\ Return(r, "config_error")
    /\ UNCHANGED <<Serving, router, by, checkedBy, verdict, counters, scraped>>

(* The assignment to _router, whatever it holds by now. The return that     *)
(* follows reads the global again: that is the caller's next step.          *)
Publish(r) ==
    /\ staged[r] \in Loadable
    /\ router' = staged[r]
    /\ staged' = [staged EXCEPT ![r] = NoLoad]
    /\ UNCHANGED <<Serving, pc, by, checkedBy, verdict, answer, counters, scraped>>

-------------------------------------------------------------------------------
(* The rest of resolve(). *)

(* Mutation: an except clause that takes a rule that raises for no match. *)
RouteSwallows(r) ==
    /\ pc[r] = "routing" /\ NeedsRouter(r)
    /\ router # NoRouter
    /\ by' = [by EXCEPT ![r] = router]
    /\ IF RouteOf(router, uri[r]) = "match"
         THEN Goto(r, "validating") /\ UNCHANGED <<answer, outcomes>>
         ELSE record_request("not_found") /\ Return(r, "not_found")
    /\ UNCHANGED <<Serving, router, staged, checkedBy, verdict, validations, scraped>>

(* The routes of the router that get_router() returned; resolve() goes on  *)
(* to the validator only with a match.                                     *)
Route(r) ==
    /\ pc[r] = "routing" /\ NeedsRouter(r)
    /\ router # NoRouter
    /\ by' = [by EXCEPT ![r] = router]
    /\ \/ /\ RouteOf(router, uri[r]) = "match"
          /\ Goto(r, "validating")
          /\ UNCHANGED <<answer, outcomes>>
       \/ /\ RouteOf(router, uri[r]) = "none"
          /\ record_request("not_found")
          /\ Return(r, "not_found")
       \/ /\ RouteOf(router, uri[r]) = "raises"
          /\ Return(r, "routing_error")
          /\ UNCHANGED outcomes
    /\ UNCHANGED <<Serving, router, staged, checkedBy, verdict, validations, scraped>>

(* The second get_router() call, for the validator. *)
Validate(r) ==
    /\ pc[r] = "validating"
    /\ checkedBy' = [checkedBy EXCEPT ![r] = router]
    /\ IF Asks(ValidatorOf(router))
         THEN Goto(r, "waiting") /\ UNCHANGED verdict
         ELSE /\ Goto(r, "validated")
              /\ verdict' = [verdict EXCEPT ![r] = Unasked(ValidatorOf(router))]
    /\ UNCHANGED <<Serving, router, staged, by, answer, counters, scraped>>

(* The downstream answers, or its failure comes back. *)
Downstream(r) ==
    /\ pc[r] = "waiting"
    /\ \E reply \in Reply :
         IF Raises(reply)
           THEN Return(r, "validator_error") /\ UNCHANGED verdict
           ELSE /\ verdict' = [verdict EXCEPT ![r] = Judge(ValidatorOf(checkedBy[r]), reply)]
                /\ Goto(r, "validated") /\ UNCHANGED answer
    /\ UNCHANGED <<Serving, router, staged, by, checkedBy, counters, scraped>>

(* Mutation: a verdict without a profile is counted too. *)
CountEveryValidation(r) ==
    /\ pc[r] = "validated"
    /\ Goto(r, "counted")
    /\ validations' = [validations EXCEPT ![verdict[r].ok] = @ + 1]
    /\ UNCHANGED <<Serving, router, staged, by, checkedBy, verdict, answer,
                   outcomes, scraped>>

(* record_validation, unless there is no profile and so no payload. *)
CountValidation(r) ==
    /\ pc[r] = "validated"
    /\ Goto(r, "counted")
    /\ validations' = IF verdict[r].profile
                        THEN [validations EXCEPT ![verdict[r].ok] = @ + 1]
                        ELSE validations
    /\ UNCHANGED <<Serving, router, staged, by, checkedBy, verdict, answer,
                   outcomes, scraped>>

(* build_linkset raises, after the verdict has been counted and before the  *)
(* request is.                                                              *)
FailToLink(r) ==
    /\ pc[r] = "counted"
    /\ LinksOf(by[r], uri[r]) = "unlistable"
    /\ Return(r, "linkset_error")
    /\ UNCHANGED <<Serving, router, staged, by, checkedBy, verdict, counters, scraped>>

(* The response cannot be made: of these links, or of a link-set with this  *)
(* verdict in it.                                                           *)
Unprintable(r) ==
    \/ LinksOf(by[r], uri[r]) = "unprintable"
    \/ /\ LinksOf(by[r], uri[r]) = "links"
       /\ OutcomeOf(uri[r]) = "resolved" /\ Spoils(verdict[r])

(* Mutation: a request whose response cannot be made is not counted. *)
FinishUncounted(r) ==
    /\ pc[r] = "counted"
    /\ LinksOf(by[r], uri[r]) # "unlistable"
    /\ IF Unprintable(r)
         THEN Return(r, "response_error") /\ UNCHANGED outcomes
         ELSE record_request(OutcomeOf(uri[r])) /\ Return(r, OutcomeOf(uri[r]))
    /\ UNCHANGED <<Serving, router, staged, by, checkedBy, verdict,
                   validations, scraped>>

(* The link-set goes out, or a redirect. It has been counted before it is   *)
(* put into a response.                                                     *)
Finish(r) ==
    /\ pc[r] = "counted"
    /\ LinksOf(by[r], uri[r]) # "unlistable"
    /\ record_request(OutcomeOf(uri[r]))
    /\ Return(r, IF Unprintable(r) THEN "response_error" ELSE OutcomeOf(uri[r]))
    /\ UNCHANGED <<Serving, router, staged, by, checkedBy, verdict,
                   validations, scraped>>

-------------------------------------------------------------------------------
(* The endpoints that run in worker threads. *)

(* gs1_resolver_description(), with the router that get_router() returned;  *)
(* it is printed after it has been built.                                   *)
DescribeSelf(r) ==
    /\ pc[r] = "describing" /\ NeedsRouter(r)
    /\ router # NoRouter
    /\ by' = [by EXCEPT ![r] = router]
    /\ Return(r, IF router \in Describable THEN "served" ELSE "response_error")
    /\ UNCHANGED <<Serving, router, staged, checkedBy, verdict, counters, scraped>>

healthz(r) ==
    /\ pc[r] = "probing"
    /\ Return(r, "served")
    /\ UNCHANGED <<Serving, router, staged, by, checkedBy, verdict, counters, scraped>>

(* prometheus_metrics(): the counters are copied in one critical section. *)
prometheus_metrics(r) ==
    /\ pc[r] = "scraping"
    /\ scraped' = [scraped EXCEPT ![r] = [outcomes    |-> outcomes,
                                          validations |-> validations]]
    /\ Return(r, "served")
    /\ UNCHANGED <<Serving, router, staged, by, checkedBy, verdict, counters>>

-------------------------------------------------------------------------------
(* The environment. *)

(* The operator, or a half-finished copy, changes the config file. *)
Edit ==
    /\ file' \in Config \ {file}
    /\ since' = since \cup {file'}
    /\ UNCHANGED <<router, staged, pc, uri, by, checkedBy, verdict, answer,
                   counters, scraped>>

(* The process is stopped or dies, and a new one takes over: its module     *)
(* state is fresh, and every request the old one had is lost, also those    *)
(* it has answered: the counts that follow are of the new process.          *)
Restart ==
    /\ since' = {file}
    /\ router' = NoRouter
    /\ staged' = [r \in Loader |-> NoLoad]
    /\ pc' = [r \in Request |-> IF pc[r] = "new" THEN "new" ELSE "gone"]
    /\ outcomes' = [o \in Outcome |-> 0]
    /\ validations' = [b \in BOOLEAN |-> 0]
    /\ UNCHANGED <<file, uri, by, checkedBy, verdict, answer, scraped>>

-------------------------------------------------------------------------------

GetRouter(r) == Miss(r) \/ Load(r) \/ FailToLoad(r) \/ Publish(r)

resolve(r) ==
    \/ Reject(r) \/ Admit(r) \/ GetRouter(r) \/ Route(r) \/ Validate(r)
    \/ CountValidation(r) \/ FailToLink(r) \/ Finish(r) \/ Respond(r)

describe(r) ==
    \/ Dispatch(r, "describing") \/ GetRouter(r) \/ DescribeSelf(r) \/ Respond(r)

probe(r)  == Dispatch(r, "probing") \/ healthz(r) \/ Respond(r)
scrape(r) == Dispatch(r, "scraping") \/ prometheus_metrics(r) \/ Respond(r)

Environment ==
    \/ Edit \/ Restart
    \/ \E r \in Request : Arrive(r)
    \/ \E r \in Resolve : Downstream(r)

Next ==
    \/ \E r \in Resolve  : resolve(r)
    \/ \E r \in Describe : describe(r)
    \/ \E r \in Probe    : probe(r)
    \/ \E r \in Scrape   : scrape(r)
    \/ Environment

(* The loop and the worker threads are scheduled: a request's own steps are *)
(* taken. Nothing obliges the environment to act.                           *)
ProgramFairness ==
    /\ \A r \in Resolve  : WF_vars(resolve(r))
    /\ \A r \in Describe : WF_vars(describe(r))
    /\ \A r \in Probe    : WF_vars(probe(r))
    /\ \A r \in Scrape   : WF_vars(scrape(r))

Spec == Init /\ [][Next]_vars /\ ProgramFairness

(* As Spec, where a downstream call ends sooner or later: a reply, a timeout *)
(* or a broken connection.                                                   *)
TimelySpec == Spec /\ \A r \in Resolve : WF_vars(Downstream(r))

-------------------------------------------------------------------------------
(* Properties. *)

(* The process holds, builds and uses only configs that the file has held   *)
(* since the process started: after a restart nothing of an older config is *)
(* left, in the router, in a load under way or in a request being handled   *)
(* (get_router, Router.load, resolve).                                      *)
ConfigsAreCurrent ==
    /\ router # NoRouter => router \in since
    /\ \A r \in Loader :
         /\ staged[r] \in Loadable => staged[r] \in since
         /\ pc[r] # "gone" /\ by[r] # NoRouter => by[r] \in since
    /\ \A r \in Resolve :
         pc[r] # "gone" /\ checkedBy[r] # NoRouter => checkedBy[r] \in since

(* A router is in place and no request is still loading one. *)
Drained == router # NoRouter /\ \A r \in Loader : staged[r] = NoLoad

(* get_router() has no lock, so several first callers may each load the     *)
(* config. Once they are through, the config is settled: no later request   *)
(* loads it again or changes the router, however often the file is edited;  *)
(* only a restart does.                                                     *)
SettledOnceDrained ==
    [][Drained => \/ Drained' /\ router' = router
                  \/ router' = NoRouter]_vars

Handled == {"returning", "answered"}

(* A resolve whose response could not be made has been counted by then. *)
CountedAs(r) == IF answer[r] = "response_error" THEN OutcomeOf(uri[r]) ELSE answer[r]

(* requests_total counts each resolve that this process has finished with   *)
(* an outcome once, under that outcome, and besides those the ones whose    *)
(* response could not be made, under the outcome they should have had; no   *)
(* probe, scrape or description, no request that failed in any other way or *)
(* is still being handled (record_request in resolve).                      *)
RequestsAccounted ==
    \A o \in Outcome :
        outcomes[o] = Cardinality({r \in Resolve : pc[r] \in Handled /\ CountedAs(r) = o})

(* validations_total counts each verdict that names a profile once, whether *)
(* or not its request has been answered yet, and none of a no-op.           *)
ValidationsAccounted ==
    \A b \in BOOLEAN :
        validations[b] =
          Cardinality({r \in Resolve : /\ pc[r] \in {"counted"} \cup Handled
                                      /\ verdict[r].profile /\ verdict[r].ok = b})

(* The resolves that failed between their two calls into metrics. *)
Unlinked == {r \in Resolve : pc[r] \in Handled /\ answer[r] = "linkset_error"}

LagsByOne(seen) ==
    seen.validations[TRUE] + seen.validations[FALSE]
      <= seen.outcomes["resolved"] + seen.outcomes["redirect"] + Cardinality(Unlinked) + 1

(* What a scrape, in its worker thread, can see of a half-handled request:  *)
(* but for the requests that failed while their links were being listed, at *)
(* most one verdict is counted whose request is not counted yet, since only *)
(* one resolve() at a time is between its two calls into metrics. It holds  *)
(* of the counters at any moment, and so of what a scrape has copied.       *)
ScrapesLagByOne ==
    /\ LagsByOne([outcomes |-> outcomes, validations |-> validations])
    /\ \A s \in Scrape : pc[s] \in Handled => LagsByOne(scraped[s])

(* Every answer of a resolve has its reason in the configs that were in     *)
(* force, also when the router changed under the request: the 404, the      *)
(* redirect and the link-set in the config that routed it, a 500 in a file  *)
(* that could not be loaded, a rule that raises, a validator that calls     *)
(* out, links that cannot be listed or printed, or a verdict that cannot    *)
(* be printed and that the validator could have come to.                    *)
HasReason(r) ==
    /\ answer[r] \in Outcome \cup Failure
    /\ answer[r] = "bad_request"     => uri[r] \notin Readable
    /\ answer[r] = "not_found"       => RouteOf(by[r], uri[r]) = "none"
    /\ answer[r] = "config_error"    => ~ (since \subseteq Loadable)
    /\ answer[r] = "routing_error"   => RouteOf(by[r], uri[r]) = "raises"
    /\ answer[r] = "validator_error" => Asks(ValidatorOf(checkedBy[r]))
    /\ answer[r] \in {"resolved", "redirect"} =>
         /\ RouteOf(by[r], uri[r]) = "match" /\ answer[r] = OutcomeOf(uri[r])
         /\ LinksOf(by[r], uri[r]) \in {"links", "bare"}
    /\ answer[r] = "linkset_error" =>
         RouteOf(by[r], uri[r]) = "match" /\ LinksOf(by[r], uri[r]) = "unlistable"
    /\ answer[r] = "response_error" =>
         /\ RouteOf(by[r], uri[r]) = "match" /\ Unprintable(r)
         /\ verdict[r] \in Verdicts(ValidatorOf(checkedBy[r]))

AnswersHaveReasons == \A r \in Resolve : pc[r] \in Handled => HasReason(r)

(* At most one request is inside resolve(), and the loads in progress are   *)
(* those of requests inside get_router(): what the counts rest on.          *)
HandlersTakeTurns ==
    /\ \A r, q \in Resolve : pc[r] \in OnLoop /\ pc[q] \in OnLoop => r = q
    /\ \A r \in Loader : staged[r] # NoLoad => pc[r] \in {"routing", "describing"}

(* Every request that arrives is answered, or the process goes away: no     *)
(* first caller waits on another, and no thread, the health probe's         *)
(* included, on the loop for ever - provided that downstream calls end.     *)
EveryRequestEnds ==
    \A r \in Request : pc[r] = "queued" ~> pc[r] \in {"answered", "gone"}

(* The process keeps its contract: to its clients, each request is answered *)
(* in one step, by configs in force since the process started, and counted  *)
(* in that step, whatever loads, threads and validators did meanwhile.      *)
PhaseOf(place) ==
    CASE place = "new"        -> "expected"
      [] place \in Handled    -> "answered"
      [] place = "gone"       -> "gone"
      [] OTHER                -> "open"

Phases == [r \in Request |-> PhaseOf(pc[r])]

Contract == INSTANCE ResolverContract WITH phase <- Phases, Plain <- Probe \cup Scrape

KeepsContract == Contract!Spec

-------------------------------------------------------------------------------
(* What the documentation says of the service, and its code does not do. *)

(* docs/deployment.md:27: "config is read once at startup"; a change means  *)
(* a restart. The router, once set, does not change in a running process.   *)
ConfigReadOnce == [][router # NoRouter => router' \in {router, NoRouter}]_vars

(* validator.py:22: validators are "advisory only": no validator fails a    *)
(* request.                                                                 *)
ValidationIsAdvisory ==
    \A r \in Request : answer[r] # "validator_error"

===============================================================================

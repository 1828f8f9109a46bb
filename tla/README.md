# Verification of the GS1 Digital Link resolver

TLA+ models of the resolver under `src/resolver`, the TLC configurations that
model-check them on small instances, and TLAPS proofs that hold for every
instance. Paths below are relative to `src/`, line numbers are of the modelled
commit.

1. [The system](#the-system)
2. [The modules](#the-modules)
3. [The runs](#the-runs)
4. [Fairness](#fairness)
5. [The proofs](#the-proofs)
6. [Where the code and its documentation disagree](#where-the-code-and-its-documentation-disagree)
7. [What is not modelled](#what-is-not-modelled)
8. [Plan](#plan)

## The system

The resolver is one process. A request path is parsed as a GS1 Digital Link, a
route is looked up for it in a config file, a validator is asked about the
result, and the answer is a link-set or a redirect.

| Part | State | Operations | Talks to |
|---|---|---|---|
| HTTP service (`resolver/app.py`) | the global `_router`; requests under way | `resolve`, `gs1_resolver_description`, `healthz`, `prometheus_metrics`, the middleware, `get_router` | all the others |
| Routing and config (`resolver/router.py`) | a `Router`: rules and a validator | `load`, `_validate_config`, `resolve`, `_fill`, `forward_query` | the config file; `load_validator` |
| Validators (`resolver/validator.py`) | a profile, an endpoint or a schema | `validate` of four kinds: noop, smoke, schema, http | a downstream over HTTP |
| Metrics (`resolver/metrics.py`) | four groups of counters, one lock | `record_request`, `record_validation`, `render` | none |
| Digital Link parser (`resolver/parser.py`, `resolver/ai_table.py`) | none | `parse`, `as_dict`, `canonicalise`, the GTIN check digit | the AI table |
| Link-sets (`resolver/linkset.py`) | none | `build_linkset`, `build_jsonld`, `default_link_href` | none |
| Negotiation (`resolver/negotiate.py`) | none | `parse_accept`, `select_media_type` | none |
| Resolver description (`resolver/wellknown.py`) | none | `validate_well_known_config`, `derive_primary_keys`, `build_well_known` | the loaded config |
| Logging (`resolver/logging_config.py`) | none | formatting | none |

**Concurrency.** `resolve()` is an `async def` with no `await`: from its first
line to its return it holds the event loop, the blocking call to a downstream
validator included. The other endpoints are plain `def`s, which the framework
runs in worker threads; they interleave with the loop, but need it to be
dispatched and to send their response. Loop and threads share `_router`, which
`get_router()` checks, loads and assigns with no lock, and the counters, behind
a lock.

**Failure.** The config file may be changed, or broken, at any time; it is read
when the first request needs it. A downstream may be slow, down, or reply with
something unforeseen. The config checks leave much unread: a rule may raise when
it is tried, a link may be one that no link-set can be built of, or that JSON
cannot represent, and the request then fails at whatever point it has come to.
The process may be stopped at any time and keeps nothing.

**What makes each part correct.**

* Service: configs in use are ones the file held in this process's life; every
  answer has a reason in a config in force; racing first callers settle on one
  router; each request that reaches an outcome is counted once; every request ends. To its
  clients the process is one that answers each request in one step.
* Metrics: no update is lost; a scrape is a picture of one instant.
* Parser: a well-formed link is read pair by pair; what a link identifies is
  settled by its first primary key; canonical forms read like the link they
  stand for and do not depend on the order it was printed in, but for what is cut
  at a semicolon.
* Link-sets and negotiation: a filter narrows to one relation or not at all;
  spelling does not matter; the best acceptable offer is chosen; a link that is
  broken fails no answer that it is not part of.
* Routing and config: the first matching rule wins and later ones yield to it;
  templates are filled from the link and forward what is listed; a link and its
  canonical form lead to the same place; a mistyped GTIN leads nowhere.
* Description: a key that a clause names, and that is routed, is advertised.

The hazards, each at its line with the properties that would show it going
wrong, are listed in `PROJECT.json`.

## The modules

| Module | Models | Composes |
|---|---|---|
| `ResolverService` | `app.py`: the process | `Validators`; refines `ResolverContract` |
| `ResolverContract` | what `app.py` promises its clients: each answer is one step | `Validators` |
| `Validators` | `validator.py`: what a result may be | |
| `Metrics` | `metrics.py`: counters and lock, at each read and write | refines `MetricsLedger` |
| `MetricsLedger` | what `metrics.py` promises: each call is one step | |
| `AITable` | `ai_table.py`: the whole table | |
| `Collections` | Python's conditional list comprehension and dicts, as proofs need them | |
| `Parser` | `parser.py`: reading a link, writing its canonical form | `AITable`, `Collections` |
| `CheckDigit` | `parser.py`: the check digit and padding of a GTIN | |
| `DigitalLink` | a carrier's path, read and written | `Parser` |
| `Routing` | `router.py`: checks, clauses, templates, queries; `wellknown.py`: the keys advertised | `Collections` |
| `Resolution` | the first half of `resolve()` in `app.py`, from a printed link to a target | `Parser`, `CheckDigit`, `Routing` |
| `LinkSets` | `linkset.py` | `Collections` |
| `Negotiation` | `negotiate.py` | |
| `Answering` | the second half of `resolve()`, from a target and links to a response | `LinkSets`, `Negotiation` |
| `MC...` | the small instances | |
| `...Proofs` | theorems and proofs; see [The proofs](#the-proofs) | |

The request's path through the code is thus cut in three: `Resolution` and
`Answering` are what the handler computes, for every input up to a bound;
`ResolverService` is when it computes it, between what other requests do. What
the computations come to is there a constant: `Readable` is `Accepted` of
`Resolution`, `Loadable` and `RouteOf` are the outcomes of its `Answer`, and
`LinksOf` says whether the links of the route can be listed and printed, which is
`raises` and `prints` of `LinkSets`.

### ResolverService

| Variable | In the code |
|---|---|
| `file` | the file at `CONFIG_PATH` |
| `router` | `_router`, as the config it was built from |
| `staged` | the `Router` that a caller of `get_router` is building |
| `pc`, `answer` | where a request is, and its outcome or failure |
| `by`, `checkedBy` | the routers that the two `get_router()` calls of a resolve returned |
| `verdict` | `validation_payload` |
| `outcomes`, `validations` | `metrics._requests`, `metrics._validations` |
| `scraped` | what `metrics.render` copied |
| `since` | ghost: the contents the file has had in this process's life |

`get_router` is three steps, which is what other threads can tell apart: the
test that finds `_router` empty (`Miss`), the reading of the file (`Load`,
`FailToLoad`), and the assignment (`Publish`). The `return _router` that follows
reads the global again; it is the caller's next step, so it may return a router
that another thread has published meanwhile.

`resolve` is `Reject` or `Admit`, its two `get_router` calls (`Route`,
`Validate`), the downstream's reply (`Downstream`), its two calls into metrics
(`CountValidation`, `Finish`), and the failure between them (`FailToLink`): an
`hreflang` that is neither a text nor a list makes `build_linkset` raise
(`linkset.py:104`), when the verdict has been counted and the request has not.
`Finish` counts the request before the response is rendered (`app.py:184`, `187`):
when links or verdict cannot be printed (`Unprintable`) it is answered with a
500, `response_error`, and has been counted as resolved. All those that are not the first require
the request to be on the loop; the first, and `Dispatch` and `Respond`, which
are the loop's own work, require that no resolve is on it. The counters are
updated in one step each: that they may be is what `Metrics` shows.

A second router is published only if several callers missed the first one, and
such a caller is on the loop, or in a thread. So the router can change under a
resolve between its routes and its validator; `by` and `checkedBy` differ then.

### ResolverContract

The contract has the file and its past, a phase and an answer for each request,
and the request counters. A 500 is an answer like the others, and needs a reason
like the others: a content of the file that does not load, or one with a rule
that raises, a validator that calls out, links that cannot be listed or printed,
or a validator with a verdict that cannot be (`Justified`). It has no router, no loads, no event loop, no threads
and no validator that is waited for: a request is open, and then, in one step,
answered, for a reason that lies in the contents that the file has had since
the process started, and counted. In the refinement a request is open from its
arrival until its handler is through - `Finish`, or a step that fails - and
the mapping (`PhaseOf`) folds all places in between into one. What a client may
see of a race is then exactly what the contract allows: that two requests are
answered by different contents of the file, and one request by the routes of one
and the validator of another.

### Validators

A verdict is reduced to what `resolve` does with it: whether it is ok, whether it
names a profile - without one there is no payload and no count (`app.py:167`) -
and whether JSON can represent it (`plain`): the sidecar is rendered with the
link-set, and a profile that is a YAML date, or a NaN among the errors that a
validation service replied, cannot be. A downstream's reply is one the validator
reads, one that its `except` clause catches, or one that it does not
(`unforeseen`).

### Metrics and MetricsLedger

A call takes the lock, reads and writes each of its counters - two steps each -
and releases the lock. A counter is the set of the calls it has counted. The
number in the code is the cardinality of that set; a lost update is a call that
is missing from it. `MetricsLedger` has one step for a call and one for a
scrape. The refinement mapping takes a call to be counted when it has written
its last counter, and a scrape to be taken when it has copied its last group. The
last group is `_version`, which `render` copies under the lock too: it holds no
counter, and no call changes it.

### AITable, Parser and DigitalLink

A URI is the sequence of its tokens, the texts between slashes. `urlparse` takes a
token behind two slashes for the host, and drops what follows a `;` in the last
token, not in any other: `urlparse` of the module does, with `Cut` for a token up
to its semicolon. In the path that is left, the code translates alpha names by their position (`_normalise_alpha`), and finds
numeric pairs by a regular expression that may match anywhere (`FindAll`): the
properties are about where these two agree. The table of AIs is the real one.
`Number`, `Cut`, `Lower`, `Pad`, `Quote` and `Unquote` are constants. What is
assumed of them holds of the code's: the table's AIs are numbers and no number is
spelt like a name (`NumbersAssumption`); nothing is cut to nothing
(`CutAssumption`); tokens form paths (`TokensAssumption`); padding makes nothing
of what is something, and decoding undoes encoding (`ConversionsAssumption`). That
is decoding of a token, wherever it stands: a semicolon that `Quote` has encoded
is one again when the path arrives, and a canonical form that ends in it is cut.
The properties about canonical forms have that as their condition (`EndsWhole`). The scan, and the filters and dicts of
`Collections`, are recursive functions or selections by position: they read as
the code does, and proofs can unfold them. The canonical form is built in two
stages, as the list of its pairs (`CanonicalPairs`) and as the tokens that print
them. The behaviours of `DigitalLink` are those of a printer that prints a path
token by token, or pair by pair, so that every path up to a length is read, and
so that "one more token" is a step that an action property can speak of.

### CheckDigit

A GTIN is the sequence of its digits. The weighted sum is written out, since a
sum of fourteen terms can be reasoned about and a fold cannot.

### Routing

A rule of the config is a record; its clauses are a function from the names of
those it has, so that a catch-all has the empty function. Clauses are tried in
the order of the code, and the first that does not hold decides: one behind it
that would raise is not reached. How a prefix, a pattern and a list are compared
is left to constants; a pattern may raise, and so may a `serial_in` that is no
container. A field that the config checks reject is `Malformed`;
`link_types: null`, which they pass and `load` raises on, is `Null`; a title that
is no string, which they pass and `_fill` raises on, is `NoText`.

Here characters matter, and texts have them: a text is the sequence of its
characters, a template the sequence of the texts it is written in, and `Spelt`
gives the characters of a key or a value. `_fill` takes the keys one after the
other in the order of the code (`Keys`): longest first, and among those of one
length in the order in which `as_dict` has put them in. For each, `Replaced` is
`str.replace` on the whole text, from the left, in the values that have been
filled in before as in the template. `_append_query` splits what has been filled
at its first `#` and `?` (`urlsplit`) and reads its query pair by pair
(`parse_qsl`), so that a value with an ampersand has become pairs of its own;
`Splits` are the texts that `urlsplit` takes, since it raises at an open bracket
in a host. A URL is told by what it reads as: base, pairs and fragment. When there
is nothing to forward the code does not split and encode it again, and it reads
the same.

### Resolution

The operator adds rules and the carrier's path and query grow, one piece at a
time, so that every combination up to the bounds is resolved. Tokens are as
they are printed, percent-encoded. The web server decodes the path, and
`resolve()` puts the decoded path in front of the raw query and has the whole
parsed again. So an encoded slash starts a token and an encoded `?` or `#` ends
the path (`Received`); and what stands behind such a `?`, the rest of the path
and the printed query together, is what is read as the query (`ReceivedQuery`,
which splits it as `urlsplit` does). The rest is the composition: `Accepted`
(length, parse, check digit), `load`, `resolve`.

Assumed are that bounds are numbers (`BoundAssumption`), that fields which the
config checks pass are lists where they have to be (`RulesAssumption`), that
tokens decode to tokens and a parameter is a name and a value
(`CarrierAssumption`), that decoding undoes quoting and padding leaves fourteen
digits alone (`QuotingAssumption`), and of keys that they are of one to fourteen
characters, have no braces and differ when they are spelt out
(`SpellingAssumption`). TLC evaluates all of these on the instances, the last two
on the real table. Nothing is assumed of how prefixes, patterns and lists are
compared, or of how a query is decoded.

### LinkSets, Negotiation and Answering

`Answering` grows a route's links and a client's Accept header one at a time,
under every `linkType` parameter, and answers each combination. A link is its
relation, its href and its detail, which stands for type, title and languages:
these are carried along by the code, and no check has looked at them. `hreflang`
may be something that cannot be listed, on which `build_linkset` raises if the
link is among those that it shows; or there is something that JSON cannot
represent, on which the rendering of a link-set raises, but not a redirect. An
href that a template has when it is filled with nothing is taken for no href by
the code, and is `None`. Assumed are that a link is those three and a relation in
full is left as it is (`LinksAssumption`), and
that q-values are numbers that
can be compared (`EntriesAssumption`): Python's `float` also reads `q=nan`, which
compares with nothing and is not modelled.

## The runs

Each run asks one question. A "violation" run checks one statement of the
documentation that the code does not keep; see below for those.

| Run | Question | Distinct states |
|---|---|---|
| `loading` | First callers race to load a changing config, with restarts: what do they use and answer, does every request end, and is it all as if in one step? | 134 162 |
| `counting` | Are the counters, and what a scrape sees of them, exact, whatever fails in between? | 1 667 900 |
| `metrics` | Do the locked counters implement the ledger, and does every call return? | 1 503 |
| `links` | What does the parser make of every short path? | 97 371 |
| `resolution` | Where does every small config lead every short link? | 312 782 |
| `answers` | What does the tail of `resolve` make of every small route and header? | 196 824 |

**Bounds, and why they are enough.**

* `loading`: one resolve on the loop, a description in a thread, and a health
  probe, which needs the loop without being on it. The races are between a load
  before an edit, a load after it, and a request that uses the router twice:
  the two first callers are enough for each, since edits and restarts are not
  bounded. Three contents of the file - two that load, with different routes and
  validators, and one that does not - so that a stale router, a mixed request
  and a failure can be told apart. Each request goes through once, so the state
  space is finite. That more callers change nothing is what the theorems say.
* `counting`: two resolves, since the loop lets only one be between its two
  calls into metrics and the second shows that it does; a scrape in a thread.
  Three validators: none, one with a profile, and one whose profile comes from
  the reply. Four URIs: one that is turned away; one that gets a link-set, or
  under one config links that cannot be printed; the same in a browser, under one
  config without links; and one whose links cannot be listed. The resolves are
  symmetric, all properties being invariants. `loading` has the same URIs.
* `metrics`: two requests with the same outcome, so that all three of their
  counters are contended, one validation, two scrapes. Every interleaving.
* `links`: paths of at most five tokens out of nine, which is enough for a
  host or a prefix, a primary key, its value and another pair, with tokens that
  are cut to a value, to a name and to nothing; and of at most four pairs out of
  thirteen, of every category, enough for two qualifiers that the primary key
  orders, one that it does not, an attribute of another length, and a value with
  a semicolon that one order of the pairs has last and another has not.
* `resolution`: two rules with four tokens, which is a GTIN or an asset and one
  more pair, and with two tokens and each well-known block; one rule with two
  parameters, which is one that is listed and one that is not, or one twice; one
  rule with six tokens, which is three pairs, enough for two values of which one
  holds the other's placeholder. The thirteen rules have all five clauses, both
  clauses that may raise, a title and a host on which filling raises, a stray
  brace, both forms of config that do not load, and links; the eighteen pairs
  have GTINs that are right, mistyped and short, names, repeated keys, an AI
  that is unknown, encoded signs, values with braces, with a semicolon and with
  an ampersand, and an oversized value. Words are taken for characters, which is
  enough for a value to hold a placeholder, or a query.
* `answers`: at most three links with one entry in the header, one link with two
  entries, and no link with three entries: the header only decides whether the
  links matter, so the two need not both be large. The nine links have relations
  spelt in both ways, one without an href, one that cannot be listed and one that
  cannot be printed.

**What they show.**

| Property | Meaning |
|---|---|
| `ConfigsAreCurrent` | After a restart nothing of an older config is left, in the router, in a load or in a request. |
| `AnswersHaveReasons` | Each 404, redirect, link-set and 500 is explained by a config in force, though the router may change under a request. |
| `SettledOnceDrained` | Once a router is in place and no request is loading, nothing but a restart changes it. |
| `HandlersTakeTurns` | At most one resolve is under way; loads belong to requests inside `get_router`. |
| `RequestsAccounted` | Each resolve that reaches an outcome is counted once, under it - also when the response then cannot be made - and no request that fails before. |
| `ValidationsAccounted` | Each verdict with a profile is counted once, under its label. |
| `ScrapesLagByOne` | But for the requests that failed while their links were listed, a scrape is at most one verdict ahead of the requests. |
| `EveryRequestEnds` | A request that arrives is answered, or its process is gone. |
| `KeepsContract` | To its clients the process is one that answers, justifies and counts each request in one step. |
| `NoUpdateLost`, `ScrapeConsistent` | A counter holds all its updates; the latency count of a scrape is its requests. |
| `ImplementsLedger` | The lock makes each call one step. |
| `EveryCallReturns` | The lock is never kept, nor waited for for ever. |
| `ReadsThePairs` | On a path of AI/value pairs, translation and scan agree: the pairs read are those printed. |
| `KeyIsSettled` | Tokens after the first primary key neither change it nor make the parser fail; its value changes only from one that was cut at the path's end to the whole. |
| `CanonicalReadsAlike` | The canonical form reads as its link, unless it ends in a value with a semicolon: only unknown AIs are lost. |
| `CanonicalDeduplicates` | The canonical form does not depend on the order of the pairs, or on names or numbers, in all orders that do not end in a value with a semicolon. |
| `LaterRulesYield` | A rule added at the end changes no answer that the rules before it gave, failures included. |
| `FilledFromTheLink` | Key after key on the whole text comes to this: each placeholder with a value is replaced by it, and nothing else is touched - as long as braces are those of placeholders. |
| `ForwardsWhatIsListed` | Target and links get all the values of the parameters that are listed, behind the pairs that the filled template reads as, and no others. |
| `PinnedKeysAreAdvertised` | The derived description has the key of every link that a `primary_ai` clause led somewhere, and `01` where a prefix or a pattern led a GTIN. |
| `CanonicalResolvesAlike` | A link and its canonical form lead to the same target and links, unless the form ends in a value with a semicolon or is too long, as long as braces are those of placeholders. |
| `MistypedGtinIsRefused` | Had one digit of an accepted GTIN been another, it would not be accepted. |
| `LinkTypeNarrows` | `?linkType=` gives all links of one relation, or the full set. |
| `BrokenLinksAreConfined` | A client that asks for a relation whose links are in order is answered, whatever stands beside them. |
| `SpellingIsIrrelevant` | `gs1:pip` and its full IRI are one relation, in configs and in requests. |
| `BestOfferIsChosen` | The offer of the best entry that stands for one; the server's first among several. |
| `DefaultIsStable` | Adding a link does not move the default, unless it is a default link. |

Each property can fail: `PROJECT.json` names, for each, a mutated operation
(next to the original in its module, marked "Mutation") under which TLC finds
it violated.

The pure modules have no deadlock check: a path or header of full length has no
successor. The service has one and does not deadlock, since a file can always
be edited; `Metrics` stops only in `Terminated`.

## Fairness

`ProgramFairness`: weak fairness of each request's own steps. The event loop
runs the tasks it has and the operating system runs the threads. Weak is enough
for `Dispatch`, `Admit` and `Respond` although they need the loop idle, since
each request goes on the loop once at most: in the end it stays idle. That is a
bound of the model, a finite number of requests; under endless load the same
claim rests on the loop's queue being first in, first out.

`TimelySpec` adds weak fairness of `Downstream`: calls to a downstream end, in a
reply, a failure or a timeout. `httpx` has a timeout for each wait of a call,
not for the call: what is assumed is that no downstream sends its reply in
drops for ever.
Without it `EveryRequestEnds` fails, and not only for the waiting request: the
health probe, too, waits for the loop that `resolve()` holds.

Nothing obliges the environment: requests need not arrive, files need not be
edited or repaired, processes need not be restarted. So no liveness depends on
an operator.

`Metrics`: weak fairness per thread. Each call holds the lock once, so the lock
in the end stays free for a thread that waits.

## The proofs

TLAPS checks the following for any number of requests, URIs, configs, rules,
links, tokens, header entries, recording calls and scrapes. All safety
properties of the passing runs are theorems, invariants and action properties
alike, and so are both refinements. The assumptions are the named ASSUMEs of the
modules, which TLC evaluates on each instance: the requests to different
endpoints are different and the resolves finitely many (which the counting
theorems use), what loads has a validator, routes and links come to one of the
outcomes named, and those on conversions, rules and links given with the modules
above.

Eight modules hold the proofs. `CollectionsProofs` and `ParserProofs` are lemmas
about operators; the others prove properties of specifications.

**`ResolverServiceProofs`**

| Theorem | Property |
|---|---|
| `TypeCorrect` | `TypeOK` |
| `TurnsTaken` | `HandlersTakeTurns` |
| `ReasonsHeld` | `AnswersHaveReasons` |
| `Settles` | `SettledOnceDrained` |
| `ConfigsCurrent` | `ConfigsAreCurrent` |
| `OneConfig` | without an edit, routes and validator of a request are of one config |
| `RequestsExact`, `ValidationsExact` | `RequestsAccounted`, `ValidationsAccounted` |
| `ScrapeLag` | `ScrapesLagByOne` |

`Base` is the inductive invariant that the others rest on. `AnswersHaveReasons`
alone is not inductive: a request that is about to finish must already have been
routed with a match. So `Base` says for each place of a request (`Placed`) what
is known there - past routing, that `by` is a config and its route matched;
while waiting, that `checkedBy` selects a validator that calls out; until it is
judged, that there is no payload to count; from then on, that the verdict is one
that the validator of `checkedBy` can come to, which is the reason of a response
that cannot be printed; once it is handled, that its answer has its reason. It also has the file among the
contents it has had, which is what makes a failed load a reason that an edit
cannot take away. There is one lemma per action (`RouteBase`, ...), and two
framing lemmas for the requests and the turns that an action leaves alone.

`Current` adds that new requests have used nothing, so that a restart, which
forgets the file's past, has nothing to invalidate.

The counting theorems are about cardinalities. `StepCounts` shows that a step
other than a restart ends at most one request and increments the counter of the
outcome that it is counted as (`CountedAs`), if any, and leaves the others alone,
and likewise for verdicts;
`RequestsCount` and `ValidationsCount` turn that into the equations, with one
fact about finite sets. `ScrapeLag` then compares sets: verdicts counted whose
requests are not are those of requests that failed in between (`Unlinked`), and of
requests at one place on the loop, of which `HandlersTakeTurns` allows one. A
failure after a scrape only adds to the first set, so that what a scrape has
copied stays within the bound.

**`MetricsProofs`**

| Theorem | Property |
|---|---|
| `TypeCorrect` | `TypeOK` |
| `UpdatesKept` | `NoUpdateLost` |
| `ScrapesConsistent` | `ScrapeConsistent` |
| `Refinement` | `ImplementsLedger` |

The inductive invariant is mutual exclusion (`LockHeld`); that a thread outside
the lock is before its first counter or past its last (`StepsInside`); that what
a thread under the lock has read or copied is what the counters hold
(`ReadsFresh`, `CopiesFresh`); `NoUpdateLost`; and that a finished scrape is
exactly some set of calls (`ScrapesExact`), which outlives the lock. The
refinement has one lemma for the last write of a call, one for the last copy of
a scrape, and one for the steps that stutter.

**`ContractProofs`**

| Theorem | Property |
|---|---|
| `ContractKept` | `KeepsContract` |

Every step of the process is a step of the contract or a stutter. The proof goes
along `Base` and `Current`: a step that ends a request is an `Answer`, which is
justified because `Placed` says that it has been routed with a match by a config
of `since` and judged by the validator of one, and counted because the outcome is
incremented in the same step, or in none if the contract counts none; all
other steps of a request leave its phase alone (`PhaseStep`, `Stutter`). What
`Base` lacks is that only a request that parses gets as far as the routes
(`Admitted`). There is one lemma for each kind of step (`LoaderStep`,
`ResolveStep`, `ThreadStep`, `EnvironmentStep`), over the one that makes an
`Answer` of a step that fixes an answer (`Answers`).

**`CollectionsProofs`**

What a recursive function computes is beyond a library theorem that takes an
operator for a parameter. So induction is stated for a *set* of numbers
(`Induction`, `BackwardInduction`, `StepByStep`), which the provers can
instantiate, and comes from the well-foundedness of the natural numbers. A LET
function is a CHOOSE of a function that satisfies its equation: that one exists
is `BackwardRecursion` for functions computed from the end of a sequence on
(`Picked`, the scan of the parser) and `ForwardRecursion` for those computed from
its beginning (the fold in `FlattenSeq`, the pass of `_fill`). On these rest the
facts that all other proofs cite: what a selection has for members
(`OnlyRange`), that it distributes over concatenation (`OnlyConcatenation`),
what a flattened sequence has for members (`FlattenRange`), and what is selected
from one (`OnlyFlattened`).

**`ParserProofs`**

Lemmas about the parser for any path. `SegmentsType` says what the scan finds
and that a longer path begins with the same pairs; `FindAllAligned` and
`PrintedReads` that a path of numbers and values is read pair by pair;
`PrimaryIndexFirst` and `KeySettles` what routes, with what `urlparse` takes off
either end; `ParseType` and `ParseValues`
what is filed where; `CanonicalPairsAre` which pairs a canonical form has, and
`CanonicalReads` that they read as the link. `Tables` and `SortedKeeps` are about
the real table: its categories do not overlap, and the order in which canonical
forms print has a place for every AI.

**`DigitalLinkProofs`**

| Theorem | Property |
|---|---|
| `TypeCorrect` | `TypeOK` |
| `PairsAreRead` | `ReadsThePairs` |
| `KeyStaysSettled` | `KeyIsSettled` |
| `CanonicalFormsReadAlike` | `CanonicalReadsAlike` |
| `CanonicalFormsDeduplicate` | `CanonicalDeduplicates` |

The invariant is only that a path is a sequence of tokens (`PathType`): the
properties are about what the parser makes of such a path, whatever printed it.
That key and parse survive another token is `KeySettles`, an argument about the
scan: it never looks back, so what it has found it keeps, all but the value of the
last token, which is cut as long as it is the last. The canonical form is read
alike because its decoded tokens are its pairs (`Decoded`) and these read as
the link (`CanonicalReads`). It deduplicates because a parse depends on the
order of the pairs only through repeated AIs (`OrderIsIrrelevant`), and every
arrangement of pairs without them has one routing key (`Rearranged`).

**`AnsweringProofs`**

| Theorem | Property |
|---|---|
| `TypeCorrect` | `TypeOK` |
| `LinkTypeFilters` | `LinkTypeNarrows` |
| `BrokenConfined` | `BrokenLinksAreConfined` |
| `SpellingsAgree` | `SpellingIsIrrelevant` |
| `DefaultStays` | `DefaultIsStable` |
| `BestOfferWins` | `BestOfferIsChosen` |

The link-set theorems go along the stages of `build_linkset`: expanding twice
is expanding once (`ExpandedLinks`), promotion puts one full link last
(`Promoted`), the filter gives all of one relation or everything
(`FilterNarrows`), grouping keeps hrefs in order (`GroupIs`). For `BrokenConfined`
a relation that the route has is one that the filter finds; if it is the default
link's, one is declared and none is promoted; so only its own links are shown. `DefaultStays`
compares the first default link before and after a declaration: either there was
one, which stays first, or the promoted one is the first link still. For
`BestOfferWins` the sort is shown to be a permutation: each place in the order
of preference is taken (`Places`, by counting the entries that go before), so the
first useful entry of the sorted header is the best of the client's.

**`ResolutionProofs`**

| Theorem | Property, or what it says |
|---|---|
| `AnswersTyped` | `TypeOK` |
| `LaterRulesKept` | `LaterRulesYield` |
| `PinnedKeysAdvertised` | `PinnedKeysAreAdvertised` |
| `ForwardsListed` | `ForwardsWhatIsListed` |
| `FilledFromTheLinkAlone` | `FilledFromTheLink` |
| `CanonicalResolves` | `CanonicalResolvesAlike` |
| `MistypedRefused` | `MistypedGtinIsRefused` |
| `MistypingCaught` | a wrong digit, or a swap of neighbours that do not differ by five, makes a valid GTIN invalid |
| `PaddingSettles` | padding twice is padding once; it leaves a GTIN-14 alone and makes one of a GTIN-8, 12 or 13 |

The invariant is that config, path and query are sequences of their pieces,
within their bounds (`InputsAreSequences`).

* Check digit: a GTIN is valid when its weighted sum, check digit included, is a
  multiple of ten. A mistake moves that sum by the difference of the digits,
  once or three times, or by twice the difference of the swapped ones: neither
  can be a multiple of ten. `MistypedRefused` is that at the place where the
  handler checks.
* Rules: the rule that settles a search is the least of those that stop it, and
  a rule behind all others does not change it (`AddedLast`).
* Keys: all clauses of a rule that matches hold (`EveryClauseHolds`), a parsed
  key is one of the table (`KeyIsPrimary`), and the table's keys are ones the
  description may list (`KeysAreSupported`), which are two lists in two files.
* Queries: of the parameters of a name that is listed once, what is selected
  from all that is forwarded is what was given (`ForwardedAre`): the other names
  contribute nothing to it, which is `OnlyFlattened`. A filled
  template has the query that its text reads as, with what is forwarded behind it
  (`FilledQuery`).
* Templates: first what `Replaced` does to a text in two parts. A part in which
  no character begins the old text is passed over (`PassedOver`), and an old text
  that stands in front gives way to the new one (`ReplacedInFront`). A placeholder
  begins with a brace and has none within: in a text without braces it begins
  nowhere, in another placeholder only if the two are the same
  (`NoPartOfAnother`). So replacing in the whole of a tidy template is replacing
  part by part (`PartsReplaced`), values without braces leave it tidy, and one key
  after the other comes to each part having its own value (`OneKeyMore`,
  `TidyIsFilled`). The pass reaches every key because sorting by length loses none
  (`KeysAreNames`, which needs that names have one to fourteen characters), and
  every AI that a link carries is in the order of its context (`LinksAreWellNamed`).
* Canonical form: its tokens decode to values without signs, so it arrives as the
  pairs that were printed (`CanonicalArrives`); its last token is uncut, so it is
  parsed as the link without its unknown AIs (`CanonicalIsParsed`), and clauses,
  search, templates and queries, which read nothing else, come to the same
  (`ResolvedAlike`). The order of the context is different: that it makes no
  difference is `TidyIsFilled` again, and is where braces have to be those of
  placeholders.

**Only model-checked.** Liveness under fairness (`EveryRequestEnds`,
`EveryCallReturns`), which the prover does not do. That the constants of an
instance behave as the code's conversions is evaluated, not proved; that padding
is idempotent is proved of `CheckDigit`'s, where GTINs have digits, while `Pad`
of the parser is a constant.

## Where the code and its documentation disagree

Each has a run whose counterexample shows it.

| Run | The documentation | The code |
|---|---|---|
| `config_switch` | `docs/deployment.md:27`: "config is read once at startup" | Two first callers read it before and after an edit; the later assignment replaces a router that has already served. |
| `advisory` | `validator.py:22`: validators are "advisory only - failures never block resolution" | A 2xx reply whose JSON is not an object raises `AttributeError`; the resolve is answered with a 500. |
| `verbatim` | `parser.py:152`: "Values at the value position are left untouched" | Positions are counted from the root; after a one-token prefix or an empty token, a value that is spelt like an alpha name is rewritten. |
| `carrier_key` | `router.py:21`: listed parameters are "copied from the incoming URI onto the target", so that "a carrier key printed after the "?"" reaches it | The decoded path is put in front of the raw query. Of `/21/A%3Fnk=x?nk=1` the serial is `A`, and there is one parameter `nk`, with the value `x?nk=1`. |
| `discovery` | `wellknown.py:23`: supportedPrimaryKeys is "the set of primary keys the configured routes can actually match" | Three clauses of five are read. A rule that asks for `has_qualifier` or `serial_in` alone routes `/8003/A/21/A`, and only `01` is advertised. |
| `html_target` | `docs/stability.md:49`: `text/html` redirects "to the default link's href" | After `?linkType=` the default link is gone from the link-set, and the redirect goes to the target. |

Noted while reading, without a run of their own:

* `router.py:57`, the resolver must "refuse to start on a broken config rather
  than fail confusingly at request time": the config is loaded by the first
  request that needs it (`app.py:96`). The process starts, `/healthz` is fine, and
  each resolve and description fails with a 500 until the file is repaired.
  `config_error` is that answer, in `AnswersHaveReasons` and in the contract.
* `linkset.py:104`, an `hreflang` that is a number passes the config checks and
  makes each link-set that shows the link a 500, with a verdict counted and no
  request. `app.py:184`, "resolved" is counted before the response is rendered: a
  link or a verdict that JSON cannot represent makes a 500 that counts as
  resolved.
* `router.py:235`, `_fill` replaces "{key} placeholders in template": it replaces
  them in what it has filled in as well. Of a lot `a{ser}b` the target has the
  serial within; a value with an ampersand in the query of a template
  (`?lot={batch}`) becomes parameters that no rule lists (`router.py:249`).
* `docs/deployment.md:210`, every response carries `X-Request-ID`: not when the
  handler raised, since the middleware's code after `call_next` does not run
  (`app.py:75`).
* `metrics.py:76`, "Total resolve requests by outcome": a resolve that ends in
  an exception is in no outcome, unless its response was all that was left to
  make. `RequestsAccounted` says exactly that.
* `docs/deployment.md:206`, `/healthz` is safe to poll frequently: it waits
  behind a resolve that is blocked in its validator.
* `parser.py:11`, unknown AIs are kept "as qualifiers but flagged": they are
  in `unknown_ais` only (`parser.py:132`), and canonical forms drop them.
* `parser.py:210`, attributes in "numeric-AI order": sorted as strings
  (`parser.py:235`), so that 240 comes before 90.
* `linkset.py:16`, every link-set carries a default link: not one that
  `?linkType=` has narrowed, nor that of a route without links.
* `docs/ARCHITECTURE.md:194`, the validation result is attached: not for a route
  without links (`linkset.py:78`).
* `README.md:129`, q-values are honoured: a type with `q=0` is still served
  through a wildcard (`negotiate.py:77`).
* `router.py:28`, templates may reference the primary AI by number: when a link
  has two GTINs the second is filed under the attributes, and `as_dict` lets it
  override the first (`parser.py:78`): checked and routed on one, filled with
  the other.
* An encoded slash in a value (`A%2FB`) starts a new token, since the path comes
  decoded; a path that starts with two slashes loses its first token to the host
  part; what follows a `;` in the last token is dropped by `urlparse`. So one link
  printed in two orders may have two canonical forms, and a canonical form that
  ends in such a value is read as another link.
* `docs/ARCHITECTURE.md:129`, a fallback route for "unknown identifiers": a
  placeholder without a value stays in the target as it is, so that a fallback
  which names `{gtin}` leads nowhere for a link without a GTIN.
* `docs/stability.md:30`, a malformed config fails "with a `ConfigError`":
  `link_types: null` passes the checks and `load` raises a `TypeError`, a
  `validator` that is no mapping an `AttributeError`, an unknown validator a
  plain `ValueError`. An invalid `gtin_regex` raises when it is tried, a `title`
  that is no string when it is filled.
* `primary_ai: 01` without quotes is the YAML number 1, and matches nothing;
  `primary_ai: "410"` and `"all"` are advertised, but the parser never reports
  them (`wellknown.py:169`). A `serial_in` that is a string is searched for the
  serial as a part.
* The schema validator has a timeout of its own, whatever the config says.

## What is not modelled

* Parser: characters. Which texts are numbers, names, prefixes or matches of a
  pattern, how they are quoted and cut, are constants. A first token with an
  unbalanced bracket behind two slashes is a host that `urlparse` refuses: the 400
  that follows is one of `Readable`'s. The tabs and newlines that `urlsplit`
  removes are not told from other characters.
* Router: relations, media types and languages of links, which it passes on to
  `LinkSets`; the `version` of the config and the selection of the validator, whose
  failures are among those of `load` in `ResolverService`.
* The resolver description's root and optional metadata, which are passed
  through.
* Metrics: `set_version`, called once at import, and the text format. Latencies
  are the calls that contributed them.
* Logging, response bodies beyond the links, headers.
* The framework and the HTTP client: what is used of them is the scheduling
  described above and the kinds of replies in `Validators`.
* More than one process: each has its own router and counters and they share
  the file only, which may change at any time as it is.

## Plan

Done: the process, its metrics and validators, the parser, link-sets and
negotiation; the contract of the process; the check digit; routing, the checks
of the config and the advertised keys, composed with the parser into one
resolution from a printed link to a target.

Proved: every safety property of the passing runs, and both refinements.

Left, in this order:

1. Theorems that follow from several of those here: with sound configs,
   validators that do not call out, rules that do not raise and links that can be
   listed and printed, no request fails, as a consequence of the contract; that
   canonicalising twice is canonicalising once, where nothing is cut.
2. One response, from a printed link to a link-set: `Resolution` and `Answering`
   composed, to state what `?linkType=` does when the query is cut short.
3. Two processes on one file, each with its own router: the contract for each is
   what is proved here, and what a client sees of both is to be stated.

------------------------- MODULE ResolverServiceProofs -------------------------
(***************************************************************************)
(* Theorems about ResolverService, for any sets of requests, configs and   *)
(* URIs. The invariant is built in layers: where each request is and what  *)
(* it has fixed by then (Base); on it, that only current configs are used, *)
(* that every answer has its reason, and the two counts.                   *)
(***************************************************************************)
EXTENDS ResolverService, FiniteSetTheorems, TLAPS

-------------------------------------------------------------------------------
(* Base: types, turns, and what a request has fixed where it is. *)

(* Until the validator has spoken there is no payload. *)
Unjudged == {"new", "queued", "routing", "validating", "waiting"}

Placed(r) ==
    /\ pc[r] \notin {"describing", "probing", "scraping"}
    /\ pc[r] \in {"validating", "waiting", "validated", "counted"} =>
         /\ router # NoRouter
         /\ by[r] \in Loadable
         /\ RouteOf(by[r], uri[r]) = "match"
    /\ pc[r] \in {"waiting", "validated", "counted"} => checkedBy[r] \in Loadable
    /\ pc[r] = "waiting" => Asks(ValidatorOf(checkedBy[r]))
    /\ pc[r] \in {"validated", "counted"} => verdict[r] \in Verdicts(ValidatorOf(checkedBy[r]))
    /\ pc[r] \in Unjudged => ~ verdict[r].profile
    /\ pc[r] \in Handled /\ verdict[r].profile =>
         answer[r] \in {"resolved", "redirect", "linkset_error", "response_error"}
    /\ pc[r] \in Handled => HasReason(r)

Base ==
    /\ TypeOK
    /\ file \in since
    /\ HandlersTakeTurns
    /\ \A r \in Resolve : Placed(r)

(* The results of a validator are verdicts. *)
LEMMA UnaskedType ==
    ASSUME NEW v \in Validator
    PROVE  Unasked(v) \in Verdict
<1>1. v.profile \in BOOLEAN /\ v.plain \in BOOLEAN
  BY DEF Validator
<1> QED
  BY <1>1 DEF Unasked, Verdict

(* What the validators say of a request has its type. *)
LEMMA JudgeType ==
    ASSUME NEW v \in Validator, NEW reply \in Reply
    PROVE  Judge(v, reply) \in Verdict
<1>1. (reply.body # "rejects") \in BOOLEAN
  OBVIOUS
<1>2. (v.profile \/ Renamed(v, reply)) \in BOOLEAN
  OBVIOUS
<1>3. ((v.plain \/ Renamed(v, reply)) /\ (Quotes(v, reply) => reply.plain)) \in BOOLEAN
  OBVIOUS
<1> QED
  BY <1>1, <1>2, <1>3 DEF Judge, Verdict

(* The invariant holds at the start. *)
LEMMA InitBase == Init => Base
<1> SUFFICES ASSUME Init PROVE Base
  OBVIOUS
<1> USE DEF Init
<1>1. NoPayload \in Verdict
  BY DEF NoPayload, Verdict
<1>2. TypeOK
  <2>1. pc \in [Request -> Place]
    BY DEF Place
  <2>2. \A s \in Scrape : [outcomes |-> outcomes, validations |-> validations] \in Snapshot
    BY DEF Snapshot
  <2>3. scraped \in [Scrape -> Snapshot]
    BY <2>2
  <2> QED
    BY <1>1, <2>1, <2>3 DEF TypeOK
<1>3. HandlersTakeTurns
  BY DEF HandlersTakeTurns, OnLoop, Request, Loader
<1>4. \A r \in Resolve : Placed(r)
  BY DEF Placed, Handled, Request, NoPayload
<1> QED
  BY <1>2, <1>3, <1>4 DEF Base

-------------------------------------------------------------------------------
(* Frames: what a step of one request leaves to the others. *)

(* A request stays placed in a step that changes nothing of it. *)
LEMMA PlacedFrame ==
    ASSUME NEW q \in Resolve, Placed(q),
           pc'[q] = pc[q], by'[q] = by[q], checkedBy'[q] = checkedBy[q],
           verdict'[q] = verdict[q], answer'[q] = answer[q], uri'[q] = uri[q],
           router # NoRouter => router' # NoRouter,
           since \subseteq since'
    PROVE  Placed(q)'
<1>1. Unprintable(q)' <=> Unprintable(q)
  BY DEF Unprintable
<1>2. pc[q] \in Handled => HasReason(q)'
  BY <1>1 DEF Placed, HasReason
<1> QED
  BY <1>2 DEF Placed

(* A request that is handed on stays alone on the loop. *)
LEMMA TurnsFrame ==
    ASSUME TypeOK, HandlersTakeTurns, NEW r \in Request, NEW place \in Place,
           Goto(r, place),
           place \in OnLoop => pc[r] \in OnLoop \/ LoopIdle,
           \/ staged' = staged /\ (pc[r] \notin {"routing", "describing"} \/ staged[r] = NoLoad)
           \/ r \in Loader /\ staged' = [staged EXCEPT ![r] = NoLoad]
    PROVE  HandlersTakeTurns'
<1>1. pc' = [pc EXCEPT ![r] = place] /\ pc \in [Request -> Place]
  BY DEF Goto, TypeOK
<1>2. Resolve \subseteq Request /\ Loader \subseteq Request
  BY DEF Request, Loader
<1>3. \A p, q \in Resolve : pc'[p] \in OnLoop /\ pc'[q] \in OnLoop => p = q
  BY <1>1, <1>2 DEF HandlersTakeTurns, LoopIdle
<1>4. \A q \in Loader : staged'[q] # NoLoad => pc'[q] \in {"routing", "describing"}
  <2> SUFFICES ASSUME NEW q \in Loader, staged'[q] # NoLoad
               PROVE  pc'[q] \in {"routing", "describing"}
    OBVIOUS
  <2>1. staged[q] # NoLoad /\ q # r
    BY DEF TypeOK, HandlersTakeTurns
  <2> QED
    BY <1>1, <1>2, <2>1 DEF HandlersTakeTurns
<1> QED
  BY <1>3, <1>4 DEF HandlersTakeTurns

-------------------------------------------------------------------------------
(* Every step preserves Base: the loop's own steps. *)

(* A request that arrives keeps the invariant. *)
LEMMA ArriveBase ==
    ASSUME Base, NEW r \in Request, Arrive(r)
    PROVE  Base'
<1> USE DEF Arrive, Serving, counters
<1>1. TypeOK'
  BY DEF Base, TypeOK, Goto, Place
<1>2. HandlersTakeTurns'
  <2>1. "queued" \in Place /\ "queued" \notin OnLoop
    BY DEF Place, OnLoop
  <2> QED
    BY <2>1, TurnsFrame DEF Base
<1>3. ASSUME NEW q \in Resolve PROVE Placed(q)'
  <2>1. CASE q = r
    BY <2>1 DEF Base, TypeOK, Goto, Placed, Unjudged, Handled
  <2>2. CASE q # r
    <3>1. pc'[q] = pc[q]
      BY <2>2 DEF Base, TypeOK, Goto, Request
    <3> QED
      BY <3>1, PlacedFrame DEF Base
  <2> QED
    BY <2>1, <2>2
<1> QED
  BY <1>1, <1>2, <1>3 DEF Base

(* Handing a request to a thread keeps the invariant. *)
LEMMA DispatchBase ==
    ASSUME Base, NEW r \in Describe \cup Probe \cup Scrape, NEW place \in InThread,
           Dispatch(r, place)
    PROVE  Base'
<1> USE DEF Dispatch, Serving, counters
<1>1. r \in Request /\ r \notin Resolve
  BY RequestsAssumption DEF Request
<1>2. place \in Place /\ place \notin OnLoop
  BY DEF InThread, Place, OnLoop
<1>3. TypeOK'
  BY <1>2 DEF Base, TypeOK, Goto
<1>4. HandlersTakeTurns'
  BY <1>1, <1>2, TurnsFrame DEF Base
<1>5. ASSUME NEW q \in Resolve PROVE Placed(q)'
  <2>1. pc'[q] = pc[q]
    BY <1>1 DEF Base, TypeOK, Goto, Request
  <2> QED
    BY <2>1, PlacedFrame DEF Base
<1> QED
  BY <1>3, <1>4, <1>5 DEF Base

(* Refusing a request keeps the invariant. *)
LEMMA RejectBase ==
    ASSUME Base, NEW r \in Resolve, Reject(r)
    PROVE  Base'
<1> USE DEF Reject, Return, Serving, record_request
<1>1. r \in Request /\ r \in Loader
  BY DEF Request, Loader
<1>2. TypeOK'
  BY <1>1 DEF Base, TypeOK, Goto, Place, Outcome
<1>3. HandlersTakeTurns'
  <2>1. "returning" \in Place /\ "returning" \notin OnLoop
    BY DEF Place, OnLoop
  <2> QED
    BY <1>1, <2>1, TurnsFrame DEF Base
<1>4. ASSUME NEW q \in Resolve PROVE Placed(q)'
  <2>1. CASE q = r
    <3>1. pc'[q] = "returning" /\ answer'[q] = "bad_request"
      BY <1>1, <2>1 DEF Base, TypeOK, Goto
    <3>2. ~ verdict[q].profile
      BY <2>1 DEF Base, Placed, Unjudged
    <3> QED
      BY <2>1, <3>1, <3>2 DEF Placed, HasReason, Outcome, Unjudged
  <2>2. CASE q # r
    <3>1. pc'[q] = pc[q] /\ answer'[q] = answer[q]
      BY <2>2 DEF Base, TypeOK, Goto, Request
    <3> QED
      BY <3>1, PlacedFrame DEF Base
  <2> QED
    BY <2>1, <2>2
<1> QED
  BY <1>2, <1>3, <1>4 DEF Base

(* Admitting one keeps the invariant. *)
LEMMA AdmitBase ==
    ASSUME Base, NEW r \in Resolve, Admit(r)
    PROVE  Base'
<1> USE DEF Admit, Serving, counters
<1>1. r \in Request /\ r \in Loader
  BY DEF Request, Loader
<1>2. TypeOK'
  BY <1>1 DEF Base, TypeOK, Goto, Place, OnLoop
<1>3. HandlersTakeTurns'
  <2>1. "routing" \in Place
    BY DEF Place, OnLoop
  <2> QED
    BY <1>1, <2>1, TurnsFrame DEF Base
<1>4. ASSUME NEW q \in Resolve PROVE Placed(q)'
  <2>1. CASE q = r
    BY <1>1, <2>1 DEF Base, TypeOK, Goto, Placed, Unjudged, Handled
  <2>2. CASE q # r
    <3>1. pc'[q] = pc[q]
      BY <2>2 DEF Base, TypeOK, Goto, Request
    <3> QED
      BY <3>1, PlacedFrame DEF Base
  <2> QED
    BY <2>1, <2>2
<1> QED
  BY <1>2, <1>3, <1>4 DEF Base

(* Responding keeps the invariant. *)
LEMMA RespondBase ==
    ASSUME Base, NEW r \in Request, Respond(r)
    PROVE  Base'
<1> USE DEF Respond, Serving, counters
<1>1. TypeOK'
  BY DEF Base, TypeOK, Goto, Place
<1>2. HandlersTakeTurns'
  <2>1. "answered" \in Place /\ "answered" \notin OnLoop
    BY DEF Place, OnLoop
  <2> QED
    BY <2>1, TurnsFrame DEF Base
<1>3. ASSUME NEW q \in Resolve PROVE Placed(q)'
  <2>1. CASE q = r
    <3>1. pc[q] = "returning" /\ pc'[q] = "answered"
      BY <2>1 DEF Base, TypeOK, Goto
    <3>2. HasReason(q)'
      BY <3>1 DEF Base, Placed, Handled, HasReason, Unprintable
    <3> QED
      BY <2>1, <3>1, <3>2 DEF Base, Placed, Handled, Unjudged
  <2>2. CASE q # r
    <3>1. pc'[q] = pc[q]
      BY <2>2 DEF Base, TypeOK, Goto, Request
    <3> QED
      BY <3>1, PlacedFrame DEF Base
  <2> QED
    BY <2>1, <2>2
<1> QED
  BY <1>1, <1>2, <1>3 DEF Base

-------------------------------------------------------------------------------
(* get_router(). *)

(* Finding no router yet keeps the invariant. *)
LEMMA MissBase ==
    ASSUME Base, NEW r \in Loader, Miss(r)
    PROVE  Base'
<1> USE DEF Miss, Serving, counters
<1>1. TypeOK'
  BY DEF Base, TypeOK
<1>2. HandlersTakeTurns'
  BY DEF Base, TypeOK, HandlersTakeTurns, NeedsRouter
<1>3. \A q \in Resolve : Placed(q)'
  BY PlacedFrame DEF Base
<1> QED
  BY <1>1, <1>2, <1>3 DEF Base

(* Loading the config keeps the invariant. *)
LEMMA LoadBase ==
    ASSUME Base, NEW r \in Loader, Load(r)
    PROVE  Base'
<1> USE DEF Load, Serving, counters
<1>1. TypeOK'
  BY DEF Base, TypeOK
<1>2. HandlersTakeTurns'
  <2>1. staged[r] # NoLoad
    BY ConfigAssumption
  <2> QED
    BY <2>1 DEF Base, TypeOK, HandlersTakeTurns
<1>3. \A q \in Resolve : Placed(q)'
  BY PlacedFrame DEF Base
<1> QED
  BY <1>1, <1>2, <1>3 DEF Base

(* Failing to load it keeps the invariant. *)
LEMMA FailToLoadBase ==
    ASSUME Base, NEW r \in Loader, FailToLoad(r)
    PROVE  Base'
<1> USE DEF FailToLoad, Return, Serving, counters
<1>1. r \in Request /\ pc[r] \in {"routing", "describing"}
  BY ConfigAssumption DEF Base, HandlersTakeTurns, Request, Loader
<1>2. TypeOK'
  BY <1>1 DEF Base, TypeOK, Goto, Place, Failure
<1>3. HandlersTakeTurns'
  <2>1. "returning" \in Place /\ "returning" \notin OnLoop
    BY DEF Place, OnLoop
  <2> QED
    BY <1>1, <2>1, TurnsFrame DEF Base
<1>4. ASSUME NEW q \in Resolve PROVE Placed(q)'
  <2>1. CASE q = r
    <3>1. pc'[q] = "returning" /\ answer'[q] = "config_error"
      BY <1>1, <2>1 DEF Base, TypeOK, Goto
    <3>2. ~ (since' \subseteq Loadable)
      BY DEF Base
    <3>3. HasReason(q)'
      BY <3>1, <3>2 DEF HasReason, Failure
    <3>4. pc[q] \notin {"describing"} => ~ verdict'[q].profile
      BY <1>1, <2>1 DEF Base, Placed, Unjudged
    <3>5. pc[q] # "describing"
      BY <2>1 DEF Base, Placed
    <3> QED
      BY <2>1, <3>1, <3>3, <3>4, <3>5 DEF Placed, Unjudged
  <2>2. CASE q # r
    <3>1. pc'[q] = pc[q] /\ answer'[q] = answer[q]
      BY <2>2 DEF Base, TypeOK, Goto, Request
    <3> QED
      BY <3>1, PlacedFrame DEF Base
  <2> QED
    BY <2>1, <2>2
<1> QED
  BY <1>2, <1>3, <1>4 DEF Base

(* Publishing a router keeps the invariant. *)
LEMMA PublishBase ==
    ASSUME Base, NEW r \in Loader, Publish(r)
    PROVE  Base'
<1> USE DEF Publish, Serving, counters
<1>1. staged[r] # NoLoad /\ router' # NoRouter
  BY ConfigAssumption
<1>2. TypeOK'
  BY DEF Base, TypeOK
<1>3. HandlersTakeTurns'
  BY DEF Base, TypeOK, HandlersTakeTurns
<1>4. \A q \in Resolve : Placed(q)'
  BY <1>1, PlacedFrame DEF Base
<1> QED
  BY <1>2, <1>3, <1>4 DEF Base

-------------------------------------------------------------------------------
(* The rest of resolve(). *)

(* Routing a request keeps the invariant. *)
LEMMA RouteBase ==
    ASSUME Base, NEW r \in Resolve, Route(r)
    PROVE  Base'
<1> USE DEF Route, Serving
<1>1. r \in Request /\ r \in Loader /\ staged[r] = NoLoad
  BY DEF Request, Loader, NeedsRouter
<1>2. router \in Loadable
  BY DEF Base, TypeOK
<1>3. PICK place \in {"validating", "returning"} : Goto(r, place)
  BY DEF Return
<1>4. TypeOK'
  <2>1. place \in Place
    BY <1>3 DEF Place, OnLoop
  <2>2. pc' \in [Request -> Place]
    BY <1>1, <1>3, <2>1 DEF Base, TypeOK, Goto
  <2>3. /\ answer' \in [Request -> Outcome \cup Failure \cup {"none", "served"}]
        /\ outcomes' \in [Outcome -> Nat]
    BY <1>1 DEF Base, TypeOK, Return, record_request, Outcome, Failure
  <2>4. by' \in [Loader -> Loadable \cup {NoRouter}]
    BY <1>1, <1>2 DEF Base, TypeOK
  <2> QED
    BY <2>2, <2>3, <2>4 DEF Base, TypeOK
<1>5. HandlersTakeTurns'
  <2>1. place \in Place /\ pc[r] \in OnLoop
    BY <1>3 DEF Place, OnLoop
  <2> QED
    BY <1>1, <1>3, <2>1, TurnsFrame DEF Base
<1>6. ASSUME NEW q \in Resolve PROVE Placed(q)'
  <2>1. CASE q = r
    <3>1. by'[q] = router /\ uri'[q] = uri[q] /\ verdict'[q] = verdict[q]
      BY <1>1, <2>1 DEF Base, TypeOK
    <3>2. ~ verdict[q].profile
      BY <2>1 DEF Base, Placed, Unjudged
    <3>3. CASE RouteOf(router, uri[r]) = "match" /\ Goto(r, "validating")
      <4>1. pc'[q] = "validating"
        BY <1>1, <2>1, <3>3 DEF Base, TypeOK, Goto
      <4> QED
        BY <1>2, <2>1, <3>1, <3>2, <3>3, <4>1 DEF Placed, Handled
    <3>4. CASE RouteOf(router, uri[r]) = "none" /\ Return(r, "not_found")
      <4>1. pc'[q] = "returning" /\ answer'[q] = "not_found"
        BY <1>1, <2>1, <3>4 DEF Base, TypeOK, Goto, Return
      <4>2. HasReason(q)'
        BY <2>1, <3>1, <3>4, <4>1 DEF HasReason, Outcome
      <4> QED
        BY <3>1, <3>2, <4>1, <4>2 DEF Placed, Unjudged
    <3>5. CASE RouteOf(router, uri[r]) = "raises" /\ Return(r, "routing_error")
      <4>1. pc'[q] = "returning" /\ answer'[q] = "routing_error"
        BY <1>1, <2>1, <3>5 DEF Base, TypeOK, Goto, Return
      <4>2. HasReason(q)'
        BY <2>1, <3>1, <3>5, <4>1 DEF HasReason, Failure
      <4> QED
        BY <3>1, <3>2, <4>1, <4>2 DEF Placed, Unjudged
    <3> QED
      BY <3>3, <3>4, <3>5
  <2>2. CASE q # r
    <3>1. pc'[q] = pc[q] /\ by'[q] = by[q] /\ answer'[q] = answer[q]
      BY <1>3, <2>2 DEF Base, TypeOK, Goto, Return, Request, Loader
    <3> QED
      BY <3>1, PlacedFrame DEF Base
  <2> QED
    BY <2>1, <2>2
<1> QED
  BY <1>4, <1>5, <1>6 DEF Base

(* Validating one keeps the invariant. *)
LEMMA ValidateBase ==
    ASSUME Base, NEW r \in Resolve, Validate(r)
    PROVE  Base'
<1> USE DEF Validate, Serving, counters
<1>1. r \in Request /\ r \in Loader /\ router \in Loadable
  BY DEF Request, Loader, Base, TypeOK, Placed
<1>2. Unasked(ValidatorOf(router)) \in Verdict
  BY <1>1, ConfigAssumption, UnaskedType
<1>3. PICK place \in {"waiting", "validated"} : Goto(r, place)
  OBVIOUS
<1>4. place \in Place
  BY <1>3 DEF Place, OnLoop
<1>5. TypeOK'
  <2>1. pc' \in [Request -> Place]
    BY <1>1, <1>3, <1>4 DEF Base, TypeOK, Goto
  <2>2. verdict' \in [Resolve -> Verdict]
    BY <1>2 DEF Base, TypeOK
  <2>3. checkedBy' \in [Resolve -> Loadable \cup {NoRouter}]
    BY <1>1 DEF Base, TypeOK
  <2> QED
    BY <2>1, <2>2, <2>3 DEF Base, TypeOK
<1>6. HandlersTakeTurns'
  <2>1. pc[r] \in OnLoop /\ pc[r] \notin {"routing", "describing"}
    BY DEF OnLoop
  <2> QED
    BY <1>1, <1>3, <1>4, <2>1, TurnsFrame DEF Base
<1>7. ASSUME NEW q \in Resolve PROVE Placed(q)'
  <2>1. CASE q = r
    <3>1. pc'[q] = place /\ checkedBy'[q] = router
      BY <1>1, <1>3, <2>1 DEF Base, TypeOK, Goto
    <3>2. by[q] \in Loadable /\ RouteOf(by[q], uri[q]) = "match"
      BY <2>1 DEF Base, Placed
    <3>3. CASE Asks(ValidatorOf(router)) /\ Goto(r, "waiting") /\ UNCHANGED verdict
      <4>1. pc'[q] = "waiting"
        BY <1>1, <2>1, <3>3 DEF Base, TypeOK, Goto
      <4>2. ~ verdict'[q].profile
        BY <2>1, <3>3 DEF Base, Placed, Unjudged
      <4> QED
        BY <1>1, <3>1, <3>2, <3>3, <4>1, <4>2 DEF Placed, Handled, Asks,
           Base, TypeOK
    <3>4. CASE /\ ~ Asks(ValidatorOf(router)) /\ Goto(r, "validated")
               /\ verdict' = [verdict EXCEPT ![r] = Unasked(ValidatorOf(router))]
      <4>1. pc'[q] = "validated" /\ verdict'[q] = Unasked(ValidatorOf(router))
        BY <1>1, <2>1, <3>4 DEF Base, TypeOK, Goto
      <4>2. verdict'[q] \in Verdicts(ValidatorOf(checkedBy'[q]))
        BY <3>1, <3>4, <4>1 DEF Verdicts
      <4> QED
        BY <1>1, <3>1, <3>2, <4>1, <4>2 DEF Placed, Handled, Unjudged, Base, TypeOK
    <3> QED
      BY <3>3, <3>4
  <2>2. CASE q # r
    <3>1. pc'[q] = pc[q] /\ checkedBy'[q] = checkedBy[q] /\ verdict'[q] = verdict[q]
      BY <1>3, <2>2 DEF Base, TypeOK, Goto, Request
    <3> QED
      BY <3>1, PlacedFrame DEF Base
  <2> QED
    BY <2>1, <2>2
<1> QED
  BY <1>5, <1>6, <1>7 DEF Base

(* The reply of a validator keeps the invariant. *)
LEMMA DownstreamBase ==
    ASSUME Base, NEW r \in Resolve, Downstream(r)
    PROVE  Base'
<1> USE DEF Downstream, Serving, counters
<1>1. r \in Request /\ r \in Loader /\ checkedBy[r] \in Loadable
  BY DEF Request, Loader, Base, Placed
<1>2. PICK reply \in Reply :
         IF Raises(reply)
           THEN Return(r, "validator_error") /\ UNCHANGED verdict
           ELSE /\ verdict' = [verdict EXCEPT ![r] = Judge(ValidatorOf(checkedBy[r]), reply)]
                /\ Goto(r, "validated") /\ UNCHANGED answer
  OBVIOUS
<1>3. Judge(ValidatorOf(checkedBy[r]), reply) \in Verdict
  BY <1>1, ConfigAssumption, JudgeType
<1>4. PICK place \in {"returning", "validated"} : Goto(r, place)
  BY <1>2 DEF Return
<1>5. place \in Place
  BY <1>4 DEF Place, OnLoop
<1>6. TypeOK'
  <2>1. pc' \in [Request -> Place]
    BY <1>1, <1>4, <1>5 DEF Base, TypeOK, Goto
  <2>2. verdict' \in [Resolve -> Verdict]
    BY <1>2, <1>3 DEF Base, TypeOK
  <2>3. answer' \in [Request -> Outcome \cup Failure \cup {"none", "served"}]
    BY <1>1, <1>2 DEF Base, TypeOK, Return, Failure
  <2> QED
    BY <2>1, <2>2, <2>3 DEF Base, TypeOK
<1>7. HandlersTakeTurns'
  <2>1. pc[r] \in OnLoop /\ pc[r] \notin {"routing", "describing"}
    BY DEF OnLoop
  <2> QED
    BY <1>1, <1>4, <1>5, <2>1, TurnsFrame DEF Base
<1>8. ASSUME NEW q \in Resolve PROVE Placed(q)'
  <2>1. CASE q = r
    <3>1. /\ router # NoRouter /\ by[q] \in Loadable
          /\ RouteOf(by[q], uri[q]) = "match" /\ checkedBy[q] \in Loadable
          /\ Asks(ValidatorOf(checkedBy[q])) /\ ~ verdict[q].profile
      BY <2>1 DEF Base, Placed, Unjudged
    <3>2. CASE Return(r, "validator_error") /\ UNCHANGED verdict
      <4>1. pc'[q] = "returning" /\ answer'[q] = "validator_error"
        BY <1>1, <2>1, <3>2 DEF Base, TypeOK, Goto, Return
      <4>2. HasReason(q)'
        BY <3>1, <4>1 DEF HasReason, Failure
      <4> QED
        BY <3>1, <3>2, <4>1, <4>2 DEF Placed, Unjudged
    <3>3. CASE /\ ~ Raises(reply) /\ Goto(r, "validated")
               /\ verdict' = [verdict EXCEPT ![r] = Judge(ValidatorOf(checkedBy[r]), reply)]
      <4>1. pc'[q] = "validated" /\ verdict'[q] = Judge(ValidatorOf(checkedBy[q]), reply)
        BY <1>1, <2>1, <3>3 DEF Base, TypeOK, Goto
      <4>2. verdict'[q] \in Verdicts(ValidatorOf(checkedBy[q]))
        BY <3>1, <3>3, <4>1 DEF Verdicts
      <4> QED
        BY <3>1, <4>1, <4>2 DEF Placed, Handled, Unjudged
    <3> QED
      BY <1>2, <3>2, <3>3
  <2>2. CASE q # r
    <3>1. pc'[q] = pc[q] /\ answer'[q] = answer[q] /\ verdict'[q] = verdict[q]
      BY <1>2, <2>2 DEF Base, TypeOK, Goto, Return, Request
    <3> QED
      BY <3>1, PlacedFrame DEF Base
  <2> QED
    BY <2>1, <2>2
<1> QED
  BY <1>6, <1>7, <1>8 DEF Base

(* Counting a validation keeps the invariant. *)
LEMMA CountValidationBase ==
    ASSUME Base, NEW r \in Resolve, CountValidation(r)
    PROVE  Base'
<1> USE DEF CountValidation, Serving
<1>1. r \in Request /\ r \in Loader
  BY DEF Request, Loader
<1>2. TypeOK'
  <2>1. "counted" \in Place
    BY DEF Place, OnLoop
  <2>2. verdict[r].ok \in BOOLEAN
    BY DEF Base, TypeOK, Verdict
  <2>3. validations' \in [BOOLEAN -> Nat]
    BY <2>2 DEF Base, TypeOK
  <2> QED
    BY <1>1, <2>1, <2>3 DEF Base, TypeOK, Goto
<1>3. HandlersTakeTurns'
  <2>1. "counted" \in Place /\ pc[r] \in OnLoop
    BY DEF Place, OnLoop
  <2> QED
    BY <1>1, <2>1, TurnsFrame DEF Base
<1>4. ASSUME NEW q \in Resolve PROVE Placed(q)'
  <2>1. CASE q = r
    <3>1. pc'[q] = "counted"
      BY <1>1, <2>1 DEF Base, TypeOK, Goto
    <3> QED
      BY <2>1, <3>1 DEF Base, Placed, Handled, Unjudged
  <2>2. CASE q # r
    <3>1. pc'[q] = pc[q]
      BY <2>2 DEF Base, TypeOK, Goto, Request
    <3> QED
      BY <3>1, PlacedFrame DEF Base
  <2> QED
    BY <2>1, <2>2
<1> QED
  BY <1>2, <1>3, <1>4 DEF Base

(* How a request ends that has been counted, or whose links have failed. *)
LEMMA Ending ==
    ASSUME Base, NEW r \in Resolve, FailToLink(r) \/ Finish(r)
    PROVE  /\ \E a \in {"resolved", "redirect", "linkset_error", "response_error"} :
                Return(r, a)
           /\ pc[r] = "counted"
           /\ UNCHANGED <<Serving, router, staged, by, checkedBy, verdict, validations, scraped>>
           /\ outcomes' = outcomes \/ record_request(OutcomeOf(uri[r]))
BY DEF FailToLink, Finish, OutcomeOf, counters

(* An ending has its reason. *)
LEMMA EndingReason ==
    ASSUME Base, NEW r \in Resolve, FailToLink(r) \/ Finish(r)
    PROVE  HasReason(r)'
<1>1. /\ pc[r] = "counted" /\ r \in Request
      /\ UNCHANGED <<since, uri, by, checkedBy, verdict>>
  BY Ending DEF Serving, Request
<1>2. /\ by[r] \in Loadable /\ uri[r] \in Uri /\ RouteOf(by[r], uri[r]) = "match"
      /\ verdict[r] \in Verdicts(ValidatorOf(checkedBy[r]))
  BY <1>1 DEF Base, TypeOK, Placed
<1>3. LinksOf(by[r], uri[r]) \in {"links", "bare", "unlistable", "unprintable"}
  BY <1>2, LinksAssumption
<1>4. CASE FailToLink(r)
  <2>1. answer'[r] = "linkset_error" /\ LinksOf(by[r], uri[r]) = "unlistable"
    BY <1>1, <1>4 DEF FailToLink, Return, Base, TypeOK
  <2> QED
    BY <1>1, <1>2, <2>1 DEF HasReason, Failure
<1>5. CASE Finish(r) /\ Unprintable(r)
  <2>1. answer'[r] = "response_error"
    BY <1>1, <1>5 DEF Finish, Return, Base, TypeOK
  <2>2. Unprintable(r)'
    BY <1>1, <1>5 DEF Unprintable
  <2> QED
    BY <1>1, <1>2, <2>1, <2>2 DEF HasReason, Failure
<1>6. CASE Finish(r) /\ ~ Unprintable(r)
  <2>1. /\ answer'[r] = OutcomeOf(uri[r]) /\ LinksOf(by[r], uri[r]) # "unlistable"
        /\ OutcomeOf(uri[r]) \in {"resolved", "redirect"}
    BY <1>1, <1>6 DEF Finish, Return, Base, TypeOK, OutcomeOf
  <2>2. LinksOf(by[r], uri[r]) \in {"links", "bare"}
    BY <1>3, <1>6, <2>1 DEF Unprintable
  <2> QED
    BY <1>1, <1>2, <2>1, <2>2 DEF HasReason, Outcome
<1> QED
  BY <1>4, <1>5, <1>6

(* Finishing a request, or failing to, keeps the invariant. *)
LEMMA FinishBase ==
    ASSUME Base, NEW r \in Resolve, FailToLink(r) \/ Finish(r)
    PROVE  Base'
<1>1. /\ r \in Request /\ r \in Loader /\ pc[r] = "counted"
      /\ UNCHANGED <<file, since, uri, router, staged, by, checkedBy, verdict, validations, scraped>>
  BY Ending DEF Request, Loader, Serving
<1>2. PICK a \in {"resolved", "redirect", "linkset_error", "response_error"} : Return(r, a)
  BY Ending
<1>3. TypeOK'
  <2>1. a \in Outcome \cup Failure /\ "returning" \in Place /\ OutcomeOf(uri[r]) \in Outcome
    BY DEF Outcome, Failure, Place, OutcomeOf
  <2>2. outcomes' \in [Outcome -> Nat]
    BY <2>1, Ending DEF Base, TypeOK, record_request
  <2> QED
    BY <1>1, <1>2, <2>1, <2>2 DEF Base, TypeOK, Goto, Return
<1>4. HandlersTakeTurns'
  <2>1. "returning" \in Place /\ "returning" \notin OnLoop
    BY DEF Place, OnLoop
  <2> QED
    BY <1>1, <1>2, <2>1, TurnsFrame DEF Base, Return
<1>5. ASSUME NEW q \in Resolve PROVE Placed(q)'
  <2>1. CASE q = r
    <3>1. pc'[q] = "returning" /\ answer'[q] = a
      BY <1>1, <1>2, <2>1 DEF Base, TypeOK, Goto, Return
    <3>2. HasReason(q)'
      BY <2>1, EndingReason
    <3> QED
      BY <3>1, <3>2 DEF Placed, Unjudged
  <2>2. CASE q # r
    <3>1. pc'[q] = pc[q] /\ answer'[q] = answer[q]
      BY <1>2, <2>2 DEF Base, TypeOK, Goto, Return, Request
    <3> QED
      BY <1>1, <3>1, PlacedFrame DEF Base
  <2> QED
    BY <2>1, <2>2
<1> QED
  BY <1>1, <1>3, <1>4, <1>5 DEF Base

-------------------------------------------------------------------------------
(* The worker threads and the environment. *)

(* A step of a worker thread keeps the invariant. *)
LEMMA ThreadBase ==
    ASSUME Base, NEW r \in Describe \cup Probe \cup Scrape,
           \/ r \in Describe /\ DescribeSelf(r)
           \/ r \in Probe /\ healthz(r)
           \/ r \in Scrape /\ prometheus_metrics(r)
    PROVE  Base'
<1> USE DEF DescribeSelf, healthz, prometheus_metrics, Serving, counters
<1>1. r \in Request /\ r \notin Resolve
  BY RequestsAssumption DEF Request
<1>2. /\ \E a \in {"served", "response_error"} : Return(r, a)
      /\ UNCHANGED <<Serving, router, staged, checkedBy, verdict, counters>>
  OBVIOUS
<1>3. TypeOK'
  <2>1. pc' \in [Request -> Place] /\ answer' \in [Request -> Outcome \cup Failure \cup {"none", "served"}]
    BY <1>2 DEF Base, TypeOK, Goto, Return, Place, Failure
  <2>2. by' \in [Loader -> Loadable \cup {NoRouter}]
    BY DEF Base, TypeOK
  <2>3. scraped' \in [Scrape -> Snapshot]
    <3>1. [outcomes |-> outcomes, validations |-> validations] \in Snapshot
      BY DEF Base, TypeOK, Snapshot
    <3> QED
      BY <3>1 DEF Base, TypeOK
  <2> QED
    BY <1>2, <2>1, <2>2, <2>3 DEF Base, TypeOK
<1>4. HandlersTakeTurns'
  <2>1. "returning" \in Place /\ "returning" \notin OnLoop
    BY DEF Place, OnLoop
  <2>2. pc[r] \in {"routing", "describing"} => staged[r] = NoLoad
    BY RequestsAssumption DEF NeedsRouter
  <2> QED
    BY <1>1, <1>2, <2>1, <2>2, TurnsFrame DEF Base, Return
<1>5. ASSUME NEW q \in Resolve PROVE Placed(q)'
  <2>1. pc'[q] = pc[q] /\ answer'[q] = answer[q] /\ by'[q] = by[q]
    BY <1>1, <1>2 DEF Base, TypeOK, Goto, Return, Request, Loader
  <2> QED
    BY <1>2, <2>1, PlacedFrame DEF Base
<1> QED
  BY <1>2, <1>3, <1>4, <1>5 DEF Base

(* Editing the file keeps the invariant. *)
LEMMA EditBase ==
    ASSUME Base, Edit
    PROVE  Base'
<1> USE DEF Edit, counters
<1>1. TypeOK'
  BY DEF Base, TypeOK
<1>2. HandlersTakeTurns'
  BY DEF Base, HandlersTakeTurns
<1>3. \A q \in Resolve : Placed(q)'
  BY PlacedFrame DEF Base
<1> QED
  BY <1>1, <1>2, <1>3 DEF Base

(* Restarting the process keeps the invariant. *)
LEMMA RestartBase ==
    ASSUME Base, Restart
    PROVE  Base'
<1> USE DEF Restart
<1>1. TypeOK'
  BY DEF Base, TypeOK, Place
<1>2. \A r \in Request : (pc'[r] = pc[r] /\ pc[r] = "new") \/ pc'[r] = "gone"
  OBVIOUS
<1>3. HandlersTakeTurns'
  BY <1>2 DEF Base, HandlersTakeTurns, OnLoop, Request
<1>4. ASSUME NEW q \in Resolve PROVE Placed(q)'
  BY <1>2 DEF Base, Placed, Handled, Unjudged, Request
<1> QED
  BY <1>1, <1>3, <1>4 DEF Base

(* So every step keeps it. *)
LEMMA StepBase == Base /\ [Next]_vars => Base'
<1> SUFFICES ASSUME Base, [Next]_vars PROVE Base'
  OBVIOUS
<1>1. ASSUME NEW r \in Loader, GetRouter(r) PROVE Base'
  BY <1>1, MissBase, LoadBase, FailToLoadBase, PublishBase DEF GetRouter
<1>2. ASSUME NEW r \in Resolve, resolve(r) PROVE Base'
  BY <1>1, <1>2, RejectBase, AdmitBase, RouteBase, ValidateBase, CountValidationBase,
     FinishBase, RespondBase DEF resolve, Request, Loader
<1>3. ASSUME NEW r \in Describe, describe(r) PROVE Base'
  BY <1>1, <1>3, DispatchBase, ThreadBase, RespondBase DEF describe, Request, Loader, InThread
<1>4. ASSUME NEW r \in Probe, probe(r) PROVE Base'
  BY <1>4, DispatchBase, ThreadBase, RespondBase DEF probe, Request, InThread
<1>5. ASSUME NEW r \in Scrape, scrape(r) PROVE Base'
  BY <1>5, DispatchBase, ThreadBase, RespondBase DEF scrape, Request, InThread
<1>6. CASE Environment
  BY <1>6, EditBase, RestartBase, ArriveBase, DownstreamBase DEF Environment
<1>7. CASE UNCHANGED vars
  <2> USE <1>7 DEF vars, counters
  <2>1. TypeOK'
    BY DEF Base, TypeOK
  <2>2. HandlersTakeTurns'
    BY DEF Base, HandlersTakeTurns
  <2>3. \A q \in Resolve : Placed(q)'
    BY PlacedFrame DEF Base
  <2> QED
    BY <2>1, <2>2, <2>3 DEF Base
<1> QED
  BY <1>2, <1>3, <1>4, <1>5, <1>6, <1>7 DEF Next

(* It holds in every state. *)
LEMMA BaseInvariant == Spec => []Base
BY InitBase, StepBase, PTL DEF Spec

(* The values of the service's variables. *)
THEOREM TypeCorrect == Spec => []TypeOK
<1>1. Base => TypeOK
  BY DEF Base
<1> QED
  BY <1>1, BaseInvariant, PTL

(* At most one request is inside resolve(), however many are being served, *)
(* and only a request inside get_router() has a load under way.            *)
THEOREM TurnsTaken == Spec => []HandlersTakeTurns
<1>1. Base => HandlersTakeTurns
  BY DEF Base
<1> QED
  BY <1>1, BaseInvariant, PTL

(* No answer of resolve() without its reason in a config that was in force. *)
THEOREM ReasonsHeld == Spec => []AnswersHaveReasons
<1>1. Base => AnswersHaveReasons
  BY DEF Base, Placed, AnswersHaveReasons
<1> QED
  BY <1>1, BaseInvariant, PTL

(* The config settles, for any number of first callers: once none of them is *)
(* loading, only a restart changes the router or starts a load.              *)
THEOREM Settles == Spec => SettledOnceDrained
<1>1. ASSUME Base, [Next]_vars, Drained
      PROVE  (Drained' /\ router' = router) \/ router' = NoRouter
  <2>1. \A r \in Loader : ~ GetRouter(r)
    BY <1>1, ConfigAssumption DEF GetRouter, Miss, Load, FailToLoad, Publish, Drained
  <2>2. CASE Restart
    BY <2>2 DEF Restart
  <2>3. CASE UNCHANGED <<router, staged>>
    BY <1>1, <2>3 DEF Drained
  <2>4. Restart \/ UNCHANGED <<router, staged>>
    BY <1>1, <2>1 DEF Next, resolve, describe, probe, scrape, Environment, Reject, Admit,
       Route, Validate, CountValidation, FailToLink, Finish, Respond, Dispatch, DescribeSelf, healthz,
       prometheus_metrics, Edit, Arrive, Downstream, vars, Loader
  <2> QED
    BY <2>2, <2>3, <2>4
<1>2. Base /\ [Next]_vars => [Drained => \/ Drained' /\ router' = router
                                        \/ router' = NoRouter]_vars
  BY <1>1
<1> QED
  BY <1>2, BaseInvariant, PTL DEF Spec, SettledOnceDrained

-------------------------------------------------------------------------------
(* The steps of a request outside get_router() move it on; one of them      *)
(* notes the router as the one it used.                                     *)

Notes(r, used) == used' = used \/ (pc[r] # "new" /\ used' = [used EXCEPT ![r] = router])

Moves(r) ==
    /\ \E place \in Place \ {"new", "gone"} : Goto(r, place)
    /\ pc[r] # "gone"
    /\ UNCHANGED <<file, since, uri, router, staged>>
    /\ Notes(r, by) /\ Notes(r, checkedBy)

(* The steps, by what they do to the configs in use. *)
LEMMA StepCases ==
    ASSUME Next
    PROVE  \/ \E r \in Loader : GetRouter(r)
           \/ \E r \in Request : Moves(r)
           \/ Edit
           \/ Restart
<1> USE DEF Serving, counters, Return, Notes
<1>1. \A place \in {"queued", "returning", "answered", "routing", "validating", "waiting",
                    "validated", "counted", "describing", "probing", "scraping"} :
        place \in Place \ {"new", "gone"}
  BY DEF Place, OnLoop, InThread
<1>2. ASSUME NEW r \in Request, Arrive(r) \/ Respond(r) PROVE Moves(r)
  BY <1>1, <1>2 DEF Arrive, Respond, Moves
<1>3. ASSUME NEW r \in Resolve, resolve(r) PROVE GetRouter(r) \/ Moves(r)
  <2>1. CASE Reject(r) \/ Admit(r)
    BY <1>1, <2>1 DEF Reject, Admit, Moves
  <2>2. CASE Route(r)
    BY <1>1, <2>2 DEF Route, Moves
  <2>3. CASE Validate(r)
    BY <1>1, <2>3 DEF Validate, Moves
  <2>4. CASE CountValidation(r) \/ FailToLink(r) \/ Finish(r)
    BY <1>1, <2>4 DEF CountValidation, FailToLink, Finish, Moves
  <2> QED
    BY <1>2, <1>3, <2>1, <2>2, <2>3, <2>4 DEF resolve, Request
<1>4. ASSUME NEW r \in Describe, describe(r) PROVE GetRouter(r) \/ Moves(r)
  <2>1. CASE Dispatch(r, "describing")
    BY <1>1, <2>1 DEF Dispatch, Moves
  <2>2. CASE DescribeSelf(r)
    BY <1>1, <2>2 DEF DescribeSelf, Moves
  <2> QED
    BY <1>2, <1>4, <2>1, <2>2 DEF describe, Request
<1>5. ASSUME NEW r \in Probe, probe(r) PROVE Moves(r)
  <2>1. CASE Dispatch(r, "probing") \/ healthz(r)
    BY <1>1, <2>1 DEF Dispatch, healthz, Moves
  <2> QED
    BY <1>2, <1>5, <2>1 DEF probe, Request
<1>6. ASSUME NEW r \in Scrape, scrape(r) PROVE Moves(r)
  <2>1. CASE Dispatch(r, "scraping") \/ prometheus_metrics(r)
    BY <1>1, <2>1 DEF Dispatch, prometheus_metrics, Moves
  <2> QED
    BY <1>2, <1>6, <2>1 DEF scrape, Request
<1>7. ASSUME NEW r \in Resolve, Downstream(r) PROVE Moves(r)
  BY <1>1, <1>7 DEF Downstream, Moves
<1> QED
  BY <1>2, <1>3, <1>4, <1>5, <1>6, <1>7 DEF Next, Environment, Loader, Request

-------------------------------------------------------------------------------
(* Only configs of this process are used. *)

(* A request that has not arrived has used none. *)
Current ==
    /\ ConfigsAreCurrent
    /\ \A q \in Loader : pc[q] = "new" => by[q] = NoRouter
    /\ \A q \in Resolve : pc[q] = "new" => checkedBy[q] = NoRouter

(* Configs are current at the start. *)
LEMMA InitCurrent == Init => Current
BY ConfigAssumption DEF Init, Current, ConfigsAreCurrent, Loader

(* And stay so while the file stays. *)
LEMMA StepCurrent == Base /\ Current /\ [Next]_vars => Current'
<1> SUFFICES ASSUME Base, Current, [Next]_vars PROVE Current'
  OBVIOUS
<1> USE DEF Serving, counters
<1>1. /\ router \in since \cup {NoRouter} /\ file \in since
      /\ \A q \in Loader : staged[q] \in Loadable => staged[q] \in since
      /\ Resolve \subseteq Loader /\ Loader \subseteq Request
      /\ Opening \notin Loadable /\ NoLoad \notin Loadable
  BY ConfigAssumption DEF Base, TypeOK, Current, ConfigsAreCurrent, Loader, Request
<1>2. ASSUME NEW r \in Loader, GetRouter(r) PROVE Current'
  <2>1. /\ UNCHANGED <<since, by, checkedBy>>
        /\ router' \in since \cup {NoRouter}
    BY <1>1, <1>2 DEF GetRouter, Miss, Load, FailToLoad, Publish
  <2>2. \A q \in Loader : staged'[q] \in Loadable => staged'[q] \in since
    BY <1>1, <1>2 DEF GetRouter, Miss, Load, FailToLoad, Publish, Base, TypeOK
  <2>3. pc' = pc \/ (Goto(r, "returning") /\ staged[r] = Opening)
    BY <1>2 DEF GetRouter, Miss, Load, FailToLoad, Publish, Return
  <2>4. staged[r] = Opening => pc[r] # "gone"
    BY ConfigAssumption DEF Base, HandlersTakeTurns
  <2>5. \A q \in Loader : (pc'[q] = "gone" <=> pc[q] = "gone") /\ (pc'[q] = "new" => pc[q] = "new")
    BY <1>1, <2>3, <2>4 DEF Goto, Base, TypeOK
  <2> QED
    BY <1>1, <2>1, <2>2, <2>5 DEF Current, ConfigsAreCurrent
<1>3. ASSUME NEW r \in Request, Moves(r) PROVE Current'
  <2>1. \A q \in Request : (pc'[q] = "gone" <=> pc[q] = "gone") /\ (pc'[q] = "new" => pc[q] = "new" /\ q # r)
    BY <1>3 DEF Moves, Goto, Base, TypeOK
  <2>2. \A q \in Loader : by'[q] = by[q] \/ (q = r /\ by'[q] = router)
    BY <1>3 DEF Moves, Notes, Base, TypeOK
  <2>3. \A q \in Resolve : checkedBy'[q] = checkedBy[q] \/ (q = r /\ checkedBy'[q] = router)
    BY <1>3 DEF Moves, Notes, Base, TypeOK
  <2>4. UNCHANGED <<since, router, staged>>
    BY <1>3 DEF Moves
  <2> QED
    BY <1>1, <2>1, <2>2, <2>3, <2>4 DEF Current, ConfigsAreCurrent
<1>4. CASE Edit
  BY <1>4 DEF Edit, Current, ConfigsAreCurrent
<1>5. CASE Restart
  <2>1. \A q \in Loader : pc'[q] = "gone" \/ (pc'[q] = "new" /\ pc[q] = "new")
    BY <1>1, <1>5 DEF Restart
  <2>2. \A q \in Loader : staged'[q] \notin Loadable
    BY <1>1, <1>5 DEF Restart
  <2> QED
    BY <1>1, <1>5, <2>1, <2>2 DEF Restart, Current, ConfigsAreCurrent
<1>6. CASE UNCHANGED vars
  BY <1>6 DEF vars, Current, ConfigsAreCurrent
<1> QED
  BY <1>2, <1>3, <1>4, <1>5, <1>6, StepCases

(* So they are in every state. *)
LEMMA CurrentInvariant == Spec => []Current
BY InitCurrent, StepCurrent, BaseInvariant, PTL DEF Spec

(* Nothing of a config from before the last restart is ever used. *)
THEOREM ConfigsCurrent == Spec => []ConfigsAreCurrent
<1>1. Current => ConfigsAreCurrent
  BY DEF Current
<1> QED
  BY <1>1, CurrentInvariant, PTL

(* Router and validator of a request are of one config. *)
OneConfigUnlessEdited ==
    since = {file} =>
        \A r \in Resolve :
            pc[r] # "gone" /\ checkedBy[r] # NoRouter /\ by[r] # NoRouter => checkedBy[r] = by[r]

(* While the file has not been edited since the start, the routes and the   *)
(* validator of a request are of one config: the two get_router() calls of  *)
(* resolve() differ only across an edit.                                    *)
THEOREM OneConfig == Spec => []OneConfigUnlessEdited
<1>1. ConfigsAreCurrent => OneConfigUnlessEdited
  BY DEF ConfigsAreCurrent, OneConfigUnlessEdited, Loader
<1> QED
  BY <1>1, ConfigsCurrent, PTL

-------------------------------------------------------------------------------
(* The counts. A step counts one request or verdict, or none.               *)

Ended(q, o)  == pc[q] \in Handled /\ CountedAs(q) = o
Judged(q, b) == pc[q] \in {"counted"} \cup Handled /\ verdict[q].profile /\ verdict[q].ok = b

NoneEnds == outcomes' = outcomes /\ \A q \in Resolve, o \in Outcome : Ended(q, o)' <=> Ended(q, o)

OneEnds(r, o) ==
    /\ o \in Outcome /\ ~ (pc[r] \in Handled) /\ Ended(r, o)'
    /\ record_request(o)
    /\ \A q \in Resolve \ {r} : pc'[q] = pc[q] /\ CountedAs(q)' = CountedAs(q)

NoneJudged ==
    validations' = validations /\ \A q \in Resolve, b \in BOOLEAN : Judged(q, b)' <=> Judged(q, b)

OneJudged(r, b) ==
    /\ b \in BOOLEAN /\ pc[r] \notin {"counted"} \cup Handled /\ Judged(r, b)'
    /\ validations' = [validations EXCEPT ![b] = @ + 1]
    /\ \A q \in Resolve \ {r} : pc'[q] = pc[q] /\ verdict'[q] = verdict[q]

Counts ==
    /\ NoneEnds \/ \E r \in Resolve, o \in Outcome : OneEnds(r, o)
    /\ NoneJudged \/ \E r \in Resolve, b \in BOOLEAN : OneJudged(r, b)

(* A step of a resolve that leaves the others alone. *)
LEMMA OthersStay ==
    ASSUME TypeOK, NEW r \in Resolve, NEW place, Goto(r, place)
    PROVE  pc'[r] = place /\ \A q \in Resolve \ {r} : pc'[q] = pc[q]
BY DEF TypeOK, Goto, Request

(* A step of the event loop counts what it must. *)
LEMMA LoopCounts ==
    ASSUME Base, NEW r \in Resolve,
           Reject(r) \/ Admit(r) \/ Route(r) \/ Validate(r) \/ Downstream(r) \/ CountValidation(r)
             \/ FailToLink(r) \/ Finish(r)
    PROVE  Counts
<1> USE DEF Serving, counters, Handled, CountedAs
<1>0. uri' = uri
  BY DEF Reject, Admit, Route, Validate, Downstream, CountValidation, FailToLink, Finish
<1>1. TypeOK /\ Placed(r) /\ r \in Request
  BY DEF Base, Request
<1>2. CASE Reject(r)
  <2>1. pc'[r] = "returning" /\ \A q \in Resolve \ {r} : pc'[q] = pc[q]
    BY <1>1, <1>2, OthersStay DEF Reject, Return
  <2>2. answer'[r] = "bad_request" /\ \A q \in Resolve \ {r} : answer'[q] = answer[q]
    BY <1>1, <1>2 DEF Reject, Return, TypeOK, Request
  <2>3. OneEnds(r, "bad_request")
    BY <1>0, <1>2, <2>1, <2>2 DEF OneEnds, Ended, Outcome, Reject
  <2>4. NoneJudged
    BY <1>1, <1>2, <2>1 DEF NoneJudged, Judged, Placed, Unjudged, Reject
  <2> QED
    BY <2>3, <2>4 DEF Counts, Outcome
<1>3. CASE Admit(r) \/ Validate(r)
  <2>1. pc'[r] \in {"routing", "waiting", "validated"} /\ \A q \in Resolve \ {r} : pc'[q] = pc[q]
    BY <1>1, <1>3, OthersStay DEF Admit, Validate
  <2>2. pc[r] \in {"queued", "validating"} /\ answer' = answer
        /\ \A q \in Resolve \ {r} : verdict'[q] = verdict[q]
    BY <1>1, <1>3 DEF Admit, Validate, TypeOK
  <2>3. NoneEnds
    BY <1>0, <1>3, <2>1, <2>2 DEF NoneEnds, Ended, Admit, Validate
  <2>4. NoneJudged
    BY <1>3, <2>1, <2>2 DEF NoneJudged, Judged, Admit, Validate
  <2> QED
    BY <2>3, <2>4 DEF Counts
<1>4. CASE Route(r)
  <2>1. ~ verdict[r].profile /\ pc[r] = "routing" /\ verdict' = verdict
    BY <1>1, <1>4 DEF Placed, Unjudged, Route
  <2>2. CASE Goto(r, "validating") /\ UNCHANGED <<answer, outcomes>>
    <3>1. pc'[r] = "validating" /\ \A q \in Resolve \ {r} : pc'[q] = pc[q]
      BY <1>1, <2>2, OthersStay
    <3>2. NoneEnds
      BY <1>0, <2>1, <2>2, <3>1 DEF NoneEnds, Ended
    <3>3. NoneJudged
      BY <1>4, <2>1, <3>1 DEF NoneJudged, Judged, Route
    <3> QED
      BY <3>2, <3>3 DEF Counts
  <2>3. ASSUME NEW a \in {"not_found", "routing_error"}, Return(r, a) PROVE
          /\ pc'[r] = "returning" /\ \A q \in Resolve \ {r} : pc'[q] = pc[q]
          /\ answer'[r] = a /\ \A q \in Resolve \ {r} : answer'[q] = answer[q]
          /\ NoneJudged
    <3>1. pc'[r] = "returning" /\ \A q \in Resolve \ {r} : pc'[q] = pc[q]
      BY <1>1, <2>3, OthersStay DEF Return
    <3>2. answer'[r] = a /\ \A q \in Resolve \ {r} : answer'[q] = answer[q]
      BY <1>1, <2>3 DEF Return, TypeOK, Request
    <3>3. NoneJudged
      BY <1>4, <2>1, <3>1 DEF NoneJudged, Judged, Route
    <3> QED
      BY <3>1, <3>2, <3>3
  <2>4. CASE Return(r, "not_found") /\ record_request("not_found")
    <3>1. OneEnds(r, "not_found")
      BY <1>0, <2>1, <2>3, <2>4 DEF OneEnds, Ended, Outcome
    <3> QED
      BY <2>3, <2>4, <3>1 DEF Counts, Outcome
  <2>5. CASE Return(r, "routing_error") /\ UNCHANGED outcomes
    <3>1. NoneEnds
      BY <1>0, <2>1, <2>3, <2>5 DEF NoneEnds, Ended, Outcome
    <3> QED
      BY <2>3, <2>5, <3>1 DEF Counts
  <2> QED
    BY <1>4, <2>2, <2>4, <2>5 DEF Route
<1>5. CASE Downstream(r)
  <2>1. ~ verdict[r].profile /\ pc[r] = "waiting" /\ outcomes' = outcomes /\ validations' = validations
    BY <1>1, <1>5 DEF Placed, Unjudged, Downstream
  <2>2. \/ Return(r, "validator_error") /\ UNCHANGED verdict
        \/ Goto(r, "validated") /\ UNCHANGED answer
    BY <1>5 DEF Downstream
  <2>3. \A q \in Resolve \ {r} : pc'[q] = pc[q] /\ answer'[q] = answer[q] /\ verdict'[q] = verdict[q]
    BY <1>1, <1>5 DEF Downstream, Return, Goto, TypeOK, Request
  <2>4. \/ pc'[r] = "returning" /\ answer'[r] = "validator_error" /\ verdict' = verdict
        \/ pc'[r] = "validated"
    BY <1>1, <2>2, OthersStay DEF Return, TypeOK
  <2>5. NoneEnds
    BY <1>0, <2>1, <2>3, <2>4 DEF NoneEnds, Ended, Outcome
  <2>6. NoneJudged
    BY <2>1, <2>3, <2>4 DEF NoneJudged, Judged
  <2> QED
    BY <2>5, <2>6 DEF Counts
<1>6. CASE CountValidation(r)
  <2>1. /\ pc[r] = "validated" /\ pc'[r] = "counted" /\ \A q \in Resolve \ {r} : pc'[q] = pc[q]
        /\ answer' = answer /\ verdict' = verdict /\ outcomes' = outcomes
    BY <1>1, <1>6, OthersStay DEF CountValidation
  <2>2. NoneEnds
    BY <1>0, <2>1 DEF NoneEnds, Ended
  <2>3. CASE verdict[r].profile
    <3>1. verdict[r].ok \in BOOLEAN
      BY <1>1 DEF TypeOK, Verdict
    <3>2. OneJudged(r, verdict[r].ok)
      BY <1>6, <2>1, <2>3, <3>1 DEF OneJudged, Judged, CountValidation
    <3> QED
      BY <2>2, <3>1, <3>2 DEF Counts
  <2>4. CASE ~ verdict[r].profile
    <3>1. NoneJudged
      BY <1>6, <2>1, <2>4 DEF NoneJudged, Judged, CountValidation
    <3> QED
      BY <2>2, <3>1 DEF Counts
  <2> QED
    BY <2>3, <2>4
<1>7. CASE Finish(r) \/ FailToLink(r)
  <2>1. PICK a \in {"resolved", "redirect", "linkset_error", "response_error"} : Return(r, a)
    BY <1>7, Ending
  <2>2. /\ pc[r] = "counted" /\ pc'[r] = "returning" /\ \A q \in Resolve \ {r} : pc'[q] = pc[q]
        /\ verdict' = verdict /\ validations' = validations
    BY <1>1, <1>7, <2>1, Ending, OthersStay DEF Return
  <2>3. answer'[r] = a /\ \A q \in Resolve \ {r} : answer'[q] = answer[q]
    BY <1>1, <2>1 DEF Return, TypeOK, Request
  <2>4. NoneJudged
    BY <2>2 DEF NoneJudged, Judged
  <2>5. CASE FailToLink(r)
    <3>1. answer'[r] = "linkset_error" /\ outcomes' = outcomes
      BY <1>1, <2>5 DEF FailToLink, Return, TypeOK
    <3>2. NoneEnds
      BY <1>0, <2>2, <2>3, <3>1 DEF NoneEnds, Ended, Outcome
    <3> QED
      BY <2>4, <3>2 DEF Counts
  <2>6. CASE Finish(r)
    <3>1. /\ record_request(OutcomeOf(uri[r]))
          /\ answer'[r] \in {"response_error", OutcomeOf(uri[r])}
          /\ OutcomeOf(uri[r]) \in Outcome
      BY <1>1, <2>6 DEF Finish, Return, TypeOK, OutcomeOf, Outcome
    <3>2. CountedAs(r)' = OutcomeOf(uri[r])
      BY <1>0, <3>1 DEF OutcomeOf
    <3>3. \A q \in Resolve \ {r} : pc'[q] = pc[q] /\ CountedAs(q)' = CountedAs(q)
      BY <1>0, <2>2, <2>3 DEF OutcomeOf
    <3>4. ~ (pc[r] \in Handled) /\ pc'[r] \in Handled
      BY <2>2
    <3>5. PICK o \in Outcome : o = OutcomeOf(uri[r])
      BY <3>1
    <3>6. Ended(r, o)'
      BY <3>2, <3>4, <3>5 DEF Ended
    <3>7. OneEnds(r, o)
      BY <3>1, <3>3, <3>4, <3>5, <3>6 DEF OneEnds
    <3> QED
      BY <2>4, <3>7 DEF Counts
  <2> QED
    BY <1>7, <2>5, <2>6
<1> QED
  BY <1>2, <1>3, <1>4, <1>5, <1>6, <1>7

(* A step of a thread does, or of the world around the process. *)
LEMMA OtherCounts ==
    ASSUME Base,
           \/ \E r \in Request : Arrive(r) \/ Respond(r)
           \/ \E r \in Loader : GetRouter(r)
           \/ \E r \in Describe : Dispatch(r, "describing") \/ DescribeSelf(r)
           \/ \E r \in Probe : Dispatch(r, "probing") \/ healthz(r)
           \/ \E r \in Scrape : Dispatch(r, "scraping") \/ prometheus_metrics(r)
           \/ Edit
           \/ UNCHANGED vars
    PROVE  Counts
<1> USE DEF Serving, counters, Handled, CountedAs
<1>1. TypeOK
  BY DEF Base
<1>2. ASSUME outcomes' = outcomes, validations' = validations, verdict' = verdict, uri' = uri,
             \A q \in Resolve : \/ pc'[q] = pc[q] /\ answer'[q] = answer[q]
                                \/ pc[q] = "new" /\ pc'[q] = "queued"
                                \/ /\ pc[q] = "returning" /\ pc'[q] = "answered"
                                   /\ answer'[q] = answer[q]
                                \/ /\ pc[q] = "routing" /\ pc'[q] = "returning"
                                   /\ answer'[q] = "config_error"
      PROVE  Counts
  <2>1. \A q \in Resolve : pc[q] = "routing" => ~ verdict[q].profile
    BY DEF Base, Placed, Unjudged
  <2>2. NoneEnds
    BY <1>2 DEF NoneEnds, Ended, Outcome
  <2>3. NoneJudged
    BY <1>2, <2>1 DEF NoneJudged, Judged
  <2> QED
    BY <2>2, <2>3 DEF Counts
<1>3. ASSUME NEW r \in Request, Arrive(r) \/ Respond(r) PROVE Counts
  BY <1>1, <1>2, <1>3 DEF Arrive, Respond, Goto, TypeOK, Request
<1>4. ASSUME NEW r \in Loader, GetRouter(r) PROVE Counts
  <2>1. CASE Miss(r) \/ Load(r) \/ Publish(r)
    BY <1>2, <2>1 DEF Miss, Load, Publish
  <2>2. CASE FailToLoad(r)
    <3>1. r \in Resolve => pc[r] = "routing"
      BY <2>2, ConfigAssumption DEF Base, HandlersTakeTurns, FailToLoad, Placed
    <3>2. \A q \in Resolve : \/ pc'[q] = pc[q] /\ answer'[q] = answer[q]
                             \/ q = r /\ pc'[q] = "returning" /\ answer'[q] = "config_error"
      BY <1>1, <2>2 DEF FailToLoad, Return, Goto, TypeOK, Request
    <3> QED
      BY <1>2, <2>2, <3>1, <3>2 DEF FailToLoad
  <2> QED
    BY <1>4, <2>1, <2>2 DEF GetRouter
<1>5. ASSUME NEW r \in Describe \cup Probe \cup Scrape,
             UNCHANGED <<outcomes, validations, verdict, uri>>,
             \/ \E a : Return(r, a)
             \/ answer' = answer /\ \E place : Goto(r, place)
      PROVE  Counts
  <2>1. r \notin Resolve
    BY RequestsAssumption
  <2>2. \A q \in Resolve : pc'[q] = pc[q] /\ answer'[q] = answer[q]
    BY <1>1, <1>5, <2>1 DEF Return, Goto, TypeOK, Request
  <2> QED
    BY <1>2, <1>5, <2>2
<1>6. ASSUME NEW r \in Describe, Dispatch(r, "describing") \/ DescribeSelf(r) PROVE Counts
  BY <1>5, <1>6 DEF Dispatch, DescribeSelf
<1>7. ASSUME NEW r \in Probe, Dispatch(r, "probing") \/ healthz(r) PROVE Counts
  BY <1>5, <1>7 DEF Dispatch, healthz
<1>8. ASSUME NEW r \in Scrape, Dispatch(r, "scraping") \/ prometheus_metrics(r) PROVE Counts
  BY <1>5, <1>8 DEF Dispatch, prometheus_metrics
<1>9. CASE Edit
  BY <1>2, <1>9 DEF Edit
<1>10. CASE UNCHANGED vars
  BY <1>2, <1>10 DEF vars
<1> QED
  BY <1>3, <1>4, <1>6, <1>7, <1>8, <1>9, <1>10

(* So every step does, but a restart. *)
LEMMA StepCounts == Base /\ [Next]_vars => Counts \/ Restart
<1> SUFFICES ASSUME Base, [Next]_vars PROVE Counts \/ Restart
  OBVIOUS
<1> QED
  BY LoopCounts, OtherCounts DEF Next, Environment, resolve, describe, probe, scrape, Request, Loader

(* Counting one more element of a finite set, or none. *)
LEMMA OneMore ==
    ASSUME NEW S, IsFiniteSet(S), NEW T, NEW x, x \notin S, T = S \cup {x}
    PROVE  Cardinality(T) = Cardinality(S) + 1
BY FS_AddElement

(* Requests to resolve are finitely many, whichever are meant. *)
LEMMA FiniteParts ==
    ASSUME NEW P \in SUBSET Resolve
    PROVE  IsFiniteSet(P) /\ Cardinality(P) \in Nat
BY RequestsAssumption, FS_Subset, FS_CardinalityType

(* A step that counts keeps the requests accounted for. *)
LEMMA RequestsCount == TypeOK /\ RequestsAccounted /\ Counts => RequestsAccounted'
<1> SUFFICES ASSUME TypeOK, RequestsAccounted, Counts, NEW o \in Outcome
             PROVE  outcomes'[o] = Cardinality({q \in Resolve : Ended(q, o)'})
  BY DEF RequestsAccounted, Ended
<1> DEFINE S == {q \in Resolve : Ended(q, o)}
           T == {q \in Resolve : Ended(q, o)'}
<1>1. outcomes[o] = Cardinality(S)
  BY DEF RequestsAccounted, Ended
<1>2. CASE NoneEnds
  <2>1. T = S
    BY <1>2 DEF NoneEnds
  <2> QED
    BY <1>1, <1>2, <2>1 DEF NoneEnds
<1>3. ASSUME NEW r \in Resolve, NEW p \in Outcome, OneEnds(r, p)
      PROVE  outcomes'[o] = Cardinality(T)
  <2>1. \A q \in Resolve \ {r} : Ended(q, o)' <=> Ended(q, o)
    BY <1>3 DEF OneEnds, Ended
  <2>2. ~ Ended(r, o) /\ (Ended(r, o)' <=> p = o)
    BY <1>3 DEF OneEnds, Ended
  <2>3. CASE p = o
    <3>1. T = S \cup {r} /\ r \notin S
      BY <2>1, <2>2, <2>3
    <3>2. IsFiniteSet(S)
      BY FiniteParts
    <3>3. Cardinality(T) = Cardinality(S) + 1
      BY <3>1, <3>2, OneMore
    <3>4. outcomes'[o] = outcomes[o] + 1
      BY <1>3, <2>3 DEF OneEnds, record_request, TypeOK
    <3> QED
      BY <1>1, <3>3, <3>4
  <2>4. CASE p # o
    <3>1. T = S
      BY <2>1, <2>2, <2>4
    <3>2. outcomes'[o] = outcomes[o]
      BY <1>3, <2>4 DEF OneEnds, record_request, TypeOK
    <3> QED
      BY <1>1, <3>1, <3>2
  <2> QED
    BY <2>3, <2>4
<1> QED
  BY <1>2, <1>3 DEF Counts

(* And the validations. *)
LEMMA ValidationsCount == TypeOK /\ ValidationsAccounted /\ Counts => ValidationsAccounted'
<1> SUFFICES ASSUME TypeOK, ValidationsAccounted, Counts, NEW b \in BOOLEAN
             PROVE  validations'[b] = Cardinality({q \in Resolve : Judged(q, b)'})
  BY DEF ValidationsAccounted, Judged
<1> DEFINE S == {q \in Resolve : Judged(q, b)}
           T == {q \in Resolve : Judged(q, b)'}
<1>1. validations[b] = Cardinality(S)
  BY DEF ValidationsAccounted, Judged
<1>2. CASE NoneJudged
  <2>1. T = S
    BY <1>2 DEF NoneJudged
  <2> QED
    BY <1>1, <1>2, <2>1 DEF NoneJudged
<1>3. ASSUME NEW r \in Resolve, NEW a \in BOOLEAN, OneJudged(r, a)
      PROVE  validations'[b] = Cardinality(T)
  <2>1. \A q \in Resolve \ {r} : Judged(q, b)' <=> Judged(q, b)
    BY <1>3 DEF OneJudged, Judged
  <2>2. ~ Judged(r, b) /\ (Judged(r, b)' <=> a = b)
    BY <1>3 DEF OneJudged, Judged
  <2>3. CASE a = b
    <3>1. T = S \cup {r} /\ r \notin S
      BY <2>1, <2>2, <2>3
    <3>2. IsFiniteSet(S)
      BY FiniteParts
    <3>3. Cardinality(T) = Cardinality(S) + 1
      BY <3>1, <3>2, OneMore
    <3>4. validations'[b] = validations[b] + 1
      BY <1>3, <2>3 DEF OneJudged, TypeOK
    <3> QED
      BY <1>1, <3>3, <3>4
  <2>4. CASE a # b
    <3>1. T = S
      BY <2>1, <2>2, <2>4
    <3>2. validations'[b] = validations[b]
      BY <1>3, <2>4 DEF OneJudged, TypeOK
    <3> QED
      BY <1>1, <3>1, <3>2
  <2> QED
    BY <2>3, <2>4
<1> QED
  BY <1>2, <1>3 DEF Counts

(* After a restart nothing is counted, and nothing is there to be counted. *)
LEMMA RestartCounts ==
    ASSUME TypeOK, Restart
    PROVE  RequestsAccounted' /\ ValidationsAccounted'
<1>1. \A r \in Resolve : pc'[r] \in {"new", "gone"}
  BY DEF Restart, Request
<1>2. \A o \in Outcome : {r \in Resolve : pc'[r] \in Handled /\ CountedAs(r)' = o} = {}
  BY <1>1 DEF Handled
<1>3. \A b \in BOOLEAN : {r \in Resolve : /\ pc'[r] \in {"counted"} \cup Handled
                                          /\ verdict'[r].profile /\ verdict'[r].ok = b} = {}
  BY <1>1 DEF Handled
<1>4. \A o \in Outcome : outcomes'[o] = 0
  BY DEF Restart
<1>5. \A b \in BOOLEAN : validations'[b] = 0
  BY DEF Restart
<1>6. RequestsAccounted'
  BY <1>2, <1>4, FS_EmptySet DEF RequestsAccounted
<1>7. ValidationsAccounted'
  BY <1>3, <1>5, FS_EmptySet DEF ValidationsAccounted
<1> QED
  BY <1>6, <1>7

(* Nothing has happened at the start, and nothing is counted. *)
LEMMA InitCounts == Init => RequestsAccounted /\ ValidationsAccounted
<1> SUFFICES ASSUME Init PROVE RequestsAccounted /\ ValidationsAccounted
  OBVIOUS
<1>1. \A r \in Resolve : pc[r] = "new"
  BY DEF Init, Request
<1>2. \A o \in Outcome : {r \in Resolve : pc[r] \in Handled /\ CountedAs(r) = o} = {}
  BY <1>1 DEF Handled
<1>3. \A b \in BOOLEAN : {r \in Resolve : /\ pc[r] \in {"counted"} \cup Handled
                                          /\ verdict[r].profile /\ verdict[r].ok = b} = {}
  BY <1>1 DEF Handled
<1>4. RequestsAccounted
  BY <1>2, FS_EmptySet DEF RequestsAccounted, Init
<1>5. ValidationsAccounted
  BY <1>3, FS_EmptySet DEF ValidationsAccounted, Init
<1> QED
  BY <1>4, <1>5

(* Both are accounted for in every state. *)
LEMMA CountInvariant == Spec => [](RequestsAccounted /\ ValidationsAccounted)
<1>1. Base /\ RequestsAccounted /\ ValidationsAccounted /\ [Next]_vars
        => (RequestsAccounted /\ ValidationsAccounted)'
  BY StepCounts, RequestsCount, ValidationsCount, RestartCounts DEF Base
<1> QED
  BY <1>1, InitCounts, BaseInvariant, PTL DEF Spec

(* requests_total is exact, for any number of requests and restarts. *)
THEOREM RequestsExact == Spec => []RequestsAccounted
<1> QED
  BY CountInvariant, PTL

(* validations_total is exact, for any number of requests and restarts. *)
THEOREM ValidationsExact == Spec => []ValidationsAccounted
<1> QED
  BY CountInvariant, PTL

-------------------------------------------------------------------------------
(* What a scrape can see. *)

(* A set whose members are all the same has one member at most. *)
LEMMA AtMostOne ==
    ASSUME NEW C, \A p, q \in C : p = q
    PROVE  IsFiniteSet(C) /\ Cardinality(C) \in {0, 1}
<1>1. CASE C = {}
  BY <1>1, FS_EmptySet
<1>2. CASE C # {}
  <2>1. PICK q \in C : TRUE
    BY <1>2
  <2>2. C = {q}
    BY <2>1
  <2> QED
    BY <2>2, FS_Singleton
<1> QED
  BY <1>1, <1>2

(* Two disjoint sets inside two others and at most one more element. *)
LEMMA TwoInTwoAndOne ==
    ASSUME NEW A, NEW B, NEW D, NEW E, NEW C,
           IsFiniteSet(A), IsFiniteSet(B), IsFiniteSet(D), IsFiniteSet(E),
           \A p, q \in C : p = q,
           A \cap B = {}, A \cup B \subseteq (D \cup E) \cup C
    PROVE  Cardinality(A) + Cardinality(B) <= Cardinality(D) + Cardinality(E) + 1
<1>1. IsFiniteSet(C) /\ Cardinality(C) \in {0, 1}
  BY AtMostOne
<1>2. /\ IsFiniteSet(A \cup B)
      /\ Cardinality(A \cup B) = Cardinality(A) + Cardinality(B) - Cardinality({})
  BY FS_Union
<1>3. /\ IsFiniteSet(D \cup E)
      /\ Cardinality(D \cup E) = Cardinality(D) + Cardinality(E) - Cardinality(D \cap E)
  BY FS_Union
<1>4. /\ IsFiniteSet((D \cup E) \cup C)
      /\ Cardinality((D \cup E) \cup C)
           = Cardinality(D \cup E) + Cardinality(C) - Cardinality((D \cup E) \cap C)
  BY <1>1, <1>3, FS_Union
<1>5. IsFiniteSet(D \cap E) /\ IsFiniteSet((D \cup E) \cap C)
  <2>1. D \cap E \in SUBSET D /\ (D \cup E) \cap C \in SUBSET C
    OBVIOUS
  <2> QED
    BY <1>1, <2>1, FS_Subset
<1>6. Cardinality(A \cup B) <= Cardinality((D \cup E) \cup C)
  BY <1>4, FS_Subset
<1>7. /\ Cardinality(A) \in Nat /\ Cardinality(B) \in Nat /\ Cardinality(D) \in Nat
      /\ Cardinality(E) \in Nat /\ Cardinality(D \cap E) \in Nat
      /\ Cardinality((D \cup E) \cap C) \in Nat
  BY <1>5, FS_CardinalityType
<1> QED
  BY <1>1, <1>2, <1>3, <1>4, <1>6, <1>7, FS_EmptySet

(* The judged requests are those that were counted, those whose links       *)
(* failed, and one in between.                                              *)
LEMMA CountersLagByOne ==
    ASSUME Base, RequestsAccounted, ValidationsAccounted
    PROVE  LagsByOne([outcomes |-> outcomes, validations |-> validations])
<1> DEFINE J(b) == {q \in Resolve : Judged(q, b)}
           E(o) == {q \in Resolve : Ended(q, o)}
           C    == {q \in Resolve : pc[q] = "counted"}
           U    == Unlinked
<1>1. /\ validations[TRUE] = Cardinality(J(TRUE)) /\ validations[FALSE] = Cardinality(J(FALSE))
      /\ outcomes["resolved"] = Cardinality(E("resolved"))
      /\ outcomes["redirect"] = Cardinality(E("redirect"))
  BY DEF RequestsAccounted, ValidationsAccounted, Judged, Ended, Outcome
<1>2. J(TRUE) \cap J(FALSE) = {}
  BY DEF Judged
<1>3. J(TRUE) \cup J(FALSE) \subseteq (E("resolved") \cup (E("redirect") \cup U)) \cup C
  BY DEF Judged, Ended, Base, Placed, Unlinked, CountedAs, OutcomeOf
<1>4. \A p, q \in C : p = q
  BY DEF Base, HandlersTakeTurns, OnLoop
<1>5. /\ IsFiniteSet(J(TRUE)) /\ IsFiniteSet(J(FALSE))
      /\ IsFiniteSet(E("resolved")) /\ IsFiniteSet(E("redirect")) /\ IsFiniteSet(U)
  BY FiniteParts DEF Unlinked
<1>6. /\ Cardinality(J(TRUE)) \in Nat /\ Cardinality(J(FALSE)) \in Nat
      /\ Cardinality(E("resolved")) \in Nat /\ Cardinality(E("redirect")) \in Nat
      /\ Cardinality(U) \in Nat /\ Cardinality(E("redirect") \cap U) \in Nat
  <2>1. E("redirect") \cap U \in SUBSET Resolve /\ U \in SUBSET Resolve
    BY DEF Unlinked
  <2> QED
    BY <2>1, FiniteParts
<1> HIDE DEF J, E, C, U
<1>7. /\ IsFiniteSet(E("redirect") \cup U)
      /\ Cardinality(E("redirect") \cup U)
           = Cardinality(E("redirect")) + Cardinality(U) - Cardinality(E("redirect") \cap U)
  BY <1>5, FS_Union
<1>8. Cardinality(J(TRUE)) + Cardinality(J(FALSE))
        <= Cardinality(E("resolved")) + Cardinality(E("redirect") \cup U) + 1
  BY <1>2, <1>3, <1>4, <1>5, <1>7, TwoInTwoAndOne
<1>9. \A a, b, d, e, u, x, y \in Nat :
        y = e + u - x /\ a + b <= d + y + 1 => a + b <= d + e + u + 1
  OBVIOUS
<1>10. Cardinality(E("redirect") \cup U) \in Nat
  BY <1>7, FS_CardinalityType
<1>11. ASSUME NEW a, NEW b, NEW d, NEW e,
              a = Cardinality(J(TRUE)), b = Cardinality(J(FALSE)),
              d = Cardinality(E("resolved")), e = Cardinality(E("redirect"))
       PROVE  a + b <= d + e + Cardinality(U) + 1
  <2>1. /\ a \in Nat /\ b \in Nat /\ d \in Nat /\ e \in Nat
        /\ a + b <= d + Cardinality(E("redirect") \cup U) + 1
        /\ Cardinality(E("redirect") \cup U)
             = e + Cardinality(U) - Cardinality(E("redirect") \cap U)
    BY <1>6, <1>7, <1>8, <1>11
  <2> QED
    BY <1>6, <1>9, <1>10, <2>1
<1> QED
  BY <1>1, <1>11 DEF LagsByOne, U

(* So the counters are never further apart. *)
LEMMA CountersInvariant ==
    Spec => []LagsByOne([outcomes |-> outcomes, validations |-> validations])
<1>1. Base /\ RequestsAccounted /\ ValidationsAccounted
        => LagsByOne([outcomes |-> outcomes, validations |-> validations])
  BY CountersLagByOne
<1> QED
  BY <1>1, BaseInvariant, CountInvariant, PTL

(* A step that does not restart the process leaves what is handled handled. *)
LEMMA HandledStays ==
    ASSUME Base, [Next]_vars, ~ Restart, NEW q \in Request, pc[q] \in Handled
    PROVE  pc'[q] \in Handled /\ answer'[q] = answer[q]
<1> USE DEF Handled, Serving, counters
<1>1. TypeOK /\ HandlersTakeTurns
  BY DEF Base
<1>2. ASSUME UNCHANGED <<pc, answer>>
      PROVE  pc'[q] \in Handled /\ answer'[q] = answer[q]
  BY <1>2
<1>3. ASSUME NEW r \in Request, pc[r] \notin Handled, NEW place, Goto(r, place),
             \/ answer' = answer
             \/ \E a : answer' = [answer EXCEPT ![r] = a]
      PROVE  pc'[q] \in Handled /\ answer'[q] = answer[q]
  BY <1>1, <1>3 DEF Goto, TypeOK
<1>4. ASSUME NEW r \in Request, Respond(r)
      PROVE  pc'[q] \in Handled /\ answer'[q] = answer[q]
  BY <1>1, <1>4 DEF Respond, Goto, TypeOK
<1>5. ASSUME NEW r \in Loader, GetRouter(r)
      PROVE  pc'[q] \in Handled /\ answer'[q] = answer[q]
  <2>1. CASE FailToLoad(r)
    <3>1. r \in Request /\ pc[r] \notin Handled
      BY <1>1, <2>1, ConfigAssumption DEF FailToLoad, HandlersTakeTurns, Request, Loader
    <3> QED
      BY <1>3, <2>1, <3>1 DEF FailToLoad, Return
  <2> QED
    BY <1>2, <1>5, <2>1 DEF GetRouter, Miss, Load, Publish
<1>6. ASSUME NEW r \in Resolve, resolve(r) \/ Downstream(r)
      PROVE  pc'[q] \in Handled /\ answer'[q] = answer[q]
  <2>1. r \in Request /\ r \in Loader
    BY DEF Request, Loader
  <2>2. CASE Reject(r) \/ Admit(r) \/ CountValidation(r)
    BY <1>3, <2>1, <2>2 DEF Reject, Admit, CountValidation, Return
  <2>3. CASE Route(r)
    BY <1>3, <2>1, <2>3 DEF Route, Return
  <2>4. CASE Validate(r)
    BY <1>3, <2>1, <2>4 DEF Validate
  <2>5. CASE Downstream(r)
    BY <1>3, <2>1, <2>5 DEF Downstream, Return
  <2>6. CASE FailToLink(r) \/ Finish(r)
    BY <1>3, <2>1, <2>6 DEF FailToLink, Finish, Return
  <2> QED
    BY <1>4, <1>5, <1>6, <2>1, <2>2, <2>3, <2>4, <2>5, <2>6 DEF resolve
<1>7. ASSUME NEW r \in Request,
             \/ \E place \in InThread : Dispatch(r, place)
             \/ DescribeSelf(r) \/ healthz(r) \/ prometheus_metrics(r) \/ Arrive(r)
      PROVE  pc'[q] \in Handled /\ answer'[q] = answer[q]
  <2>1. pc[r] \notin Handled
    BY <1>7 DEF Dispatch, DescribeSelf, healthz, prometheus_metrics, Arrive
  <2> QED
    BY <1>3, <1>7, <2>1 DEF Dispatch, DescribeSelf, healthz, prometheus_metrics, Arrive, Return
<1>8. CASE Edit \/ UNCHANGED vars
  BY <1>2, <1>8 DEF Edit, vars
<1> QED
  BY <1>4, <1>5, <1>6, <1>7, <1>8 DEF Next, Environment, describe, probe, scrape, Request,
     Loader, InThread

(* A scrape that is handled has been for a while, or copies the counters in *)
(* this step.                                                               *)
LEMMA ScrapeCopies ==
    ASSUME Base, [Next]_vars, NEW s \in Scrape, pc'[s] \in Handled
    PROVE  \/ pc[s] \in Handled /\ scraped'[s] = scraped[s]
           \/ scraped'[s] = [outcomes |-> outcomes, validations |-> validations]
<1> USE DEF Handled, Serving, counters
<1>1. TypeOK /\ s \in Request
  BY DEF Base, Request
<1>2. ASSUME scraped' = scraped, NEW r \in Request \ {s},
             pc' = pc \/ \E place : Goto(r, place)
      PROVE  pc[s] \in Handled /\ scraped'[s] = scraped[s]
  BY <1>1, <1>2 DEF Goto, TypeOK
<1>3. ASSUME NEW r \in Resolve, resolve(r) \/ Downstream(r)
      PROVE  pc[s] \in Handled /\ scraped'[s] = scraped[s]
  <2>1. r \in Request \ {s}
    BY RequestsAssumption DEF Request
  <2>2. scraped' = scraped /\ (pc' = pc \/ \E place : Goto(r, place))
    <3>1. CASE Route(r)
      BY <3>1 DEF Route, Return
    <3>2. CASE Validate(r) \/ CountValidation(r) \/ Reject(r) \/ Admit(r)
      BY <3>2 DEF Validate, CountValidation, Reject, Admit, Return
    <3>3. CASE Downstream(r)
      BY <3>3 DEF Downstream, Return
    <3>4. CASE FailToLink(r) \/ Finish(r) \/ Respond(r)
      BY <3>4 DEF FailToLink, Finish, Respond, Return
    <3>5. CASE GetRouter(r)
      BY <3>5 DEF GetRouter, Miss, Load, FailToLoad, Publish, Return
    <3> QED
      BY <1>3, <3>1, <3>2, <3>3, <3>4, <3>5 DEF resolve
  <2> QED
    BY <1>2, <2>1, <2>2
<1>4. ASSUME NEW r \in Describe \cup Probe, describe(r) \/ probe(r)
      PROVE  pc[s] \in Handled /\ scraped'[s] = scraped[s]
  <2>1. r \in Request \ {s}
    BY RequestsAssumption DEF Request
  <2>2. scraped' = scraped /\ (pc' = pc \/ \E place : Goto(r, place))
    BY <1>4 DEF describe, probe, Dispatch, DescribeSelf, healthz, Respond, GetRouter, Miss,
       Load, FailToLoad, Publish, Return
  <2> QED
    BY <1>2, <2>1, <2>2
<1>5. ASSUME NEW r \in Request \ {s},
             Arrive(r) \/ Dispatch(r, "scraping") \/ prometheus_metrics(r) \/ Respond(r)
      PROVE  pc[s] \in Handled /\ scraped'[s] = scraped[s]
  BY <1>1, <1>5 DEF Arrive, Dispatch, prometheus_metrics, Respond, Return, Goto, TypeOK
<1>6. CASE Arrive(s) \/ Dispatch(s, "scraping") \/ Respond(s)
  BY <1>1, <1>6 DEF Arrive, Dispatch, Respond, Goto, TypeOK
<1>7. CASE prometheus_metrics(s)
  BY <1>1, <1>7 DEF prometheus_metrics, TypeOK
<1>8. CASE Edit \/ UNCHANGED vars
  BY <1>8 DEF Edit, vars
<1>9. ~ Restart
  BY <1>1 DEF Restart
<1>10. ASSUME NEW r \in Scrape, scrape(r)
       PROVE  \/ pc[s] \in Handled /\ scraped'[s] = scraped[s]
              \/ scraped'[s] = [outcomes |-> outcomes, validations |-> validations]
  <2>1. r \in Request
    BY DEF Request
  <2> QED
    BY <1>5, <1>6, <1>7, <1>10, <2>1 DEF scrape
<1> QED
  BY <1>3, <1>4, <1>5, <1>6, <1>8, <1>9, <1>10 DEF Next, Environment

(* A scrape never shows more than one verdict whose request is not counted, *)
(* besides those whose links could not be listed.                           *)
THEOREM ScrapeLag == Spec => []ScrapesLagByOne
<1> DEFINE Now == LagsByOne([outcomes |-> outcomes, validations |-> validations])
<1>1. ASSUME Now, Init
      PROVE  ScrapesLagByOne
  <2>1. \A s \in Scrape : pc[s] \notin Handled
    BY <1>1 DEF Init, Handled, Request
  <2> QED
    BY <1>1, <2>1 DEF ScrapesLagByOne
<1>2. ASSUME Base, Now, ScrapesLagByOne, [Next]_vars, Base', Now'
      PROVE  ScrapesLagByOne'
  <2>2. ASSUME NEW s \in Scrape, pc'[s] \in Handled PROVE LagsByOne(scraped[s])'
    <3>1. LagsByOne(scraped'[s])
      BY <1>2, <2>2, ScrapeCopies DEF ScrapesLagByOne
    <3>2. ~ Restart
      BY <2>2 DEF Restart, Handled, Request
    <3>3. Unlinked \subseteq Unlinked' /\ Unlinked' \subseteq Resolve
      BY <1>2, <3>2, HandledStays DEF Unlinked, Request
    <3>4. /\ Cardinality(Unlinked) \in Nat /\ Cardinality(Unlinked') \in Nat
          /\ Cardinality(Unlinked) <= Cardinality(Unlinked')
      <4>1. IsFiniteSet(Unlinked')
        BY <3>3, FiniteParts
      <4>2. Unlinked \in SUBSET Resolve /\ Unlinked' \in SUBSET Resolve
        BY <3>3
      <4> QED
        BY <3>3, <4>1, <4>2, FiniteParts, FS_Subset
    <3>5. scraped'[s] \in Snapshot
      BY <1>2 DEF Base, TypeOK
    <3>6. /\ scraped'[s].validations[TRUE] \in Nat /\ scraped'[s].validations[FALSE] \in Nat
          /\ scraped'[s].outcomes["resolved"] \in Nat /\ scraped'[s].outcomes["redirect"] \in Nat
      BY <3>5 DEF Snapshot, Outcome
    <3>7. scraped'[s].validations[TRUE] + scraped'[s].validations[FALSE]
            <= scraped'[s].outcomes["resolved"] + scraped'[s].outcomes["redirect"]
                 + Cardinality(Unlinked) + 1
      BY <3>1 DEF LagsByOne
    <3>8. \A a, b, d, e, u, w \in Nat :
            a + b <= d + e + u + 1 /\ u <= w => a + b <= d + e + w + 1
      OBVIOUS
    <3>9. scraped'[s].validations[TRUE] + scraped'[s].validations[FALSE]
            <= scraped'[s].outcomes["resolved"] + scraped'[s].outcomes["redirect"]
                 + Cardinality(Unlinked') + 1
      BY <3>4, <3>6, <3>7, <3>8
    <3> QED
      BY <3>9 DEF LagsByOne
  <2> QED
    BY <1>2, <2>2 DEF ScrapesLagByOne
<1>3. /\ Now /\ Init => ScrapesLagByOne
      /\ Base /\ Now /\ ScrapesLagByOne /\ [Next]_vars /\ Base' /\ Now' => ScrapesLagByOne'
  BY <1>1, <1>2
<1> QED
  BY <1>3, BaseInvariant, CountersInvariant, PTL DEF Spec

===============================================================================

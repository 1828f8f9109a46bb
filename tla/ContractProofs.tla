---------------------------- MODULE ContractProofs ----------------------------
(***************************************************************************)
(* The resolver process implements its contract (module ResolverContract), *)
(* for any requests, configs and URIs. The steps that load, dispatch, call *)
(* and count are stutters to a client; the step that fixes the answer of a *)
(* request is the contract's Answer, and what it answers with is justified *)
(* by Base and Current of ResolverServiceProofs.                           *)
(***************************************************************************)
EXTENDS ResolverServiceProofs

(* Only a request that parses gets as far as the routes. *)
Admitted == \A r \in Resolve : pc[r] \in OnLoop => uri[r] \in Readable

(* None has got that far at the start. *)
LEMMA InitAdmitted == Init => Admitted
BY DEF Init, Admitted, OnLoop, Request

(* No step breaks it. *)
LEMMA StepAdmitted == Base /\ Admitted /\ [Next]_vars => Admitted'
<1> SUFFICES ASSUME Base, Admitted, [Next]_vars PROVE Admitted'
  OBVIOUS
<1> USE DEF Serving
<1>1. ASSUME NEW r \in Request, NEW place \in Place, Goto(r, place), uri' = uri,
             r \in Resolve /\ place \in OnLoop => uri[r] \in Readable
      PROVE  Admitted'
  BY <1>1 DEF Admitted, Goto, Base, TypeOK, Request
<1>2. ASSUME uri' = uri, pc' = pc PROVE Admitted'
  BY <1>2 DEF Admitted
<1>3. \A place \in {"queued", "returning", "answered", "describing", "probing", "scraping"} :
        place \in Place /\ place \notin OnLoop
  BY DEF Place, OnLoop, InThread
<1>4. \A place \in OnLoop : place \in Place
  BY DEF Place
<1>5. \A place \in {"routing", "validating", "waiting", "validated", "counted"} : place \in OnLoop
  BY DEF OnLoop
<1>6. ASSUME NEW r \in Request, Arrive(r) \/ Respond(r) PROVE Admitted'
  BY <1>1, <1>3, <1>6 DEF Arrive, Respond
<1>7. ASSUME NEW r \in Loader, GetRouter(r) PROVE Admitted'
  BY <1>1, <1>2, <1>3, <1>7 DEF GetRouter, Miss, Load, FailToLoad, Publish, Return, Loader, Request
<1>8. ASSUME NEW r \in Resolve, resolve(r) \/ Downstream(r) PROVE Admitted'
  <2>1. r \in Request /\ r \in Loader
    BY DEF Request, Loader
  <2>2. CASE Reject(r) \/ Admit(r)
    BY <1>1, <1>3, <1>4, <1>5, <2>1, <2>2 DEF Reject, Admit, Return
  <2>3. CASE Route(r)
    BY <1>1, <1>3, <1>4, <1>5, <2>1, <2>3 DEF Route, Return, Admitted
  <2>4. CASE Validate(r)
    BY <1>1, <1>4, <1>5, <2>1, <2>4 DEF Validate, Admitted
  <2>5. CASE Downstream(r)
    BY <1>1, <1>3, <1>4, <1>5, <2>1, <2>5 DEF Downstream, Return, Admitted
  <2>6. CASE CountValidation(r) \/ FailToLink(r) \/ Finish(r)
    BY <1>1, <1>3, <1>4, <1>5, <2>1, <2>6 DEF CountValidation, FailToLink, Finish, Return, Admitted
  <2> QED
    BY <1>6, <1>7, <1>8, <2>1, <2>2, <2>3, <2>4, <2>5, <2>6 DEF resolve
<1>9. ASSUME NEW r \in Describe, describe(r) PROVE Admitted'
  BY <1>1, <1>3, <1>6, <1>7, <1>9 DEF describe, Dispatch, DescribeSelf, Return, Loader, Request
<1>10. ASSUME NEW r \in Probe, probe(r) PROVE Admitted'
  BY <1>1, <1>3, <1>6, <1>10 DEF probe, Dispatch, healthz, Return, Request
<1>11. ASSUME NEW r \in Scrape, scrape(r) PROVE Admitted'
  BY <1>1, <1>3, <1>6, <1>11 DEF scrape, Dispatch, prometheus_metrics, Return, Request
<1>12. CASE Edit
  BY <1>2, <1>12 DEF Edit
<1>13. CASE Restart
  BY <1>13 DEF Restart, Admitted, OnLoop, Request
<1>14. CASE UNCHANGED vars
  BY <1>2, <1>14 DEF vars
<1> QED
  BY <1>6, <1>8, <1>9, <1>10, <1>11, <1>12, <1>13, <1>14 DEF Next, Environment

(* So it holds in every state. *)
LEMMA AdmittedInvariant == Spec => []Admitted
BY InitAdmitted, StepAdmitted, BaseInvariant, PTL DEF Spec

-------------------------------------------------------------------------------
(* What a client sees of a step. *)

(* Where a request goes is where its phase goes. *)
LEMMA PhaseStep ==
    ASSUME Base, NEW r \in Request, NEW place, Goto(r, place)
    PROVE  Phases' = [Phases EXCEPT ![r] = PhaseOf(place)]
<1>1. pc' = [pc EXCEPT ![r] = place] /\ pc \in [Request -> Place]
  BY DEF Goto, Base, TypeOK
<1>2. \A q \in Request : pc'[q] = IF q = r THEN place ELSE pc[q]
  BY <1>1
<1> QED
  BY <1>2 DEF Phases

Unseen == UNCHANGED <<file, since, uri, answer, outcomes>>

(* A step inside a phase is none to the client. *)
LEMMA Stutter ==
    ASSUME Base, NEW r \in Request, NEW place, Goto(r, place), Unseen,
           PhaseOf(place) = PhaseOf(pc[r])
    PROVE  UNCHANGED Contract!contract
<1>1. Phases' = Phases
  BY PhaseStep DEF Phases
<1> QED
  BY <1>1 DEF Contract!contract, Unseen

(* The step that fixes the answer of a request is the contract's Answer. *)
LEMMA Answers ==
    ASSUME Base, NEW r \in Request, NEW a, PhaseOf(pc[r]) = "open",
           a \in Contract!Justified(r), Return(r, a), UNCHANGED Serving,
           NEW o, o = Contract!CountedAs(r, a),
           IF o \in Outcome THEN record_request(o) ELSE outcomes' = outcomes
    PROVE  Contract!Next
<1>1. Phases' = [Phases EXCEPT ![r] = "answered"]
  BY PhaseStep DEF Return, PhaseOf, Handled
<1>2. outcomes' = [p \in Outcome |-> outcomes[p] + IF p = o THEN 1 ELSE 0]
  <2>1. outcomes \in [Outcome -> Nat] /\ outcomes' \in [Outcome -> Nat]
    BY DEF record_request, Base, TypeOK
  <2>2. ASSUME NEW p \in Outcome
        PROVE  outcomes'[p] = outcomes[p] + IF p = o THEN 1 ELSE 0
    BY <2>1 DEF record_request
  <2> QED
    BY <2>1, <2>2
<1>3. Contract!Answer(r, a)
  BY <1>1, <1>2 DEF Contract!Answer, Phases, Return, Serving, Contract!Outcome, Outcome
<1> QED
  BY <1>3 DEF Contract!Next, Contract!Request, Request

(* An answer that could be made is counted as what it is. *)
LEMMA MadeAnswers ==
    ASSUME Base, NEW r \in Request, NEW a, PhaseOf(pc[r]) = "open", a # "response_error",
           a \in Contract!Justified(r), Return(r, a), UNCHANGED Serving,
           IF a \in Outcome THEN record_request(a) ELSE outcomes' = outcomes
    PROVE  Contract!Next
<1>1. a = Contract!CountedAs(r, a)
  BY DEF Contract!CountedAs
<1> QED
  BY <1>1, Answers

(* The configs that a request has used are among the contract's. *)
LEMMA UsedIsSound ==
    ASSUME Base, Current
    PROVE  /\ router \in Contract!Sound \cup {NoRouter}
           /\ \A r \in Resolve : pc[r] \in OnLoop /\ by[r] # NoRouter => by[r] \in Contract!Sound
           /\ \A r \in Resolve : pc[r] \in OnLoop /\ checkedBy[r] # NoRouter => checkedBy[r] \in Contract!Sound
<1>1. "gone" \notin OnLoop
  BY DEF OnLoop
<1> QED
  BY <1>1 DEF Contract!Sound, Base, TypeOK, Current, ConfigsAreCurrent, Loader

-------------------------------------------------------------------------------
(* Every step of the process is one of the contract, or none. *)

(* A step of get_router() is one of the contract, or none. *)
LEMMA LoaderStep ==
    ASSUME Base, Admitted, NEW r \in Loader, GetRouter(r)
    PROVE  Contract!Next \/ UNCHANGED Contract!contract
<1> USE DEF Serving, counters
<1>1. CASE Miss(r) \/ Load(r) \/ Publish(r)
  <2>1. pc' = pc /\ Unseen
    BY <1>1 DEF Miss, Load, Publish, Unseen
  <2>2. Phases' = Phases
    BY <2>1 DEF Phases
  <2> QED
    BY <2>1, <2>2 DEF Contract!contract, Unseen
<1>2. CASE FailToLoad(r)
  <2>1. r \in Request /\ pc[r] \in {"routing", "describing"}
    BY <1>2, ConfigAssumption DEF FailToLoad, Base, HandlersTakeTurns, Loader, Request
  <2>2. "config_error" \in Contract!Unloadable
    BY <1>2 DEF FailToLoad, Contract!Unloadable, Contract!Broken, Base
  <2>3. r \in Resolve => uri[r] \in Readable
    BY <2>1 DEF Admitted, OnLoop, Base, Placed
  <2>4. "config_error" \in Contract!Justified(r)
    BY <2>2, <2>3 DEF Contract!Justified, Loader
  <2>5. PhaseOf(pc[r]) = "open"
    BY <2>1 DEF PhaseOf, Handled
  <2> QED
    BY <1>2, <2>1, <2>4, <2>5, MadeAnswers DEF FailToLoad, Outcome
<1> QED
  BY <1>1, <1>2 DEF GetRouter

(* So is the last step of resolve(), with whatever becomes of the links. *)
LEMMA LastStep ==
    ASSUME Base, NEW r \in Resolve, FailToLink(r) \/ Finish(r),
           by[r] \in Contract!Sound, checkedBy[r] \in Contract!Sound,
           RouteOf(by[r], uri[r]) = "match", PhaseOf(pc[r]) = "open",
           \A a : a \in Contract!RoutedTo(by[r], uri[r]) => a \in Contract!Justified(r)
    PROVE  Contract!Next
<1> USE DEF Serving, counters
<1>1. r \in Request
  BY DEF Request
<1>2. \A a : a \in Contract!Linked(by[r], uri[r]) => a \in Contract!Justified(r)
  BY DEF Contract!RoutedTo
<1>3. CASE FailToLink(r)
  <2>1. "linkset_error" \in Contract!Justified(r)
    BY <1>2, <1>3 DEF FailToLink, Contract!Linked
  <2> QED
    BY <1>1, <1>3, <2>1, MadeAnswers DEF FailToLink, Outcome
<1>4. CASE Finish(r) /\ Unprintable(r)
  <2>1. ASSUME LinksOf(by[r], uri[r]) = "unprintable"
        PROVE  "response_error" \in Contract!Justified(r)
    BY <1>2, <2>1 DEF Contract!Linked
  <2>2. ASSUME LinksOf(by[r], uri[r]) = "links", OutcomeOf(uri[r]) = "resolved", Spoils(verdict[r])
        PROVE  "response_error" \in Contract!Justified(r)
    <3>1. verdict[r] \in Verdicts(ValidatorOf(checkedBy[r]))
      BY <1>4 DEF Finish, Base, Placed
    <3>2. Contract!Spoilt
      BY <2>2, <3>1 DEF Contract!Spoilt, Contract!Verdicts, Verdicts, Contract!Spoils, Spoils,
         Contract!Asks, Asks, Contract!Judge, Judge, Contract!Unasked, Unasked,
         Contract!Reply, Reply, Contract!Raises, Raises, Contract!Renamed, Renamed,
         Contract!Quotes, Quotes
    <3>3. uri[r] \notin WantsHtml
      BY <2>2 DEF OutcomeOf
    <3>4. "response_error" \in Contract!Shown(by[r], uri[r])
      BY <2>2, <3>2, <3>3 DEF Contract!Shown
    <3>5. Contract!Linked(by[r], uri[r]) = Contract!Shown(by[r], uri[r])
      BY <2>2 DEF Contract!Linked
    <3> QED
      BY <1>2, <3>4, <3>5
  <2>3. "response_error" \in Contract!Justified(r)
    BY <1>4, <2>1, <2>2 DEF Unprintable
  <2>4. OutcomeOf(uri[r]) = Contract!CountedAs(r, "response_error") /\ OutcomeOf(uri[r]) \in Outcome
    BY DEF Contract!CountedAs, Contract!OutcomeOf, OutcomeOf, Outcome
  <2> QED
    BY <1>1, <1>4, <2>3, <2>4, Answers DEF Finish
<1>5. CASE Finish(r) /\ ~ Unprintable(r)
  <2>1. OutcomeOf(uri[r]) \in Contract!Linked(by[r], uri[r])
    BY <1>5 DEF Finish, Unprintable, Contract!Linked, Contract!Shown, Contract!OutcomeOf, OutcomeOf
  <2>2. OutcomeOf(uri[r]) \in Outcome /\ OutcomeOf(uri[r]) # "response_error"
    BY DEF OutcomeOf, Outcome
  <2> QED
    BY <1>1, <1>2, <1>5, <2>1, <2>2, MadeAnswers DEF Finish
<1> QED
  BY <1>3, <1>4, <1>5

(* So is one of resolve(), or of a validator that replies. *)
LEMMA ResolveStep ==
    ASSUME Base, Current, Admitted, NEW r \in Resolve, resolve(r) \/ Downstream(r)
    PROVE  Contract!Next \/ UNCHANGED Contract!contract
<1> USE DEF Serving, counters
<1>1. /\ r \in Request /\ r \in Loader
      /\ pc[r] \in OnLoop => uri[r] \in Readable
  BY DEF Request, Loader, Admitted
<1>2. \A place \in {"routing", "validating", "waiting", "validated", "counted"} :
        place \in OnLoop /\ PhaseOf(place) = "open"
  BY DEF OnLoop, PhaseOf, Handled
<1>3. PhaseOf("queued") = "open" /\ PhaseOf("returning") = "answered" /\ PhaseOf("answered") = "answered"
  BY DEF PhaseOf, Handled
<1>4. CASE Reject(r)
  BY <1>1, <1>3, <1>4, MadeAnswers DEF Reject, Outcome, Contract!Justified
<1>5. CASE Admit(r) \/ Respond(r) \/ CountValidation(r)
  BY <1>1, <1>2, <1>3, <1>5, Stutter DEF Admit, Respond, CountValidation, Unseen
<1>6. CASE Route(r)
  <2>1. pc[r] = "routing" /\ router \in Contract!Sound
    BY <1>6, UsedIsSound DEF Route
  <2>2. \A a : a \in Contract!RoutedTo(router, uri[r]) => a \in Contract!Justified(r)
    BY <1>1, <1>2, <2>1 DEF Contract!Justified
  <2>3. CASE RouteOf(router, uri[r]) = "match"
    BY <1>1, <1>2, <1>6, <2>1, <2>3, Stutter DEF Route, Unseen
  <2>4. CASE RouteOf(router, uri[r]) = "none"
    <3>1. "not_found" \in Contract!Justified(r)
      BY <2>2, <2>4 DEF Contract!RoutedTo
    <3> QED
      BY <1>1, <1>2, <1>6, <2>1, <2>4, <3>1, MadeAnswers DEF Route, Outcome
  <2>5. CASE RouteOf(router, uri[r]) = "raises"
    <3>1. "routing_error" \in Contract!Justified(r)
      BY <2>2, <2>5 DEF Contract!RoutedTo
    <3> QED
      BY <1>1, <1>2, <1>6, <2>1, <2>5, <3>1, MadeAnswers DEF Route, Outcome
  <2> QED
    BY <1>6, <2>3, <2>4, <2>5 DEF Route
<1>7. CASE Validate(r)
  BY <1>1, <1>2, <1>7, Stutter DEF Validate, Unseen
<1>8. CASE Downstream(r) \/ FailToLink(r) \/ Finish(r)
  <2>1. pc[r] \in {"waiting", "counted"} /\ PhaseOf(pc[r]) = "open"
    BY <1>2, <1>8 DEF Downstream, FailToLink, Finish
  <2>2. by[r] \in Contract!Sound /\ checkedBy[r] \in Contract!Sound /\ RouteOf(by[r], uri[r]) = "match"
    BY <1>2, <2>1, UsedIsSound, ConfigAssumption DEF Base, Placed
  <2>3. \A a : a \in Contract!RoutedTo(by[r], uri[r]) => a \in Contract!Justified(r)
    BY <1>1, <1>2, <2>1, <2>2 DEF Contract!Justified
  <2>4. CASE FailToLink(r) \/ Finish(r)
    BY <1>1, <2>1, <2>2, <2>3, <2>4, LastStep
  <2>5. CASE Downstream(r) /\ Return(r, "validator_error")
    <3>1. "validator_error" \in Contract!Justified(r)
      BY <2>2, <2>3, <2>5 DEF Contract!RoutedTo, Contract!Asks, Asks, Downstream, Base, Placed
    <3> QED
      BY <1>1, <2>1, <2>5, <3>1, MadeAnswers DEF Downstream, Outcome
  <2>6. CASE Downstream(r) /\ Goto(r, "validated") /\ UNCHANGED answer
    BY <1>1, <1>2, <2>1, <2>6, Stutter DEF Downstream, Unseen
  <2> QED
    BY <1>8, <2>4, <2>5, <2>6 DEF Downstream
<1>9. CASE GetRouter(r)
  BY <1>1, <1>9, LoaderStep
<1> QED
  BY <1>4, <1>5, <1>6, <1>7, <1>8, <1>9 DEF resolve

(* So is one of the other handlers. *)
LEMMA ThreadStep ==
    ASSUME Base, Current, Admitted, NEW r \in Describe \cup Probe \cup Scrape,
           \/ r \in Describe /\ describe(r)
           \/ r \in Probe /\ probe(r)
           \/ r \in Scrape /\ scrape(r)
    PROVE  Contract!Next \/ UNCHANGED Contract!contract
<1> USE DEF Serving, counters
<1>1. r \in Request /\ r \notin Resolve
  BY RequestsAssumption DEF Request
<1>2. /\ \A place \in {"queued", "describing", "probing", "scraping"} : PhaseOf(place) = "open"
      /\ \A place \in Handled : PhaseOf(place) = "answered"
      /\ "returning" \in Handled /\ "answered" \in Handled
  BY DEF PhaseOf, Handled
<1>3. CASE \E place \in {"describing", "probing", "scraping"} : Dispatch(r, place)
  BY <1>1, <1>2, <1>3, Stutter DEF Dispatch, Unseen
<1>4. CASE Respond(r)
  BY <1>1, <1>2, <1>4, Stutter DEF Respond, Unseen
<1>5. CASE r \in Describe /\ GetRouter(r)
  BY <1>5, LoaderStep DEF Loader
<1>6. CASE r \in Describe /\ DescribeSelf(r)
  <2>1. router \in Contract!Sound
    BY <1>6, UsedIsSound DEF DescribeSelf
  <2>2. PICK a \in {"served", "response_error"} :
          Return(r, a) /\ (a = "served" <=> router \in Describable)
    BY <1>6 DEF DescribeSelf
  <2>3. a \in Contract!Justified(r)
    BY <1>1, <1>6, <2>1, <2>2 DEF Contract!Justified, Contract!Described
  <2>4. a = Contract!CountedAs(r, a) /\ a \notin Outcome
    BY <1>1, <2>2 DEF Contract!CountedAs, Outcome
  <2> QED
    BY <1>1, <1>2, <1>6, <2>2, <2>3, <2>4, Answers DEF DescribeSelf
<1>7. CASE r \in Probe \cup Scrape /\ (healthz(r) \/ prometheus_metrics(r))
  <2>1. "served" \in Contract!Justified(r)
    BY <1>1, <1>7, RequestsAssumption DEF Contract!Justified
  <2> QED
    BY <1>1, <1>2, <1>7, <2>1, MadeAnswers DEF healthz, prometheus_metrics, Outcome
<1> QED
  BY <1>3, <1>4, <1>5, <1>6, <1>7 DEF describe, probe, scrape

(* An edit of the file, a restart or a new request is one of the         *)
(* contract.                                                             *)
LEMMA EnvironmentStep ==
    ASSUME Base, Edit \/ Restart \/ \E r \in Request : Arrive(r)
    PROVE  Contract!Next
<1> USE DEF Serving, counters
<1>1. CASE Edit
  <2>1. Phases' = Phases
    BY <1>1 DEF Edit, Phases
  <2> QED
    BY <1>1, <2>1 DEF Edit, Contract!Edit, Contract!Next
<1>2. CASE Restart
  <2>1. \A r \in Request : PhaseOf(pc[r]) = "expected" <=> pc[r] = "new"
    BY DEF PhaseOf, Handled
  <2>2. Phases' = [r \in Request |-> IF Phases[r] = "expected" THEN "expected" ELSE "gone"]
    BY <1>2, <2>1 DEF Restart, Phases, PhaseOf, Handled
  <2> QED
    BY <1>2, <2>2 DEF Restart, Contract!Restart, Contract!Next, Contract!Request, Request,
       Contract!Outcome, Outcome
<1>3. ASSUME NEW r \in Request, Arrive(r) PROVE Contract!Next
  <2>1. Phases[r] = "expected" /\ Phases' = [Phases EXCEPT ![r] = "open"]
    BY <1>3, PhaseStep DEF Arrive, Phases, PhaseOf, Handled
  <2> QED
    BY <1>3, <2>1 DEF Arrive, Contract!Arrive, Contract!Next, Contract!Request, Request
<1> QED
  BY <1>1, <1>2, <1>3

(* The process keeps its contract with its clients, for any number of       *)
(* requests, whatever configs, URIs, edits and restarts there are.          *)
THEOREM ContractKept == Spec => KeepsContract
<1>1. Init => Contract!Init
  <2>1. ASSUME Init PROVE Phases = [r \in Request |-> "expected"]
    BY <2>1 DEF Init, Phases, PhaseOf, Handled
  <2> QED
    BY <2>1 DEF Init, Contract!Init, Contract!Request, Request, Contract!Outcome, Outcome
<1>2. ASSUME Base, Current, Admitted, [Next]_vars
      PROVE  Contract!Next \/ UNCHANGED Contract!contract
  <2>1. CASE UNCHANGED vars
    BY <2>1 DEF vars, counters, Contract!contract, Phases
  <2> QED
    BY <1>2, <2>1, ResolveStep, ThreadStep, EnvironmentStep DEF Next, Environment
<1>3. Base /\ Current /\ Admitted /\ [Next]_vars => [Contract!Next]_(Contract!contract)
  BY <1>2
<1> QED
  BY <1>1, <1>3, BaseInvariant, CurrentInvariant, AdmittedInvariant, PTL
     DEF Spec, KeepsContract, Contract!Spec
===============================================================================

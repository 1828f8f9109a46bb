------------------------------ MODULE Validators ------------------------------
(***************************************************************************)
(* The validators a config can select (src/resolver/validator.py), reduced *)
(* to what the resolve handler does with their result: whether the URI was *)
(* found ok, whether the result names a profile - a result without one is  *)
(* dropped and not counted (app.py:167) - and whether it can be printed    *)
(* into the response that carries it.                                      *)
(*                                                                         *)
(* A schema validator fetches the target document, an http validator posts *)
(* to an endpoint; both hold the calling thread until the reply is in.     *)
(* What the other side does is a Reply.                                    *)
(***************************************************************************)

CONSTANTS
    HttpxAvailable,       \* the optional httpx package can be imported
    JsonschemaAvailable   \* the optional jsonschema package can be imported

ASSUME DependenciesAssumption ==
    HttpxAvailable \in BOOLEAN /\ JsonschemaAvailable \in BOOLEAN

(* What load_validator builds: a kind, whether its profile is non-empty and  *)
(* whether it is plain, that is, JSON can represent it (a YAML date is not). *)
(* NoOpValidator's profile is the empty string, always.                      *)
Validator ==
    [kind : {"noop"}, profile : {FALSE}, plain : {TRUE}]
      \cup [kind : {"smoke", "schema", "http"}, profile : BOOLEAN, plain : BOOLEAN]

(* A downstream's reply:                                                    *)
(*   accepts, rejects  a 2xx JSON document the validator can read: it meets *)
(*                     the schema (its "ok" is truthy), or it does not      *)
(*   unusable          a transport failure, a timeout, a non-2xx status or  *)
(*                     a body that is not JSON                              *)
(*   unforeseen        what the except clauses do not name: a JSON body     *)
(*                     that is not an object (http), an invalid target URL  *)
(*                     or an unresolvable $ref (schema)                     *)
(* profile: the reply carries a profile of its own (http only).             *)
(* plain: what is quoted from it can be printed; a NaN among the errors of   *)
(* an http reply, or half of a surrogate pair, cannot.                       *)
Reply ==
    [body : {"accepts", "rejects", "unusable", "unforeseen"},
     profile : BOOLEAN, plain : BOOLEAN]

Verdict == [ok : BOOLEAN, profile : BOOLEAN, plain : BOOLEAN]

(* The validator makes a call: its dependencies are installed. *)
Asks(v) ==
    \/ v.kind = "schema" /\ JsonschemaAvailable /\ HttpxAvailable
    \/ v.kind = "http" /\ HttpxAvailable

(* The result of a validator that makes no call. The smoke checks only add *)
(* warnings, so it is ok as well.                                          *)
Unasked(v) == [ok |-> TRUE, profile |-> v.profile, plain |-> v.plain]

(* No result: an exception leaves validate(). *)
Raises(reply) == reply.body = "unforeseen"

(* The reply's own profile, if it has one, goes before the validator's. *)
Renamed(v, reply) == v.kind = "http" /\ reply.body # "unusable" /\ reply.profile

(* The result quotes the reply: what the schema found wrong with it, or the *)
(* errors and warnings of the validation service.                           *)
Quotes(v, reply) ==
    IF v.kind = "http" THEN reply.body # "unusable" ELSE reply.body = "rejects"

(* The result of a validator that made its call and got this reply. *)
Judge(v, reply) ==
    [ok      |-> reply.body # "rejects",
     profile |-> v.profile \/ Renamed(v, reply),
     plain   |-> /\ v.plain \/ Renamed(v, reply)
                 /\ Quotes(v, reply) => reply.plain]

(* The results a validator can have. *)
Verdicts(v) ==
    IF Asks(v) THEN {Judge(v, reply) : reply \in {q \in Reply : ~ Raises(q)}}
               ELSE {Unasked(v)}

(* A result that is put into a link-set and cannot be printed. *)
Spoils(verdict) == verdict.profile /\ ~ verdict.plain

===============================================================================

------------------------------- MODULE Metrics -------------------------------
(***************************************************************************)
(* The counters of src/resolver/metrics.py and the lock around them.       *)
(*                                                                         *)
(* Calls run in any number of threads. A call of record_request updates    *)
(* three counters one after the other - its outcome's, the latency sum and *)
(* the latency count - and record_validation one; every update is a read   *)
(* followed by a write. render copies all of them, a group at a time.      *)
(*                                                                         *)
(* A counter is the set of the calls it has counted: a call adds to each   *)
(* of its counters at most once, so the number is the set's cardinality,   *)
(* and the latency sum is the sum of the durations of its calls.           *)
(***************************************************************************)
EXTENDS Naturals, Sequences

CONSTANTS
    Call,        \* calls of record_request and record_validation
    Render,      \* calls of render
    KeysOf(_),   \* the counters a call updates, in order
    Nobody       \* the lock is free

Outcome == {"resolved", "redirect", "not_found", "bad_request"}
Key     == Outcome \cup {"true", "false", "sum", "count"}

RequestKeys    == {<<o, "sum", "count">> : o \in Outcome}  \* record_request(o, _)
ValidationKeys == {<<"true">>, <<"false">>}                \* record_validation(_)

(* What render copies, in order: _requests, _validations, the sum, the      *)
(* count, and _version, which is no counter and which no call changes.      *)
Groups == <<Outcome, {"true", "false"}, {"sum"}, {"count"}, {}>>

ASSUME CallsAssumption ==
    /\ Call \cap Render = {}
    /\ Nobody \notin Call \cup Render
    /\ \A c \in Call : KeysOf(c) \in RequestKeys \cup ValidationKeys

Thread == Call \cup Render

VARIABLES
    holder,   \* the thread that holds _lock
    pc,       \* "calling" | "locked" | "returned"
    step,     \* the next counter, or group, of the thread
    local,    \* what a call has read of that counter
    reading,  \* the call has read it and has still to write it
    counter,  \* the counters
    copied    \* what a render has copied

vars == <<holder, pc, step, local, reading, counter, copied>>

TypeOK ==
    /\ holder \in Thread \cup {Nobody}
    /\ pc \in [Thread -> {"calling", "locked", "returned"}]
    /\ step \in [Thread -> 1..6]
    /\ local \in [Call -> SUBSET Call]
    /\ reading \in [Call -> BOOLEAN]
    /\ counter \in [Key -> SUBSET Call]
    /\ copied \in [Render -> [Key -> SUBSET Call]]

Init ==
    /\ holder = Nobody
    /\ pc = [t \in Thread |-> "calling"]
    /\ step = [t \in Thread |-> 1]
    /\ local = [c \in Call |-> {}]
    /\ reading = [c \in Call |-> FALSE]
    /\ counter = [k \in Key |-> {}]
    /\ copied = [r \in Render |-> [k \in Key |-> {}]]

-------------------------------------------------------------------------------

Length(t) == IF t \in Call THEN Len(KeysOf(t)) ELSE Len(Groups)

(* Mutation: without the lock. *)
AcquireNothing(t) ==
    /\ pc[t] = "calling"
    /\ pc' = [pc EXCEPT ![t] = "locked"]
    /\ UNCHANGED <<holder, step, local, reading, counter, copied>>

(* Mutation: only the writers take the lock. *)
AcquireToWrite(t) ==
    /\ pc[t] = "calling"
    /\ IF t \in Call THEN holder = Nobody /\ holder' = t ELSE UNCHANGED holder
    /\ pc' = [pc EXCEPT ![t] = "locked"]
    /\ UNCHANGED <<step, local, reading, counter, copied>>

(* with _lock: *)
Acquire(t) ==
    /\ pc[t] = "calling"
    /\ holder = Nobody
    /\ holder' = t
    /\ pc' = [pc EXCEPT ![t] = "locked"]
    /\ UNCHANGED <<step, local, reading, counter, copied>>

(* Mutation: the lock is not released by a call that only reads. *)
ReleaseWritten(t) ==
    /\ pc[t] = "locked"
    /\ step[t] > Length(t)
    /\ holder' = IF t \in Call THEN Nobody ELSE holder
    /\ pc' = [pc EXCEPT ![t] = "returned"]
    /\ UNCHANGED <<step, local, reading, counter, copied>>

Release(t) ==
    /\ pc[t] = "locked"
    /\ step[t] > Length(t)
    /\ holder' = Nobody
    /\ pc' = [pc EXCEPT ![t] = "returned"]
    /\ UNCHANGED <<step, local, reading, counter, copied>>

(* x = x + ..., the read ... *)
Read(c) ==
    /\ pc[c] = "locked" /\ step[c] <= Length(c) /\ ~ reading[c]
    /\ local' = [local EXCEPT ![c] = counter[KeysOf(c)[step[c]]]]
    /\ reading' = [reading EXCEPT ![c] = TRUE]
    /\ UNCHANGED <<holder, pc, step, counter, copied>>

(* Mutation: a name that the outcomes do not have opens a series of its own. *)
WriteMisspelt(c) ==
    /\ pc[c] = "locked" /\ reading[c]
    /\ LET key == IF KeysOf(c)[step[c]] = "redirect" THEN "redirected" ELSE KeysOf(c)[step[c]]
       IN  counter' = [k \in DOMAIN counter \cup {key} |->
                         IF k = key THEN local[c] \cup {c} ELSE counter[k]]
    /\ reading' = [reading EXCEPT ![c] = FALSE]
    /\ step' = [step EXCEPT ![c] = @ + 1]
    /\ UNCHANGED <<holder, pc, local, copied>>

(* ... and the write. *)
Write(c) ==
    /\ pc[c] = "locked" /\ reading[c]
    /\ counter' = [counter EXCEPT ![KeysOf(c)[step[c]]] = local[c] \cup {c}]
    /\ reading' = [reading EXCEPT ![c] = FALSE]
    /\ step' = [step EXCEPT ![c] = @ + 1]
    /\ UNCHANGED <<holder, pc, local, copied>>

(* dict(_requests), dict(_validations), the two numbers and the version. *)
Copy(r) ==
    /\ pc[r] = "locked" /\ step[r] <= Length(r)
    /\ copied' = [copied EXCEPT ![r] =
                    [k \in Key |-> IF k \in Groups[step[r]] THEN counter[k] ELSE @[k]]]
    /\ step' = [step EXCEPT ![r] = @ + 1]
    /\ UNCHANGED <<holder, pc, local, reading, counter>>

record(c) == Acquire(c) \/ Read(c) \/ Write(c) \/ Release(c)
render(r) == Acquire(r) \/ Copy(r) \/ Release(r)

Terminated == (\A t \in Thread : pc[t] = "returned") /\ UNCHANGED vars

Next ==
    \/ \E c \in Call : record(c)
    \/ \E r \in Render : render(r)
    \/ Terminated

(* A thread that can go on does. Weak fairness is enough for the lock: it   *)
(* is held a finite number of times, so in the end it stays free.           *)
Spec ==
    /\ Init /\ [][Next]_vars
    /\ \A c \in Call : WF_vars(record(c))
    /\ \A r \in Render : WF_vars(render(r))

-------------------------------------------------------------------------------
(* Properties. *)

(* The counters of a call that it has updated. *)
Updated(c) == {KeysOf(c)[i] : i \in 1 .. (step[c] - 1)}

(* No update is lost or made twice: a counter holds exactly the calls that  *)
(* have written it, whatever the threads' interleaving (_lock).             *)
NoUpdateLost == \A k \in Key : counter[k] = {c \in Call : k \in Updated(c)}

Rendered(r) == step[r] > Length(r)

(* A scrape is consistent: the latency summary counts exactly the requests  *)
(* that requests_total counts, though render copies them one by one.        *)
ScrapeConsistent ==
    \A r \in Render : Rendered(r) =>
        /\ copied[r]["count"] = UNION {copied[r][o] : o \in Outcome}
        /\ copied[r]["sum"] = copied[r]["count"]

(* The calls behave as if each counted, or looked, in one step between its  *)
(* call and its return: a scrape misses nothing that had returned before it *)
(* was called - say, a request that has been answered - and sees all or     *)
(* nothing of a call that runs at the same time.                            *)
Counted == {c \in Call : step[c] > Length(c)}
Taken   == {r \in Render : Rendered(r)}
Seen    == [r \in Render |-> IF Rendered(r) THEN UNION {copied[r][k] : k \in Key} ELSE {}]

Ledger == INSTANCE MetricsLedger WITH counted <- Counted, taken <- Taken, seen <- Seen

ImplementsLedger == Ledger!Spec

(* Every call returns: no thread keeps the lock, none waits for it for ever. *)
EveryCallReturns == \A t \in Thread : <>(pc[t] = "returned")
===============================================================================

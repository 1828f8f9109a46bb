---------------------------- MODULE MetricsLedger ----------------------------
(***************************************************************************)
(* What src/resolver/metrics.py promises its callers: recording a request  *)
(* or a validation counts it once, in one indivisible step, and a scrape   *)
(* is a picture of one instant - everything counted before it, nothing     *)
(* half counted.                                                           *)
(***************************************************************************)
CONSTANTS Call,    \* calls of record_request and record_validation
          Render   \* calls of render

VARIABLES counted, \* the calls that have been counted
          taken,   \* the scrapes that have been taken
          seen     \* what each of them saw

ledger == <<counted, taken, seen>>

Init == counted = {} /\ taken = {} /\ seen = [r \in Render |-> {}]

Count(c) ==
    /\ c \notin counted
    /\ counted' = counted \cup {c}
    /\ UNCHANGED <<taken, seen>>

Look(r) ==
    /\ r \notin taken
    /\ taken' = taken \cup {r}
    /\ seen' = [seen EXCEPT ![r] = counted]
    /\ UNCHANGED counted

Next == (\E c \in Call : Count(c)) \/ (\E r \in Render : Look(r))

Spec == Init /\ [][Next]_ledger
===============================================================================

---------------------------- MODULE MetricsProofs ----------------------------
(***************************************************************************)
(* Theorems about Metrics, for any number of calls: no update of a counter *)
(* is lost, every scrape is consistent, and the calls implement the ledger *)
(* of MetricsLedger.                                                       *)
(***************************************************************************)
EXTENDS Metrics, TLAPS

-------------------------------------------------------------------------------
(* The inductive invariant. *)

(* The thread inside the critical section is the one that holds the lock. *)
LockHeld == \A t \in Thread : pc[t] = "locked" <=> holder = t

(* Outside its critical section a thread has all of it before it, or none. *)
StepsInside ==
    \A t \in Thread :
        /\ step[t] <= Length(t) + 1
        /\ pc[t] = "calling"  => step[t] = 1
        /\ pc[t] = "returned" => step[t] = Length(t) + 1

(* What a call has read is still what the counter holds. *)
ReadsFresh ==
    \A c \in Call : reading[c] =>
        /\ pc[c] = "locked"
        /\ step[c] <= Length(c)
        /\ local[c] = counter[KeysOf(c)[step[c]]]

(* What a render has copied is still what the counters hold. *)
CopiesFresh ==
    \A r \in Render : pc[r] = "locked" =>
        \A i \in 1 .. (step[r] - 1) : \A k \in Groups[i] : copied[r][k] = counter[k]

(* A finished scrape counts, in each of its counters, calls that are done. *)
Exact(r, done) ==
    \A k \in Key : copied[r][k] = {c \in done : k \in {KeysOf(c)[i] : i \in 1 .. Length(c)}}

ScrapesExact == \A r \in Render : Rendered(r) => \E done \in SUBSET Call : Exact(r, done)

IInv ==
    /\ TypeOK
    /\ LockHeld
    /\ StepsInside
    /\ ReadsFresh
    /\ CopiesFresh
    /\ NoUpdateLost
    /\ ScrapesExact

-------------------------------------------------------------------------------
(* The counters of a call are one of six short sequences. *)

(* A call updates one key or three, no key twice. *)
LEMMA CallKeys ==
    ASSUME NEW c \in Call
    PROVE  /\ Length(c) \in {1, 3}
           /\ \A i \in 1 .. Length(c) : KeysOf(c)[i] \in Key
           /\ \A i, j \in 1 .. Length(c) : KeysOf(c)[i] = KeysOf(c)[j] => i = j
<1>1. KeysOf(c) \in RequestKeys \cup ValidationKeys
  BY CallsAssumption
<1>2. CASE KeysOf(c) \in RequestKeys
  <2>1. PICK o \in Outcome : KeysOf(c) = <<o, "sum", "count">>
    BY <1>2 DEF RequestKeys
  <2>2. Len(KeysOf(c)) = 3
    BY <2>1
  <2>3. /\ KeysOf(c)[1] = o /\ KeysOf(c)[2] = "sum" /\ KeysOf(c)[3] = "count"
        /\ o # "sum" /\ o # "count"
    BY <2>1 DEF Outcome
  <2>4. Length(c) = 3
    BY <2>2 DEF Length
  <2>5. \A i \in 1 .. 3 : i = 1 \/ i = 2 \/ i = 3
    OBVIOUS
  <2> QED
    BY <2>3, <2>4, <2>5 DEF Key
<1>3. CASE KeysOf(c) \in ValidationKeys
  <2>1. KeysOf(c) = <<"true">> \/ KeysOf(c) = <<"false">>
    BY <1>3 DEF ValidationKeys
  <2>2. Length(c) = 1
    BY <2>1 DEF Length
  <2>3. KeysOf(c)[1] \in {"true", "false"}
    BY <2>1
  <2>4. \A i \in 1 .. 1 : i = 1
    OBVIOUS
  <2> QED
    BY <2>2, <2>3, <2>4 DEF Key
<1> QED
  BY <1>1, <1>2, <1>3

(* A render copies five groups, with every key in one of them. *)
LEMMA RenderGroups ==
    ASSUME NEW r \in Render
    PROVE  /\ Length(r) = 5
           /\ \A i \in 1 .. 5 : Groups[i] \subseteq Key
           /\ \A k \in Key : \E i \in 1 .. 5 : k \in Groups[i]
<1>1. r \notin Call
  BY CallsAssumption
<1>2. Len(Groups) = 5
  BY DEF Groups
<1>3. /\ Groups[1] = Outcome /\ Groups[2] = {"true", "false"}
      /\ Groups[3] = {"sum"} /\ Groups[4] = {"count"} /\ Groups[5] = {}
  BY DEF Groups
<1>4. Length(r) = 5
  BY <1>1, <1>2 DEF Length
<1>5. \A i \in 1 .. 5 : i = 1 \/ i = 2 \/ i = 3 \/ i = 4 \/ i = 5
  OBVIOUS
<1>6. \A i \in 1 .. 5 : Groups[i] \subseteq Key
  BY <1>3, <1>5 DEF Key
<1>7. \A k \in Key : k \in Outcome \/ k \in {"true", "false"} \/ k = "sum" \/ k = "count"
  BY DEF Key
<1>8. \A k \in Key : \E i \in 1 .. 5 : k \in Groups[i]
  BY <1>3, <1>7
<1> QED
  BY <1>4, <1>6, <1>8

-------------------------------------------------------------------------------
(* Mutual exclusion pays: while a render holds the lock every counter holds *)
(* exactly the calls that are done.                                         *)

(* No call is half done while a render holds the lock. *)
LEMMA RenderSeesNothingHalfDone ==
    ASSUME IInv, NEW r \in Render, pc[r] = "locked"
    PROVE  \A k \in Key :
             counter[k] = {c \in Counted : k \in {KeysOf(c)[i] : i \in 1 .. Length(c)}}
<1>1. ASSUME NEW c \in Call
      PROVE  \/ step[c] = 1 /\ c \notin Counted /\ Updated(c) = {}
             \/ /\ c \in Counted
                /\ Updated(c) = {KeysOf(c)[i] : i \in 1 .. Length(c)}
  <2>1. c # r /\ c \in Thread /\ r \in Thread
    BY CallsAssumption DEF Thread
  <2>2. pc[c] \in {"calling", "returned"}
    BY <2>1 DEF IInv, TypeOK, LockHeld
  <2>3. Length(c) \in {1, 3}
    BY CallKeys
  <2>4. CASE pc[c] = "calling"
    <3>1. step[c] = 1
      BY <2>1, <2>4 DEF IInv, StepsInside
    <3>2. Updated(c) = {}
      BY <3>1 DEF Updated
    <3> QED
      BY <2>3, <3>1, <3>2 DEF Counted
  <2>5. CASE pc[c] = "returned"
    <3>1. step[c] = Length(c) + 1
      BY <2>1, <2>5 DEF IInv, StepsInside
    <3>2. step[c] - 1 = Length(c) /\ step[c] > Length(c)
      BY <2>3, <3>1
    <3> QED
      BY <3>2 DEF Counted, Updated
  <2> QED
    BY <2>2, <2>4, <2>5
<1>2. TAKE k \in Key
<1>3. counter[k] = {c \in Call : k \in Updated(c)}
  BY DEF IInv, NoUpdateLost
<1>4. Counted \subseteq Call
  BY DEF Counted
<1> QED
  BY <1>1, <1>3, <1>4

-------------------------------------------------------------------------------
(* The invariant holds initially and every step preserves it. *)

(* Scrapes that are done stay exact while nothing more is copied. *)
LEMMA ScrapesFrame ==
    ASSUME ScrapesExact, copied' = copied, \A r \in Render : step'[r] = step[r]
    PROVE  ScrapesExact'
<1> SUFFICES ASSUME NEW r \in Render, Rendered(r)'
             PROVE  (\E done \in SUBSET Call : Exact(r, done))'
  BY DEF ScrapesExact
<1>1. Rendered(r)
  BY DEF Rendered, Length
<1>2. PICK done \in SUBSET Call : Exact(r, done)
  BY <1>1 DEF ScrapesExact
<1>3. Exact(r, done)'
  BY <1>2 DEF Exact, Length
<1> QED
  BY <1>3

(* The invariant holds at the start. *)
LEMMA InitIInv == Init => IInv
<1> SUFFICES ASSUME Init PROVE IInv
  OBVIOUS
<1> USE DEF Init
<1>1. \A t \in Thread : Length(t) \in 1 .. 5
  BY CallKeys, RenderGroups DEF Thread
<1>2. TypeOK
  BY DEF TypeOK
<1>3. LockHeld
  BY CallsAssumption DEF LockHeld, Thread
<1>4. StepsInside
  BY <1>1 DEF StepsInside
<1>5. ReadsFresh /\ CopiesFresh
  BY DEF ReadsFresh, CopiesFresh, Thread
<1>6. NoUpdateLost
  <2>1. ASSUME NEW c \in Call PROVE Updated(c) = {}
    <3>1. step[c] = 1
      BY DEF Thread
    <3>2. 1 .. (step[c] - 1) = {}
      BY <3>1
    <3> QED
      BY <3>2 DEF Updated
  <2> QED
    BY <2>1 DEF NoUpdateLost
<1>7. \A r \in Render : ~ Rendered(r)
  BY <1>1 DEF Rendered, Thread
<1> QED
  BY <1>2, <1>3, <1>4, <1>5, <1>6, <1>7 DEF IInv, ScrapesExact

(* Taking the lock keeps the invariant. *)
LEMMA AcquireIInv ==
    ASSUME IInv, NEW t \in Thread, Acquire(t)
    PROVE  IInv'
<1> USE DEF Acquire
<1>1. TypeOK'
  BY DEF IInv, TypeOK
<1>2. LockHeld'
  BY CallsAssumption DEF IInv, TypeOK, LockHeld, Thread
<1>3. StepsInside'
  BY DEF IInv, TypeOK, StepsInside, Length
<1>4. ReadsFresh'
  BY DEF IInv, TypeOK, ReadsFresh, Length, Thread
<1>5. CopiesFresh'
  <2> SUFFICES ASSUME NEW r \in Render, pc'[r] = "locked",
                      NEW i \in 1 .. (step'[r] - 1), NEW k \in Groups[i]
               PROVE  copied'[r][k] = counter'[k]
    BY DEF CopiesFresh
  <2>1. pc[r] = "locked"
    BY DEF IInv, TypeOK, StepsInside, Thread
  <2> QED
    BY <2>1 DEF IInv, CopiesFresh
<1>6. NoUpdateLost'
  BY DEF IInv, NoUpdateLost, Updated
<1>7. ScrapesExact'
  BY ScrapesFrame DEF IInv
<1> QED
  BY <1>1, <1>2, <1>3, <1>4, <1>5, <1>6, <1>7 DEF IInv

(* Releasing it does. *)
LEMMA ReleaseIInv ==
    ASSUME IInv, NEW t \in Thread, Release(t)
    PROVE  IInv'
<1> USE DEF Release
<1>0. Length(t) \in 1 .. 5
  BY CallKeys, RenderGroups DEF Thread
<1>1. TypeOK'
  BY DEF IInv, TypeOK
<1>2. LockHeld'
  BY CallsAssumption DEF IInv, TypeOK, LockHeld, Thread
<1>3. StepsInside'
  <2>1. step[t] = Length(t) + 1
    BY <1>0 DEF IInv, TypeOK, StepsInside
  <2>2. \A u \in Thread : pc'[u] = IF u = t THEN "returned" ELSE pc[u]
    BY DEF IInv, TypeOK
  <2> QED
    BY <2>1, <2>2 DEF IInv, StepsInside, Length
<1>4. ReadsFresh'
  <2> SUFFICES ASSUME NEW c \in Call, reading'[c]
               PROVE  /\ pc'[c] = "locked"
                      /\ step'[c] <= Length(c)
                      /\ local'[c] = counter'[KeysOf(c)[step'[c]]]
    BY DEF ReadsFresh, Length
  <2>1. pc[c] = "locked" /\ step[c] <= Length(c) /\ Length(c) \in 1 .. 5
    BY CallKeys DEF IInv, ReadsFresh
  <2>2. c # t
    BY <2>1 DEF IInv, TypeOK
  <2> QED
    BY <2>1, <2>2 DEF IInv, TypeOK, ReadsFresh, Thread
<1>5. CopiesFresh'
  BY DEF IInv, TypeOK, CopiesFresh, Thread
<1>6. NoUpdateLost'
  BY DEF IInv, NoUpdateLost, Updated
<1>7. ScrapesExact'
  BY ScrapesFrame DEF IInv
<1> QED
  BY <1>1, <1>2, <1>3, <1>4, <1>5, <1>6, <1>7 DEF IInv

(* Reading a counter does. *)
LEMMA ReadIInv ==
    ASSUME IInv, NEW c \in Call, Read(c)
    PROVE  IInv'
<1> USE DEF Read
<1>1. Length(c) \in {1, 3} /\ \A i \in 1 .. Length(c) : KeysOf(c)[i] \in Key
  BY CallKeys
<1>2. step[c] \in 1 .. Length(c)
  BY <1>1 DEF IInv, TypeOK, Thread
<1>3. KeysOf(c)[step[c]] \in Key
  BY <1>1, <1>2
<1>4. counter[KeysOf(c)[step[c]]] \in SUBSET Call
  BY <1>3 DEF IInv, TypeOK
<1>5. TypeOK'
  BY <1>4 DEF IInv, TypeOK
<1>6. LockHeld' /\ StepsInside' /\ CopiesFresh'
  BY DEF IInv, LockHeld, StepsInside, CopiesFresh, Length
<1>7. ReadsFresh'
  <2> SUFFICES ASSUME NEW d \in Call, reading'[d]
               PROVE  /\ pc[d] = "locked"
                      /\ step[d] <= Length(d)
                      /\ local'[d] = counter[KeysOf(d)[step[d]]]
    BY DEF ReadsFresh, Length
  <2>1. CASE d = c
    BY <2>1 DEF IInv, TypeOK
  <2>2. CASE d # c
    <3>1. reading[d] /\ local'[d] = local[d]
      BY <2>2 DEF IInv, TypeOK
    <3> QED
      BY <3>1 DEF IInv, ReadsFresh
  <2> QED
    BY <2>1, <2>2
<1>8. NoUpdateLost'
  BY DEF IInv, NoUpdateLost, Updated
<1>9. ScrapesExact'
  BY ScrapesFrame DEF IInv
<1> QED
  BY <1>5, <1>6, <1>7, <1>8, <1>9 DEF IInv

(* Writing it back does. *)
LEMMA WriteIInv ==
    ASSUME IInv, NEW c \in Call, Write(c)
    PROVE  IInv'
<1> USE DEF Write
<1> DEFINE key == KeysOf(c)[step[c]]
<1>1. /\ Length(c) \in {1, 3}
      /\ \A i \in 1 .. Length(c) : KeysOf(c)[i] \in Key
      /\ \A i, j \in 1 .. Length(c) : KeysOf(c)[i] = KeysOf(c)[j] => i = j
  BY CallKeys
<1>2. step[c] \in 1 .. Length(c) /\ local[c] = counter[key]
  BY <1>1 DEF IInv, TypeOK, ReadsFresh, Thread
<1>3. key \in Key
  BY <1>1, <1>2
<1>4. c \in Thread /\ c \notin Render /\ holder = c
  BY CallsAssumption DEF IInv, LockHeld, Thread
<1>5. step'[c] = step[c] + 1 /\ \A t \in Thread \ {c} : step'[t] = step[t]
  BY <1>4 DEF IInv, TypeOK
<1>6. TypeOK'
  <2>1. step[c] + 1 \in 1 .. 6
    BY <1>1, <1>2
  <2>2. local[c] \cup {c} \in SUBSET Call
    BY DEF IInv, TypeOK
  <2> QED
    BY <1>3, <2>1, <2>2 DEF IInv, TypeOK
<1>7. LockHeld'
  BY DEF IInv, LockHeld
<1>8. StepsInside'
  <2> SUFFICES ASSUME NEW t \in Thread
               PROVE  /\ step'[t] <= Length(t) + 1
                      /\ pc[t] = "calling"  => step'[t] = 1
                      /\ pc[t] = "returned" => step'[t] = Length(t) + 1
    BY DEF StepsInside, Length
  <2>1. CASE t = c
    BY <1>1, <1>2, <1>5, <2>1
  <2>2. CASE t # c
    BY <1>5, <2>2 DEF IInv, StepsInside
  <2> QED
    BY <2>1, <2>2
<1>9. ReadsFresh'
  <2> SUFFICES ASSUME NEW d \in Call, reading'[d] PROVE FALSE
    BY DEF ReadsFresh
  <2>1. d # c /\ reading[d]
    BY DEF IInv, TypeOK
  <2>2. pc[d] = "locked" /\ d \in Thread
    BY <2>1 DEF IInv, ReadsFresh, Thread
  <2> QED
    BY <1>4, <2>1, <2>2 DEF IInv, LockHeld
<1>10. CopiesFresh'
  <2> SUFFICES ASSUME NEW r \in Render, pc[r] = "locked" PROVE FALSE
    BY DEF CopiesFresh
  <2> QED
    BY <1>4 DEF IInv, LockHeld, Thread
<1>11. NoUpdateLost'
  <2>1. Updated(c)' = Updated(c) \cup {key}
    <3>1. 1 .. (step'[c] - 1) = (1 .. (step[c] - 1)) \cup {step[c]}
      BY <1>1, <1>2, <1>5
    <3> QED
      BY <3>1 DEF Updated
  <2>2. \A d \in Call \ {c} : Updated(d)' = Updated(d)
    BY <1>5 DEF Updated, Thread
  <2> SUFFICES ASSUME NEW k \in Key
               PROVE  counter'[k] = {d \in Call : k \in Updated(d)'}
    BY DEF NoUpdateLost
  <2>3. counter[k] = {d \in Call : k \in Updated(d)}
    BY DEF IInv, NoUpdateLost
  <2>4. CASE k = key
    <3>1. counter'[k] = counter[k] \cup {c}
      BY <1>2, <2>4 DEF IInv, TypeOK
    <3> QED
      BY <2>1, <2>2, <2>3, <2>4, <3>1
  <2>5. CASE k # key
    <3>1. counter'[k] = counter[k]
      BY <2>5 DEF IInv, TypeOK
    <3> QED
      BY <2>1, <2>2, <2>3, <2>5, <3>1
  <2> QED
    BY <2>4, <2>5
<1>12. ScrapesExact'
  <2>1. \A r \in Render : step'[r] = step[r]
    BY <1>4, <1>5 DEF Thread
  <2> QED
    BY <2>1, ScrapesFrame DEF IInv
<1> QED
  BY <1>6, <1>7, <1>8, <1>9, <1>10, <1>11, <1>12 DEF IInv

(* The copy that a finished render has made, counter by counter. *)
LEMMA LastCopy ==
    ASSUME IInv, NEW r \in Render, Copy(r), step'[r] > Length(r)
    PROVE  \A k \in Key : copied'[r][k] = counter[k]
<1>1. Length(r) = 5 /\ \A k \in Key : \E i \in 1 .. 5 : k \in Groups[i]
  BY RenderGroups
<1>2. step[r] = 5
  BY <1>1 DEF IInv, TypeOK, Copy, Thread
<1>3. TAKE k \in Key
<1>4. PICK i \in 1 .. 5 : k \in Groups[i]
  BY <1>1
<1>5. copied'[r][k] = IF k \in Groups[5] THEN counter[k] ELSE copied[r][k]
  BY <1>2 DEF IInv, TypeOK, Copy
<1>6. CASE i = 5
  BY <1>4, <1>5, <1>6
<1>7. CASE i # 5
  <2>1. i \in 1 .. (step[r] - 1)
    BY <1>2, <1>7
  <2>2. copied[r][k] = counter[k]
    BY <1>4, <2>1 DEF IInv, CopiesFresh, Copy
  <2> QED
    BY <1>5, <2>2
<1> QED
  BY <1>6, <1>7

(* Copying a series does. *)
LEMMA CopyIInv ==
    ASSUME IInv, NEW r \in Render, Copy(r)
    PROVE  IInv'
<1> USE DEF Copy
<1>1. Length(r) = 5 /\ \A i \in 1 .. 5 : Groups[i] \subseteq Key
  BY RenderGroups
<1>2. step[r] \in 1 .. 5 /\ r \in Thread /\ r \notin Call
  BY <1>1, CallsAssumption DEF IInv, TypeOK, Thread
<1>3. step'[r] = step[r] + 1 /\ \A t \in Thread \ {r} : step'[t] = step[t]
  BY <1>2 DEF IInv, TypeOK
<1>4. copied'[r] = [k \in Key |-> IF k \in Groups[step[r]] THEN counter[k] ELSE copied[r][k]]
  BY DEF IInv, TypeOK
<1>5. \A q \in Render \ {r} : copied'[q] = copied[q]
  BY DEF IInv, TypeOK
<1>6. TypeOK'
  <2>1. copied'[r] \in [Key -> SUBSET Call]
    BY <1>4 DEF IInv, TypeOK
  <2>2. step[r] + 1 \in 1 .. 6
    BY <1>2
  <2>3. copied' \in [Render -> [Key -> SUBSET Call]]
    BY <1>4, <2>1 DEF IInv, TypeOK
  <2> QED
    BY <2>2, <2>3 DEF IInv, TypeOK
<1>7. LockHeld'
  BY DEF IInv, LockHeld
<1>8. StepsInside'
  <2> SUFFICES ASSUME NEW t \in Thread
               PROVE  /\ step'[t] <= Length(t) + 1
                      /\ pc[t] = "calling"  => step'[t] = 1
                      /\ pc[t] = "returned" => step'[t] = Length(t) + 1
    BY DEF StepsInside, Length
  <2>1. CASE t = r
    BY <1>1, <1>2, <1>3, <2>1
  <2>2. CASE t # r
    BY <1>3, <2>2 DEF IInv, StepsInside
  <2> QED
    BY <2>1, <2>2
<1>9. \A c \in Call : step'[c] = step[c]
  BY <1>2, <1>3 DEF Thread
<1>10. ReadsFresh'
  BY <1>9 DEF IInv, ReadsFresh, Length
<1>11. NoUpdateLost'
  BY <1>9 DEF IInv, NoUpdateLost, Updated
<1>12. CopiesFresh'
  <2> SUFFICES ASSUME NEW q \in Render, pc[q] = "locked",
                      NEW i \in 1 .. (step'[q] - 1), NEW k \in Groups[i]
               PROVE  copied'[q][k] = counter[k]
    BY DEF CopiesFresh
  <2>1. q = r
    BY DEF IInv, LockHeld, Thread
  <2>2. i \in 1 .. step[r] /\ k \in Key
    BY <1>1, <1>2, <1>3, <2>1
  <2>3. CASE k \in Groups[step[r]]
    BY <1>4, <2>1, <2>2, <2>3
  <2>4. CASE k \notin Groups[step[r]]
    <3>1. i \in 1 .. (step[r] - 1)
      BY <1>2, <2>2, <2>4
    <3>2. copied[r][k] = counter[k]
      BY <3>1 DEF IInv, CopiesFresh
    <3> QED
      BY <1>4, <2>1, <2>2, <2>4, <3>2
  <2> QED
    BY <2>3, <2>4
<1>13. ASSUME NEW q \in Render, Rendered(q)'
       PROVE  (\E done \in SUBSET Call : Exact(q, done))'
  <2>1. CASE q = r
    <3>1. step'[r] > Length(r)
      BY <1>13, <2>1 DEF Rendered, Length
    <3>2. \A k \in Key : copied'[r][k] = counter[k]
      BY <3>1, LastCopy
    <3>3. \A k \in Key :
            counter[k] = {c \in Counted : k \in {KeysOf(c)[i] : i \in 1 .. Length(c)}}
      BY RenderSeesNothingHalfDone
    <3>4. Counted \in SUBSET Call
      BY DEF Counted
    <3>5. Exact(q, Counted)'
      BY <1>9, <2>1, <3>2, <3>3 DEF Exact, Length, Counted
    <3> QED
      BY <1>9, <3>4, <3>5 DEF Counted, Length
  <2>2. CASE q # r
    <3>1. Rendered(q)
      BY <1>3, <1>13, <2>2 DEF Rendered, Length, Thread
    <3>2. PICK done \in SUBSET Call : Exact(q, done)
      BY <3>1 DEF IInv, ScrapesExact
    <3>3. Exact(q, done)'
      BY <1>5, <2>2, <3>2 DEF Exact, Length
    <3> QED
      BY <3>3
  <2> QED
    BY <2>1, <2>2
<1> QED
  BY <1>6, <1>7, <1>8, <1>10, <1>11, <1>12, <1>13 DEF IInv, ScrapesExact

(* So every step does. *)
LEMMA StepIInv == IInv /\ [Next]_vars => IInv'
<1> SUFFICES ASSUME IInv, [Next]_vars PROVE IInv'
  OBVIOUS
<1>1. ASSUME NEW c \in Call, record(c) PROVE IInv'
  <2>1. c \in Thread
    BY DEF Thread
  <2> QED
    BY <1>1, <2>1, AcquireIInv, ReadIInv, WriteIInv, ReleaseIInv DEF record
<1>2. ASSUME NEW r \in Render, render(r) PROVE IInv'
  <2>1. r \in Thread
    BY DEF Thread
  <2> QED
    BY <1>2, <2>1, AcquireIInv, CopyIInv, ReleaseIInv DEF render
<1>3. ASSUME UNCHANGED vars PROVE IInv'
  <2> USE <1>3 DEF vars
  <2>1. TypeOK'
    BY DEF IInv, TypeOK
  <2>2. LockHeld' /\ StepsInside' /\ ReadsFresh' /\ CopiesFresh' /\ NoUpdateLost'
    BY DEF IInv, LockHeld, StepsInside, ReadsFresh, CopiesFresh, NoUpdateLost,
           Updated, Length
  <2>3. ScrapesExact'
    BY ScrapesFrame DEF IInv
  <2> QED
    BY <2>1, <2>2, <2>3 DEF IInv
<1> QED
  BY <1>1, <1>2, <1>3 DEF Next, Terminated

(* It holds in every state. *)
LEMMA Invariance == Spec => []IInv
<1> QED
  BY InitIInv, StepIInv, PTL DEF Spec

-------------------------------------------------------------------------------
(* The theorems. *)

(* The values of the module's variables, for any calls (metrics.py). *)
THEOREM TypeCorrect == Spec => []TypeOK
<1>1. IInv => TypeOK
  BY DEF IInv
<1> QED
  BY <1>1, Invariance, PTL

(* No interleaving of any number of record_request, record_validation and *)
(* render calls loses an increment or makes one twice.                    *)
THEOREM UpdatesKept == Spec => []NoUpdateLost
<1>1. IInv => NoUpdateLost
  BY DEF IInv
<1> QED
  BY <1>1, Invariance, PTL

(* The latency summary of any scrape counts exactly the requests that its *)
(* requests_total counts.                                                 *)
THEOREM ScrapesConsistent == Spec => []ScrapeConsistent
<1>1. IInv => ScrapeConsistent
  <2> SUFFICES ASSUME IInv, NEW r \in Render, Rendered(r)
               PROVE  /\ copied[r]["count"] = UNION {copied[r][o] : o \in Outcome}
                      /\ copied[r]["sum"] = copied[r]["count"]
    BY DEF ScrapeConsistent
  <2> DEFINE keys(c) == {KeysOf(c)[i] : i \in 1 .. Length(c)}
  <2>1. PICK done \in SUBSET Call : \A k \in Key : copied[r][k] = {c \in done : k \in keys(c)}
    BY DEF IInv, ScrapesExact, Exact
  <2>2. ASSUME NEW c \in Call
        PROVE  /\ "count" \in keys(c) <=> "sum" \in keys(c)
               /\ "count" \in keys(c) <=> \E o \in Outcome : o \in keys(c)
    <3>1. CASE KeysOf(c) \in RequestKeys
      <4>1. PICK o \in Outcome : KeysOf(c) = <<o, "sum", "count">>
        BY <3>1 DEF RequestKeys
      <4>2. Len(KeysOf(c)) = 3
        BY <4>1
      <4>3. Length(c) = 3
        BY <4>2 DEF Length
      <4>4. KeysOf(c)[1] = o /\ KeysOf(c)[2] = "sum" /\ KeysOf(c)[3] = "count"
        BY <4>1
      <4> QED
        BY <4>3, <4>4
    <3>2. CASE KeysOf(c) \in ValidationKeys
      <4>1. KeysOf(c) = <<"true">> \/ KeysOf(c) = <<"false">>
        BY <3>2 DEF ValidationKeys
      <4>2. Length(c) = 1
        BY <4>1 DEF Length
      <4>3. \A i \in 1 .. 1 : i = 1
        OBVIOUS
      <4>4. \A k \in keys(c) : k = "true" \/ k = "false"
        BY <4>1, <4>2, <4>3
      <4>5. "count" \notin keys(c) /\ "sum" \notin keys(c)
        BY <4>4
      <4>6. \A o \in Outcome : o \notin keys(c)
        BY <4>4 DEF Outcome
      <4> QED
        BY <4>5, <4>6
    <3> QED
      BY <3>1, <3>2, CallsAssumption
  <2>3. "count" \in Key /\ "sum" \in Key /\ Outcome \subseteq Key
    BY DEF Key
  <2> HIDE DEF keys
  <2>4. copied[r]["sum"] = copied[r]["count"]
    BY <2>1, <2>2, <2>3
  <2>5. copied[r]["count"] = UNION {copied[r][o] : o \in Outcome}
    <3>1. \A c : c \in copied[r]["count"] <=> c \in done /\ \E o \in Outcome : o \in keys(c)
      BY <2>1, <2>2, <2>3
    <3>2. \A o \in Outcome : copied[r][o] = {c \in done : o \in keys(c)}
      BY <2>1, <2>3
    <3> QED
      BY <3>1, <3>2
  <2> QED
    BY <2>4, <2>5
<1> QED
  BY <1>1, Invariance, PTL

-------------------------------------------------------------------------------
(* The refinement. *)

(* A step of Metrics changes what the ledger sees only when a call writes   *)
(* its last counter or a render copies its last group.                      *)

(* The first states are first states of the ledger. *)
LEMMA LedgerInit == Init => Ledger!Init
<1> SUFFICES ASSUME Init PROVE Ledger!Init
  OBVIOUS
<1>1. \A t \in Thread : Length(t) \in 1 .. 5 /\ step[t] = 1
  BY CallKeys, RenderGroups DEF Thread, Init
<1>2. Counted = {} /\ Taken = {} /\ \A r \in Render : ~ Rendered(r)
  BY <1>1 DEF Counted, Taken, Rendered, Thread
<1>3. Seen = [r \in Render |-> {}]
  BY <1>2 DEF Seen
<1> QED
  BY <1>2, <1>3 DEF Ledger!Init

(* Steps that change neither count nor scrape are nothing to the ledger. *)
LEMMA LedgerStutters ==
    ASSUME UNCHANGED <<step, copied>>
    PROVE  UNCHANGED Ledger!ledger
BY DEF Ledger!ledger, Counted, Taken, Seen, Rendered, Length

(* Writing a counter back is an entry of the ledger. *)
LEMMA WriteCounts ==
    ASSUME IInv, NEW c \in Call, Write(c)
    PROVE  [Ledger!Next]_(Ledger!ledger)
<1>1. Length(c) \in {1, 3}
  BY CallKeys
<1>2. step[c] \in 1 .. Length(c) /\ c \notin Render /\ c \in Thread
  BY <1>1, CallsAssumption DEF IInv, TypeOK, ReadsFresh, Write, Thread
<1>3. step'[c] = step[c] + 1 /\ \A t \in Thread \ {c} : step'[t] = step[t]
  BY <1>2 DEF IInv, TypeOK, Write
<1>4. UNCHANGED <<Taken, Seen>>
  <2>1. \A r \in Render : Rendered(r)' <=> Rendered(r)
    BY <1>2, <1>3 DEF Rendered, Length, Thread
  <2> QED
    BY <2>1 DEF Write, Taken, Seen
<1>5. c \notin Counted
  BY <1>1, <1>2 DEF Counted
<1>6. CASE step[c] = Length(c)
  <2>1. Counted' = Counted \cup {c}
    BY <1>1, <1>2, <1>3, <1>6 DEF Counted, Length, Thread
  <2> QED
    BY <1>4, <1>5, <2>1 DEF Ledger!Next, Ledger!Count
<1>7. CASE step[c] # Length(c)
  <2>1. Counted' = Counted
    BY <1>1, <1>2, <1>3, <1>7 DEF Counted, Length, Thread
  <2> QED
    BY <1>4, <2>1 DEF Ledger!ledger
<1> QED
  BY <1>6, <1>7

(* Copying a series is a look at the ledger. *)
LEMMA CopyLooks ==
    ASSUME IInv, NEW r \in Render, Copy(r)
    PROVE  [Ledger!Next]_(Ledger!ledger)
<1>1. Length(r) = 5
  BY RenderGroups
<1>2. step[r] \in 1 .. 5 /\ r \notin Call /\ r \in Thread
  BY <1>1, CallsAssumption DEF IInv, TypeOK, Copy, Thread
<1>3. step'[r] = step[r] + 1 /\ \A t \in Thread \ {r} : step'[t] = step[t]
  BY <1>2 DEF IInv, TypeOK, Copy
<1>4. Counted' = Counted
  BY <1>2, <1>3 DEF Counted, Length, Thread
<1>5. ~ Rendered(r)
  BY <1>1, <1>2 DEF Rendered
<1>6. \A q \in Render \ {r} : (Rendered(q)' <=> Rendered(q)) /\ copied'[q] = copied[q]
  BY <1>3 DEF Rendered, Length, Thread, Copy, IInv, TypeOK
<1>7. CASE step[r] = 5
  <2>1. Rendered(r)'
    <3>1. step'[r] > Length(r)
      BY <1>1, <1>3, <1>7
    <3> QED
      BY <3>1 DEF Rendered, Length
  <2>2. \A k \in Key : copied'[r][k] = counter[k]
    BY <1>1, <1>3, <1>7, LastCopy
  <2>3. \A k \in Key :
          counter[k] = {c \in Counted : k \in {KeysOf(c)[i] : i \in 1 .. Length(c)}}
    BY RenderSeesNothingHalfDone DEF Copy
  <2>4. \A c \in Counted : \E k \in Key : k \in {KeysOf(c)[i] : i \in 1 .. Length(c)}
    <3>1. TAKE c \in Counted
    <3>2. c \in Call
      BY DEF Counted
    <3>3. KeysOf(c)[1] \in Key /\ 1 \in 1 .. Length(c)
      BY <3>2, CallKeys
    <3> QED
      BY <3>3
  <2>5. UNION {copied'[r][k] : k \in Key} = Counted
    BY <2>2, <2>3, <2>4
  <2>6. Taken' = Taken \cup {r} /\ r \notin Taken
    BY <1>5, <1>6, <2>1 DEF Taken
  <2>7. Seen' = [Seen EXCEPT ![r] = Counted]
    <3> DEFINE saw(q) == IF Rendered(q) THEN UNION {copied[q][k] : k \in Key} ELSE {}
    <3>1. \A q \in Render \ {r} : saw(q)' = saw(q)
      BY <1>6
    <3>2. saw(r)' = Counted
      BY <2>1, <2>5
    <3>3. Seen = [q \in Render |-> saw(q)] /\ Seen' = [q \in Render |-> saw(q)']
      BY DEF Seen
    <3> HIDE DEF saw
    <3> QED
      BY <3>1, <3>2, <3>3
  <2> QED
    BY <1>4, <2>6, <2>7 DEF Ledger!Next, Ledger!Look
<1>8. CASE step[r] # 5
  <2>1. ~ Rendered(r)'
    <3>1. step'[r] \in 1 .. 5
      BY <1>2, <1>3, <1>8
    <3>2. ~ (step'[r] > Length(r))
      BY <1>1, <3>1
    <3> QED
      BY <3>2 DEF Rendered, Length
  <2>2. Taken' = Taken /\ Seen' = Seen
    BY <1>5, <1>6, <2>1 DEF Taken, Seen
  <2> QED
    BY <1>4, <2>2 DEF Ledger!ledger
<1> QED
  BY <1>7, <1>8

(* The lock makes every call indivisible: Metrics implements MetricsLedger. *)
THEOREM Refinement == Spec => ImplementsLedger
<1>1. ASSUME IInv, [Next]_vars
      PROVE  [Ledger!Next]_(Ledger!ledger)
  <2>1. ASSUME NEW t \in Thread, Acquire(t) \/ Release(t)
        PROVE  [Ledger!Next]_(Ledger!ledger)
    BY <2>1, LedgerStutters DEF Acquire, Release
  <2>2. ASSUME NEW c \in Call, record(c)
        PROVE  [Ledger!Next]_(Ledger!ledger)
    <3>1. c \in Thread
      BY DEF Thread
    <3>2. CASE Read(c)
      BY <3>2, LedgerStutters DEF Read
    <3> QED
      BY <1>1, <2>1, <2>2, <3>1, <3>2, WriteCounts DEF record
  <2>3. ASSUME NEW r \in Render, render(r)
        PROVE  [Ledger!Next]_(Ledger!ledger)
    <3>1. r \in Thread
      BY DEF Thread
    <3> QED
      BY <1>1, <2>1, <2>3, <3>1, CopyLooks DEF render
  <2>4. CASE UNCHANGED vars
    BY <2>4, LedgerStutters DEF vars
  <2> QED
    BY <1>1, <2>2, <2>3, <2>4 DEF Next, Terminated
<1> QED
  BY <1>1, LedgerInit, Invariance, PTL DEF Spec, ImplementsLedger, Ledger!Spec
===============================================================================

--------------------------- MODULE Gateway_proofs ---------------------------
(***************************************************************************)
(* The event bus has a loop for its queue whenever it is processing and    *)
(* records every failure, the gateway answers a request                    *)
(* from its cache only with what a handler said to it, and every phase of  *)
(* the middleware pipeline runs those it began with, for any number of     *)
(* events, handlers, callers and middleware.                               *)
(*                                                                         *)
(* For the bus, a handling in progress must not have more tasks than there *)
(* are handlers, and the list still begins with those it asked.            *)
(* For the gateway, a response is kept under the path and the query it     *)
(* answers, although a request is looked up before its query is            *)
(* transformed and kept after; and the requests counted but not ended are  *)
(* those under way.                                                        *)
(*                                                                         *)
(* For the pipeline, a request in a phase has run what was there when it   *)
(* began, or still has it before it, unless something was unregistered; an *)
(* arrival moves the others only back, so that nothing is passed over. And *)
(* unless something was registered, what it ran is in order and each of    *)
(* those before it belongs after all of those it ran.                      *)
(***************************************************************************)
EXTENDS GatewayRequests, EventBus, Pipeline, Integers, SequenceTheorems, FiniteSetTheorems, TLAPS

-----------------------------------------------------------------------------
(* Lists from which one is removed and into which one is inserted          *)

\* Where the other elements go when one is inserted or removed.
LEMMA InsertedAt ==
    ASSUME NEW S, NEW s \in Seq(S), NEW i \in 1 .. Len(s) + 1, NEW e \in S
    PROVE  /\ InsertAt(s, i, e) \in Seq(S)
           /\ Len(InsertAt(s, i, e)) = Len(s) + 1
           /\ \A j \in 1 .. Len(s) + 1 :
                InsertAt(s, i, e)[j] = IF j < i THEN s[j] ELSE IF j = i THEN e ELSE s[j - 1]
<1> DEFINE left == SubSeq(s, 1, i - 1)  right == SubSeq(s, i, Len(s))
<1>1. Len(s) \in Nat
  OBVIOUS
<1>2. /\ left \in Seq(S) /\ Len(left) = i - 1
      /\ \A j \in 1 .. i - 1 : left[j] = s[j]
  BY <1>1, SubSeqProperties
<1>3. /\ right \in Seq(S) /\ Len(right) = Len(s) - i + 1
      /\ \A j \in 1 .. Len(s) - i + 1 : right[j] = s[i + j - 1]
  BY <1>1, SubSeqProperties
<1> HIDE DEF left, right
<1>4. /\ left \o <<e>> \in Seq(S) /\ Len(left \o <<e>>) = i
      /\ \A j \in 1 .. i : (left \o <<e>>)[j] = IF j < i THEN s[j] ELSE e
  BY <1>1, <1>2, ConcatProperties
<1>5. InsertAt(s, i, e) = (left \o <<e>>) \o right
  BY DEF InsertAt, left, right
<1> DEFINE most == left \o <<e>>
           all == most \o right
<1>6. /\ most \in Seq(S) /\ Len(most) = i
      /\ \A j \in 1 .. i : most[j] = IF j < i THEN s[j] ELSE e
  BY <1>4
<1> HIDE DEF most
<1>7. /\ all \in Seq(S) /\ Len(all) = Len(most) + Len(right)
      /\ \A j \in 1 .. Len(most) + Len(right) :
           all[j] = IF j <= Len(most) THEN most[j] ELSE right[j - Len(most)]
  BY <1>3, <1>6, ConcatProperties
<1> HIDE DEF all
<1>8. Len(most) + Len(right) = Len(s) + 1
  BY <1>1, <1>3, <1>6
<1>9. \A j \in 1 .. Len(s) + 1 : all[j] = IF j <= i THEN most[j] ELSE right[j - i]
  BY <1>6, <1>7, <1>8
<1>10. ASSUME NEW j \in 1 .. Len(s) + 1
       PROVE  all[j] = IF j < i THEN s[j] ELSE IF j = i THEN e ELSE s[j - 1]
  <2>1. CASE j <= i
    <3>1. j \in 1 .. i /\ all[j] = most[j]
      BY <1>1, <1>9, <2>1
    <3> QED
      BY <1>1, <1>6, <2>1, <3>1
  <2>2. CASE j > i
    <3>1. j - i \in 1 .. Len(s) - i + 1 /\ i + (j - i) - 1 = j - 1
      BY <1>1, <2>2
    <3>2. all[j] = right[j - i]
      BY <1>1, <1>9, <2>2
    <3> QED
      BY <1>1, <1>3, <2>2, <3>1, <3>2
  <2> QED
    BY <1>1, <2>1, <2>2
<1> QED
  BY <1>5, <1>7, <1>8, <1>10 DEF all, most

LEMMA RemovedAt ==
    ASSUME NEW S, NEW s \in Seq(S), NEW i \in 1 .. Len(s)
    PROVE  /\ RemoveAt(s, i) \in Seq(S)
           /\ Len(RemoveAt(s, i)) = Len(s) - 1
           /\ \A j \in 1 .. Len(s) - 1 : RemoveAt(s, i)[j] = IF j < i THEN s[j] ELSE s[j + 1]
<1> DEFINE left == SubSeq(s, 1, i - 1)  right == SubSeq(s, i + 1, Len(s))
<1>1. Len(s) \in Nat
  OBVIOUS
<1>2. /\ left \in Seq(S) /\ Len(left) = i - 1
      /\ \A j \in 1 .. i - 1 : left[j] = s[j]
  BY <1>1, SubSeqProperties
<1>3. /\ right \in Seq(S) /\ Len(right) = Len(s) - i
      /\ \A j \in 1 .. Len(s) - i : right[j] = s[i + j]
  BY <1>1, SubSeqProperties
<1>4. RemoveAt(s, i) = left \o right
  BY DEF RemoveAt
<1> HIDE DEF left, right
<1> DEFINE t == left \o right
<1>5. /\ t \in Seq(S) /\ Len(t) = Len(left) + Len(right)
      /\ \A j \in 1 .. Len(left) + Len(right) :
           t[j] = IF j <= Len(left) THEN left[j] ELSE right[j - Len(left)]
  BY <1>2, <1>3, ConcatProperties
<1> HIDE DEF t
<1>6. Len(left) = i - 1 /\ Len(right) = Len(s) - i /\ Len(left) + Len(right) = Len(s) - 1
  BY <1>1, <1>2, <1>3
<1>7. \A j \in 1 .. Len(s) - 1 : t[j] = IF j <= i - 1 THEN left[j] ELSE right[j - (i - 1)]
  BY <1>5, <1>6
<1>8. ASSUME NEW j \in 1 .. Len(s) - 1 PROVE t[j] = IF j < i THEN s[j] ELSE s[j + 1]
  <2>1. CASE j < i
    BY <1>1, <1>2, <1>7, <2>1
  <2>2. CASE ~(j < i)
    <3>1. j - (i - 1) \in 1 .. Len(s) - i /\ i + (j - (i - 1)) = j + 1
      BY <1>1, <2>2
    <3>2. t[j] = right[j - (i - 1)]
      BY <1>1, <1>7, <2>2
    <3> QED
      BY <1>3, <2>2, <3>1, <3>2
  <2> QED
    BY <2>1, <2>2
<1> QED
  BY <1>4, <1>5, <1>6, <1>8 DEF t

LEMMA InsertedInjective ==
    ASSUME NEW S, NEW s \in Seq(S), IsInjective(s), NEW i \in 1 .. Len(s) + 1, NEW e \in S,
           \A j \in 1 .. Len(s) : s[j] # e
    PROVE  IsInjective(InsertAt(s, i, e))
<1> DEFINE t == InsertAt(s, i, e)
<1>1. /\ Len(s) \in Nat /\ \A j, k \in 1 .. Len(s) : s[j] = s[k] => j = k
  BY DEF IsInjective
<1>2. /\ DOMAIN t = 1 .. Len(s) + 1
      /\ \A j \in 1 .. Len(s) + 1 :
           t[j] = IF j < i THEN s[j] ELSE IF j = i THEN e ELSE s[j - 1]
  BY InsertedAt
<1> HIDE DEF t
<1> SUFFICES ASSUME NEW j \in 1 .. Len(s) + 1, NEW k \in 1 .. Len(s) + 1, j < k, t[j] = t[k]
             PROVE  FALSE
  BY <1>1, <1>2 DEF IsInjective, t
<1>3. CASE k < i
  BY <1>1, <1>2, <1>3
<1>4. CASE k = i
  BY <1>1, <1>2, <1>4
<1>5. CASE k > i
  <2>1. t[k] = s[k - 1] /\ k - 1 \in 1 .. Len(s)
    BY <1>1, <1>2, <1>5
  <2>2. CASE j < i
    BY <1>1, <1>2, <1>5, <2>1, <2>2
  <2>3. CASE j = i
    BY <1>1, <1>2, <2>1, <2>3
  <2>4. CASE j > i
    BY <1>1, <1>2, <2>1, <2>4
  <2> QED
    BY <2>2, <2>3, <2>4
<1> QED
  BY <1>1, <1>3, <1>4, <1>5

LEMMA RemovedInjective ==
    ASSUME NEW S, NEW s \in Seq(S), IsInjective(s), NEW i \in 1 .. Len(s)
    PROVE  IsInjective(RemoveAt(s, i))
<1> DEFINE t == RemoveAt(s, i)
<1>1. Len(s) \in Nat /\ \A j, k \in 1 .. Len(s) : s[j] = s[k] => j = k
  BY DEF IsInjective
<1>2. /\ DOMAIN t = 1 .. Len(s) - 1
      /\ \A j \in 1 .. Len(s) - 1 : t[j] = IF j < i THEN s[j] ELSE s[j + 1]
  <2>1. /\ t \in Seq(S) /\ Len(t) = Len(s) - 1
        /\ \A j \in 1 .. Len(s) - 1 : t[j] = IF j < i THEN s[j] ELSE s[j + 1]
    BY RemovedAt
  <2> HIDE DEF t
  <2> QED
    BY <2>1
<1> HIDE DEF t
<1>3. \A j, k \in 1 .. Len(s) - 1 : t[j] = t[k] => j = k
  <2> SUFFICES ASSUME NEW j \in 1 .. Len(s) - 1, NEW k \in 1 .. Len(s) - 1, t[j] = t[k]
               PROVE  j = k
    OBVIOUS
  <2>1. PICK x \in 1 .. Len(s) : t[j] = s[x] /\ x = IF j < i THEN j ELSE j + 1
    BY <1>1, <1>2
  <2>2. PICK y \in 1 .. Len(s) : t[k] = s[y] /\ y = IF k < i THEN k ELSE k + 1
    BY <1>1, <1>2
  <2>3. x = y
    BY <1>1, <2>1, <2>2
  <2> QED
    BY <1>1, <2>1, <2>2, <2>3
<1> QED
  BY <1>2, <1>3 DEF IsInjective, t

-----------------------------------------------------------------------------
(* The event bus                                                           *)

\* Unsubscribing leaves every other handler once in the list.
LEMMA OneRemoved ==
    ASSUME NEW S, NEW s \in Seq(S), IsInjective(s), NEW i \in DOMAIN s
    PROVE  RemoveAt(s, i) \in Seq(S) /\ IsInjective(RemoveAt(s, i))
<1>1. i \in 1 .. Len(s)
  OBVIOUS
<1> QED
  BY <1>1, RemovedAt, RemovedInjective

LEMMA OneMore ==
    ASSUME NEW S, NEW s \in Seq(S), NEW m \in S, IsInjective(s), m \notin ToSet(s)
    PROVE  /\ Append(s, m) \in Seq(S) /\ IsInjective(Append(s, m))
           /\ Len(Append(s, m)) = Len(s) + 1
           /\ ToSet(Append(s, m)) = ToSet(s) \cup {m}
<1>1. /\ Append(s, m) \in Seq(S) /\ Len(Append(s, m)) = Len(s) + 1
      /\ Append(s, m)[Len(s) + 1] = m
      /\ \A i \in 1 .. Len(s) : Append(s, m)[i] = s[i]
  OBVIOUS
<1>2. ToSet(Append(s, m)) = ToSet(s) \cup {m}
  BY <1>1 DEF ToSet
<1>3. IsInjective(Append(s, m))
  BY <1>1 DEF IsInjective, ToSet
<1> QED
  BY <1>1, <1>2, <1>3

\* Some order of a finite set exists, and SetToSeq is one.
LEMMA SomeOrder ==
    ASSUME NEW S, IsFiniteSet(S)
    PROVE  SetToSeq(S) \in Seq(S) /\ IsInjective(SetToSeq(S))
<1>1. Cardinality(S) \in Nat /\ ExistsBijection(1 .. Cardinality(S), S)
  BY FS_CardinalityType
<1>2. PICK f \in Bijection(1 .. Cardinality(S), S) : TRUE
  BY <1>1 DEF ExistsBijection
<1>3. f \in [1 .. Cardinality(S) -> S] /\ IsInjective(f)
  BY <1>2 DEF Bijection, Injection
<1>4. /\ SetToSeq(S) \in [1 .. Cardinality(S) -> S] /\ IsInjective(SetToSeq(S))
  BY <1>3, Zenon DEF SetToSeq
<1> QED
  BY <1>1, <1>4

HandlingStates ==
    [step : {"handling"}, event : Events, waits : BOOLEAN, disturbed : BOOLEAN,
     asked : Seq(Handlers), tasks : Nat]
RunnerStates ==
    [step : {"off", "waiting"}] \cup [step : {"before"}, event : Events, waits : BOOLEAN]
    \cup HandlingStates

EventBusTypes ==
    /\ handlers \in Seq(Handlers) /\ IsInjective(handlers)
    /\ queue \in Seq(Events) /\ published \in SUBSET Events
    /\ processing \in BOOLEAN /\ middleware \in BOOLEAN
    /\ runner \in [Runners -> RunnerStates]
    /\ recorded \in [Events -> SUBSET Handlers]

IsLoop(x) == x.step = "waiting" \/ (x.step \in {"before", "handling"} /\ ~x.waits)
\* An undisturbed handling runs no more handlers than the list still has, and
\* the list still begins with those it asked.
Fits(x, l) ==
    x.step = "handling" =>
        /\ ~x.disturbed => x.tasks <= Len(l)
        /\ x.asked # <<>> => /\ x.tasks <= Len(x.asked) /\ Len(x.asked) <= Len(l)
                             /\ \A i \in 1 .. Len(x.asked) : x.asked[i] = l[i]

EventBusInv ==
    /\ EventBusTypes
    /\ processing => \E r \in Runners : IsLoop(runner[r])
    /\ \A r \in Runners : Fits(runner[r], handlers)
    /\ misreported = {}

\* A handling that begins has a task for each handler that accepts the event.
LEMMA HandlingFits ==
    ASSUME EventBusTypes, NEW e \in Events, NEW waits \in BOOLEAN
    PROVE  /\ Handling(e, waits) \in RunnerStates /\ Fits(Handling(e, waits), handlers)
           /\ IsLoop(Handling(e, waits)) <=> ~waits
<1> DEFINE accepting == {i \in DOMAIN handlers : handlers[i] \in Accepting}
           asked == IF ToSet(handlers) \subseteq Accepting THEN handlers ELSE <<>>
<1>1. Len(handlers) \in Nat /\ DOMAIN handlers = 1 .. Len(handlers)
  BY DEF EventBusTypes
<1>2. IsFiniteSet(1 .. Len(handlers)) /\ Cardinality(1 .. Len(handlers)) = Len(handlers)
  <2> DEFINE n == Len(handlers)
  <2>1. 1 \in Int /\ n \in Int /\ (IF 1 > n THEN 0 ELSE n - 1 + 1) = n
    BY <1>1
  <2> HIDE DEF n
  <2>2. IsFiniteSet(1 .. n) /\ Cardinality(1 .. n) = IF 1 > n THEN 0 ELSE n - 1 + 1
    BY <2>1, FS_Interval
  <2> QED
    BY <2>1, <2>2 DEF n
<1>3. accepting \in SUBSET (1 .. Len(handlers))
  BY <1>1
<1>4. Cardinality(accepting) <= Len(handlers) /\ Cardinality(accepting) \in Nat
  BY <1>2, <1>3, FS_Subset, FS_CardinalityType
<1>5. asked \in Seq(Handlers) /\ (asked # <<>> => asked = handlers)
  BY DEF EventBusTypes
<1> HIDE DEF accepting, asked
<1>6. Handling(e, waits) = [step |-> "handling", event |-> e, waits |-> waits, disturbed |-> FALSE,
                            asked |-> asked, tasks |-> Cardinality(accepting)]
  BY DEF Handling, accepting, asked
<1>7. Handling(e, waits) \in RunnerStates
  BY <1>4, <1>5, <1>6 DEF RunnerStates, HandlingStates
<1>8. Fits(Handling(e, waits), handlers)
  BY <1>1, <1>4, <1>5, <1>6 DEF Fits
<1>9. IsLoop(Handling(e, waits)) <=> ~waits
  BY <1>6 DEF IsLoop
<1> QED
  BY <1>7, <1>8, <1>9

\* A coroutine goes on; the loops there were remain, or processing is off.
LEMMA RunsKeep ==
    ASSUME EventBusInv, NEW r \in Runners, NEW x \in RunnerStates, Runs(r, x), Fits(x, handlers),
           processing' => IsLoop(x) \/ (processing /\ ~IsLoop(runner[r])), UNCHANGED handlers
    PROVE  /\ runner' \in [Runners -> RunnerStates]
           /\ processing' => \E q \in Runners : IsLoop(runner'[q])
           /\ \A q \in Runners : Fits(runner'[q], handlers')
<1>1. /\ runner' \in [Runners -> RunnerStates]
      /\ \A q \in Runners : runner'[q] = IF q = r THEN x ELSE runner[q]
  BY DEF Runs, EventBusInv, EventBusTypes
<1>2. ASSUME processing' PROVE \E q \in Runners : IsLoop(runner'[q])
  <2>1. CASE IsLoop(x)
    BY <1>1, <2>1
  <2>2. CASE processing /\ ~IsLoop(runner[r])
    BY <1>1, <2>2 DEF EventBusInv
  <2> QED
    BY <1>2, <2>1, <2>2
<1>3. \A q \in Runners : Fits(runner'[q], handlers')
  BY <1>1 DEF EventBusInv
<1> QED
  BY <1>1, <1>2, <1>3

LEMMA StartsRuns ==
    ASSUME EventBusTypes, NEW r \in Runners, NEW e \in Events, NEW waits \in BOOLEAN, Starts(r, e, waits)
    PROVE  \E x \in RunnerStates : Runs(r, x) /\ Fits(x, handlers) /\ (IsLoop(x) <=> ~waits)
<1> DEFINE x == [step |-> "before", event |-> e, waits |-> waits]
<1>1. x \in RunnerStates /\ Fits(x, handlers) /\ (IsLoop(x) <=> ~waits)
  BY DEF RunnerStates, Fits, IsLoop
<1> HIDE DEF x
<1> QED
  BY <1>1, HandlingFits DEF Starts, x

\* A loop that has done with an event goes on unless processing is off.
LEMMA EndsRuns ==
    ASSUME EventBusTypes, NEW r \in Runners, runner[r].step \in {"before", "handling"}, Ends(r)
    PROVE  \E x \in RunnerStates :
             Runs(r, x) /\ Fits(x, handlers) /\ (processing => IsLoop(x) \/ ~IsLoop(runner[r]))
<1>1. /\ Off \in RunnerStates /\ Fits(Off, handlers)
      /\ [step |-> "waiting"] \in RunnerStates /\ Fits([step |-> "waiting"], handlers)
      /\ IsLoop([step |-> "waiting"])
  BY DEF Off, RunnerStates, Fits, IsLoop
<1>2. CASE ~runner[r].waits /\ processing
  BY <1>1, <1>2 DEF Ends
<1>3. CASE ~(~runner[r].waits /\ processing)
  BY <1>1, <1>3 DEF Ends, IsLoop
<1> QED
  BY <1>2, <1>3

LEMMA RunnerShapes ==
    ASSUME EventBusTypes, NEW r \in Runners
    PROVE  /\ runner[r].step = "before" =>
                runner[r] \in [step : {"before"}, event : Events, waits : BOOLEAN]
           /\ runner[r].step = "handling" => runner[r] \in HandlingStates
<1>1. runner[r] \in RunnerStates
  BY DEF EventBusTypes
<1> QED
  BY <1>1 DEF RunnerStates, HandlingStates

\* Each failure of an undisturbed handling finds the handler it came from.
LEMMA FailuresFound ==
    ASSUME EventBusInv, NEW r \in Runners, runner[r].step = "handling", ~runner[r].disturbed,
           NEW failed \in SUBSET (1 .. runner[r].tasks)
    PROVE  /\ Looked(failed) = failed
           /\ runner[r].asked # <<>> =>
                {handlers[i] : i \in Looked(failed)} = {runner[r].asked[i] : i \in failed}
<1>1. runner[r] \in HandlingStates /\ Len(handlers) \in Nat /\ EventBusTypes
  BY RunnerShapes DEF EventBusInv, EventBusTypes
<1>2. runner[r].tasks \in Nat /\ runner[r].asked \in Seq(Handlers)
  BY <1>1 DEF HandlingStates
<1>3. Fits(runner[r], handlers)
  BY DEF EventBusInv
<1>4. runner[r].tasks <= Len(handlers)
  BY <1>3 DEF Fits
<1>5. Looked(failed) = failed
  BY <1>1, <1>2, <1>4 DEF Looked
<1>6. ASSUME runner[r].asked # <<>>
      PROVE  \A i \in failed : handlers[i] = runner[r].asked[i]
  <2>1. /\ runner[r].tasks <= Len(runner[r].asked) /\ Len(runner[r].asked) \in Nat
        /\ \A i \in 1 .. Len(runner[r].asked) : runner[r].asked[i] = handlers[i]
    BY <1>2, <1>3, <1>6 DEF Fits
  <2>2. \A i \in failed : i \in 1 .. Len(runner[r].asked)
    BY <1>2, <2>1
  <2> QED
    BY <2>1, <2>2
<1> QED
  BY <1>5, <1>6

\* The invariant holds in every state, for any events, handlers and runners.
THEOREM EventBusInvariant ==
    ASSUME BusAssumption
    PROVE  BusSpec => []EventBusInv
<1>1. BusInit => EventBusInv
  <2> SUFFICES ASSUME BusInit PROVE EventBusInv
    OBVIOUS
  <2>1. handlers \in Seq(Handlers) /\ IsInjective(handlers)
    <3>1. PICK H \in SUBSET Handlers : handlers = SetToSeq(H)
      BY DEF BusInit
    <3>2. IsFiniteSet(H)
      BY FS_Subset DEF BusAssumption
    <3>3. handlers \in Seq(H) /\ IsInjective(handlers)
      BY <3>1, <3>2, SomeOrder
    <3> QED
      BY <3>3, SeqMonotonic
  <2>2. runner \in [Runners -> RunnerStates] /\ \A r \in Runners : runner[r].step = "off"
    BY DEF BusInit, Off, RunnerStates
  <2>3. EventBusTypes
    <3>1. queue \in Seq(Events) /\ published \in SUBSET Events
      BY DEF BusInit
    <3>2. recorded \in [Events -> SUBSET Handlers]
      BY DEF BusInit
    <3>3. processing \in BOOLEAN /\ middleware \in BOOLEAN
      BY DEF BusInit
    <3> QED
      BY <2>1, <2>2, <3>1, <3>2, <3>3 DEF EventBusTypes
  <2> QED
    BY <2>2, <2>3 DEF BusInit, EventBusInv, Fits
<1>2. EventBusInv /\ [BusNext]_busVars => EventBusInv'
  <2> SUFFICES ASSUME EventBusInv, [BusNext]_busVars PROVE EventBusInv'
    OBVIOUS
  <2>0. EventBusTypes
    BY DEF EventBusInv
  <2>1. ASSUME NEW h \in Handlers, Subscribe(h) PROVE EventBusInv'
    <3>1. /\ handlers' \in Seq(Handlers) /\ IsInjective(handlers')
          /\ Len(handlers') = Len(handlers) + 1 /\ Len(handlers) \in Nat
          /\ \A i \in 1 .. Len(handlers) : handlers'[i] = handlers[i]
      BY <2>0, <2>1, OneMore DEF Subscribe, EventBusTypes
    <3>2. ASSUME NEW r \in Runners PROVE Fits(runner[r], handlers')
      <4>1. CASE runner[r].step = "handling"
        <5>1. Fits(runner[r], handlers)
          BY DEF EventBusInv
        <5>2. runner[r].tasks \in Nat /\ runner[r].asked \in Seq(Handlers)
          BY <2>0, <4>1, RunnerShapes DEF HandlingStates
        <5>3. Len(runner[r].asked) \in Nat
          BY <5>2
        <5> QED
          BY <3>1, <4>1, <5>1, <5>2, <5>3 DEF Fits
      <4>2. CASE runner[r].step # "handling"
        BY <4>2 DEF Fits
      <4> QED
        BY <4>1, <4>2
    <3>3. UNCHANGED <<middleware, queue, processing, runner, published, recorded, misreported>>
      BY <2>1 DEF Subscribe
    <3> QED
      BY <3>1, <3>2, <3>3 DEF EventBusInv, EventBusTypes
  <2>2. ASSUME NEW h \in Handlers, Unsubscribe(h) PROVE EventBusInv'
    <3>1. handlers' \in Seq(Handlers) /\ IsInjective(handlers')
      BY <2>0, <2>2, OneRemoved DEF Unsubscribe, EventBusTypes
    <3>2. \A r \in Runners :
            /\ runner'[r] \in RunnerStates /\ Fits(runner'[r], handlers')
            /\ IsLoop(runner'[r]) <=> IsLoop(runner[r])
      <4> TAKE r \in Runners
      <4>1. CASE runner[r].step = "handling"
        <5> DEFINE x == Disturbed(runner[r])
        <5>1. runner'[r] = x
          BY <2>2, <4>1 DEF Unsubscribe
        <5>2. runner[r] \in HandlingStates
          BY <2>0, <4>1, RunnerShapes
        <5>3. /\ x \in HandlingStates /\ x.step = "handling"
              /\ x.disturbed = TRUE /\ x.asked = <<>> /\ x.waits = runner[r].waits
          <6> DEFINE y == [runner[r] EXCEPT !.disturbed = TRUE]
          <6>1. /\ y \in HandlingStates /\ y.step = "handling"
                /\ y.disturbed = TRUE /\ y.waits = runner[r].waits
            BY <5>2 DEF HandlingStates
          <6>2. x = [y EXCEPT !.asked = <<>>]
            BY DEF Disturbed
          <6>3. <<>> \in Seq(Handlers)
            OBVIOUS
          <6> HIDE DEF x, y
          <6> QED
            BY <6>1, <6>2, <6>3 DEF HandlingStates
        <5> HIDE DEF x
        <5> QED
          BY <4>1, <5>1, <5>3 DEF RunnerStates, Fits, IsLoop
      <4>2. CASE runner[r].step # "handling"
        <5>1. runner'[r] = runner[r]
          BY <2>2, <4>2 DEF Unsubscribe
        <5> QED
          BY <2>0, <4>2, <5>1 DEF EventBusTypes, Fits
      <4> QED
        BY <4>1, <4>2
    <3>3. runner' \in [Runners -> RunnerStates]
      <4>1. runner' = [r \in Runners |-> runner'[r]]
        BY <2>2 DEF Unsubscribe
      <4> QED
        BY <3>2, <4>1
    <3>4. UNCHANGED <<middleware, queue, processing, published, recorded, misreported>>
      BY <2>2 DEF Unsubscribe
    <3>5. processing' => \E r \in Runners : IsLoop(runner'[r])
      BY <3>2, <3>4 DEF EventBusInv
    <3> QED
      BY <3>1, <3>2, <3>3, <3>4, <3>5 DEF EventBusInv, EventBusTypes
  <2>3. ASSUME NEW e \in Events, Publish(e) PROVE EventBusInv'
    <3>1. /\ queue' = Append(queue, e) /\ published' = published \cup {e}
          /\ UNCHANGED <<middleware, handlers, processing, runner, recorded, misreported>>
      BY <2>3 DEF Publish
    <3>2. queue' \in Seq(Events) /\ published' \in SUBSET Events
      BY <2>0, <3>1 DEF EventBusTypes
    <3> QED
      BY <3>1, <3>2 DEF EventBusInv, EventBusTypes
  <2>4. ASSUME NEW r \in Runners, NEW x \in RunnerStates, Runs(r, x), Fits(x, handlers),
               processing' => IsLoop(x) \/ (processing /\ ~IsLoop(runner[r])), UNCHANGED handlers,
               queue' \in Seq(Events), UNCHANGED <<published, misreported, middleware>>,
               processing' \in BOOLEAN, recorded' \in [Events -> SUBSET Handlers]
        PROVE  EventBusInv'
    <3>1. /\ runner' \in [Runners -> RunnerStates]
          /\ processing' => \E q \in Runners : IsLoop(runner'[q])
          /\ \A q \in Runners : Fits(runner'[q], handlers')
      BY <2>4, RunsKeep
    <3> QED
      BY <2>4, <3>1 DEF EventBusInv, EventBusTypes
  <2>5. ASSUME NEW r \in Runners, NEW e \in Events, PublishAndWait(r, e) PROVE EventBusInv'
    <3>1. PICK x \in RunnerStates : Runs(r, x) /\ Fits(x, handlers) /\ ~IsLoop(x)
      BY <2>0, <2>5, StartsRuns DEF PublishAndWait
    <3>2. ~IsLoop(runner[r])
      BY <2>5 DEF PublishAndWait, Off, IsLoop
    <3> QED
      BY <2>0, <2>4, <2>5, <3>1, <3>2 DEF PublishAndWait, EventBusTypes
  <2>6. ASSUME NEW r \in Runners, StartProcessing(r) PROVE EventBusInv'
    <3> DEFINE x == [step |-> "waiting"]
    <3>1. x \in RunnerStates /\ Fits(x, handlers) /\ IsLoop(x)
      BY DEF RunnerStates, Fits, IsLoop
    <3>2. Runs(r, x) /\ processing' = TRUE
          /\ UNCHANGED <<middleware, handlers, queue, published, recorded, misreported>>
      BY <2>6 DEF StartProcessing
    <3> HIDE DEF x
    <3> QED
      BY <2>0, <2>4, <3>1, <3>2 DEF EventBusTypes
  <2>7. ASSUME NEW r \in Runners, TakeEvent(r) PROVE EventBusInv'
    <3>1. Head(queue) \in Events /\ Tail(queue) \in Seq(Events)
      <4>1. queue \in Seq(Events) /\ queue # <<>>
        BY <2>0, <2>7 DEF TakeEvent, EventBusTypes
      <4> QED
        BY <4>1
    <3>2. PICK x \in RunnerStates : Runs(r, x) /\ Fits(x, handlers) /\ IsLoop(x)
      BY <2>0, <2>7, <3>1, StartsRuns DEF TakeEvent
    <3> QED
      BY <2>0, <2>4, <2>7, <3>1, <3>2 DEF TakeEvent, EventBusTypes
  <2>8. ASSUME NEW r \in Runners, TimesOut(r) PROVE EventBusInv'
    <3>1. Off \in RunnerStates /\ Fits(Off, handlers)
      BY DEF Off, RunnerStates, Fits
    <3> QED
      BY <2>0, <2>4, <2>8, <3>1 DEF TimesOut, EventBusTypes
  <2>9. ASSUME NEW r \in Runners, BeforeHandle(r) PROVE EventBusInv'
    <3>1. runner[r] \in [step : {"before"}, event : Events, waits : BOOLEAN]
      BY <2>0, <2>9, RunnerShapes DEF BeforeHandle
    <3>2. runner[r].event \in Events /\ runner[r].waits \in BOOLEAN /\ runner[r].step = "before"
          /\ (IsLoop(runner[r]) <=> ~runner[r].waits)
      BY <3>1 DEF IsLoop
    <3>3. \E x \in RunnerStates :
             Runs(r, x) /\ Fits(x, handlers) /\ (processing => IsLoop(x) \/ ~IsLoop(runner[r]))
      <4>1. CASE Runs(r, Handling(runner[r].event, runner[r].waits))
        BY <2>0, <3>2, <4>1, HandlingFits
      <4>2. CASE Ends(r)
        BY <2>0, <3>2, <4>2, EndsRuns
      <4> QED
        BY <2>9, <4>1, <4>2 DEF BeforeHandle
    <3> QED
      BY <2>0, <2>4, <2>9, <3>3 DEF BeforeHandle, EventBusTypes
  <2>10. ASSUME NEW r \in Runners, NEW failed \in SUBSET (1 .. Cardinality(Handlers)), HandlingEnds(r, failed)
         PROVE  EventBusInv'
    <3> DEFINE e == runner[r].event
               found == {handlers[i] : i \in Looked(failed)}
    <3>1. /\ runner[r] \in HandlingStates
          /\ runner[r].step = "handling" /\ failed \subseteq 1 .. runner[r].tasks
      BY <2>0, <2>10, RunnerShapes DEF HandlingEnds
    <3>2. e \in Events /\ found \in SUBSET Handlers
      <4>1. \A i \in Looked(failed) : i \in 1 .. Len(handlers)
        <5>1. runner[r].tasks \in Nat /\ Len(handlers) \in Nat
          BY <2>0, <3>1 DEF HandlingStates, EventBusTypes
        <5> QED
          BY <3>1, <5>1 DEF Looked
      <4> QED
        BY <2>0, <3>1, <4>1 DEF HandlingStates, EventBusTypes
    <3>3. recorded' \in [Events -> SUBSET Handlers]
      <4>1. recorded' = [recorded EXCEPT ![e] = @ \cup found]
        BY <2>10 DEF HandlingEnds
      <4> HIDE DEF e, found
      <4> QED
        BY <2>0, <3>2, <4>1 DEF EventBusTypes
    <3>4. misreported' = misreported
      <4>1. ~runner[r].disturbed =>
              /\ Looked(failed) = failed
              /\ runner[r].asked # <<>> => found = {runner[r].asked[i] : i \in failed}
        BY <3>1, FailuresFound
      <4> QED
        BY <2>10, <4>1 DEF HandlingEnds
    <3>5. PICK x \in RunnerStates :
             Runs(r, x) /\ Fits(x, handlers) /\ (processing => IsLoop(x) \/ ~IsLoop(runner[r]))
      BY <2>0, <2>10, <3>1, EndsRuns DEF HandlingEnds
    <3>6. UNCHANGED <<middleware, handlers, queue, processing, published>>
      BY <2>10 DEF HandlingEnds
    <3> QED
      BY <2>0, <2>4, <3>3, <3>4, <3>5, <3>6 DEF EventBusTypes
  <2>11. CASE StopProcessing \/ ClearFailedEvents \/ AddMiddleware \/ UNCHANGED busVars
    <3>1. UNCHANGED <<handlers, queue, runner, published, misreported>> /\ (processing' => processing)
      BY <2>11 DEF StopProcessing, ClearFailedEvents, AddMiddleware, busVars
    <3>2. processing' \in BOOLEAN /\ middleware' \in BOOLEAN /\ recorded' \in [Events -> SUBSET Handlers]
      <4>1. CASE StopProcessing
        BY <2>0, <4>1 DEF StopProcessing, EventBusTypes
      <4>2. CASE ClearFailedEvents
        BY <2>0, <4>2 DEF ClearFailedEvents, EventBusTypes
      <4>3. CASE AddMiddleware
        BY <2>0, <4>3 DEF AddMiddleware, EventBusTypes
      <4>4. CASE UNCHANGED busVars
        BY <2>0, <4>4 DEF busVars, EventBusTypes
      <4> QED
        BY <2>11, <4>1, <4>2, <4>3, <4>4
    <3> QED
      BY <3>1, <3>2 DEF EventBusTypes, EventBusInv
  <2> QED
    BY <2>1, <2>2, <2>3, <2>5, <2>6, <2>7, <2>8, <2>9, <2>10, <2>11 DEF BusNext
<1> QED
  BY <1>1, <1>2, PTL DEF BusSpec

\* No failure of a handler goes unrecorded unless a handler was unsubscribed
\* while the event was handled, although the index of a result is looked up in
\* the live list: at its beginning a handling has no more results than that
\* list has handlers, and without unsubscription the list only grows at its
\* end.  So where all of it accepted the event, the handler found there is the
\* one that failed.
THEOREM FailuresAreRecorded ==
    ASSUME BusAssumption
    PROVE  BusSpec => [](BusTypeOK /\ FailuresRecorded)
<1>1. EventBusInv => BusTypeOK
  BY DEF EventBusInv, EventBusTypes, BusTypeOK, ToSet
<1>2. EventBusInv => FailuresRecorded
  BY DEF EventBusInv, FailuresRecorded
<1> QED
  BY <1>1, <1>2, EventBusInvariant, PTL

\* While the bus is processing some loop takes events off its queue, however
\* it is stopped and started and whatever is raised while one is handled.
THEOREM QueuesAreAttended ==
    ASSUME BusAssumption
    PROVE  BusSpec => []QueueAttended
<1>1. EventBusInv => QueueAttended
  BY DEF EventBusInv, QueueAttended, LoopsAlive, IsLoop
<1> QED
  BY <1>1, EventBusInvariant, PTL

-----------------------------------------------------------------------------
(* The requests of the gateway                                             *)

StatFields == {"total", "successful", "failed", "cached"}
Sent == [path : Paths, query : Queries, named : BOOLEAN, cacheable : BOOLEAN]
Answers == [made : 0 .. MaxInstant, query : Queries, path : Paths, ok : BOOLEAN]
InHand ==
    [step : {"free"}] \cup [step : {"limited"}, request : Requests] \cup [step : {"routed"}, request : Sent]
    \cup [step : {"answered"}, request : Sent, response : Answers]
    \cup [step : {"served"}, request : Sent, response : Answers, at : 0 .. MaxInstant]

\* The response is one to the request; from the cache, a good and young one.
Fitting(h) ==
    /\ h.step \in {"answered", "served"} =>
         h.response.path = h.request.path /\ h.response.query = h.request.query
    /\ h.step = "served" => h.response.ok /\ h.at < h.response.made + ResponseTtl
IsBusy(h) == h.step \notin {"free", "served"}
Busy == {c \in Senders : IsBusy(underway[c])}

GatewayTypes ==
    /\ instant \in 0 .. MaxInstant /\ routes \in Seq(Patterns)
    /\ underway \in [Senders -> InHand]
    /\ stats \in [StatFields -> Nat]

\* Every response is kept under the path and the query it answers.
KeptUnderItsKey ==
    \A key \in DOMAIN responses :
        /\ responses[key] \in Answers /\ responses[key].ok
        /\ key = <<responses[key].path, responses[key].query>>

RequestsInv ==
    /\ GatewayTypes /\ KeptUnderItsKey
    /\ \A c \in Senders : Fitting(underway[c])
    /\ stats["total"] = stats["successful"] + stats["failed"] + stats["cached"] + Cardinality(Busy)
    /\ stats["total"] <= MaxRequests

LEMMA BusyIsFinite ==
    ASSUME GatewayAssumption
    PROVE  IsFiniteSet(Busy) /\ Cardinality(Busy) \in Nat
  BY FS_Subset, FS_CardinalityType DEF Busy, GatewayAssumption

LEMMA Counted ==
    ASSUME GatewayTypes, NEW field \in StatFields, Count(field)
    PROVE  /\ stats' \in [StatFields -> Nat]
           /\ \A f \in StatFields : stats'[f] = IF f = field THEN stats[f] + 1 ELSE stats[f]
  BY DEF GatewayTypes, Count

\* A caller goes on: the number of the busy ones changes with it.
LEMMA CallerGoesOn ==
    ASSUME GatewayAssumption, RequestsInv, NEW c \in Senders, NEW h \in InHand, Proceeds(c, h), Fitting(h)
    PROVE  /\ underway' \in [Senders -> InHand] /\ \A d \in Senders : Fitting(underway'[d])
           /\ IsBusy(underway[c]) /\ ~IsBusy(h) => Cardinality(Busy') = Cardinality(Busy) - 1
           /\ ~IsBusy(underway[c]) /\ IsBusy(h) => Cardinality(Busy') = Cardinality(Busy) + 1
           /\ (IsBusy(underway[c]) <=> IsBusy(h)) => Cardinality(Busy') = Cardinality(Busy)
<1>1. /\ underway' \in [Senders -> InHand]
      /\ \A d \in Senders : underway'[d] = IF d = c THEN h ELSE underway[d]
  BY DEF Proceeds, RequestsInv, GatewayTypes
<1>2. \A d \in Senders : Fitting(underway'[d])
  BY <1>1 DEF RequestsInv
<1>3. CASE IsBusy(underway[c]) /\ ~IsBusy(h)
  <2>1. Busy' = Busy \ {c} /\ c \in Busy
    BY <1>1, <1>3 DEF Busy
  <2> QED
    BY <1>1, <1>2, <1>3, <2>1, BusyIsFinite, FS_RemoveElement
<1>4. CASE ~IsBusy(underway[c]) /\ IsBusy(h)
  <2>1. Busy' = Busy \cup {c} /\ c \notin Busy
    BY <1>1, <1>4 DEF Busy
  <2> QED
    BY <1>1, <1>2, <1>4, <2>1, BusyIsFinite, FS_AddElement
<1>5. CASE IsBusy(underway[c]) <=> IsBusy(h)
  <2>1. Busy' = Busy
    BY <1>1, <1>5 DEF Busy
  <2> QED
    BY <1>1, <1>2, <1>5, <2>1
<1> QED
  BY <1>3, <1>4, <1>5

\* How a request ends, and that it is counted once.
LEMMA EndIsCounted ==
    ASSUME GatewayAssumption, RequestsInv, NEW c \in Senders, NEW h \in InHand, Proceeds(c, h), Fitting(h),
           IsBusy(underway[c]), ~IsBusy(h),
           NEW field \in {"successful", "failed", "cached"}, Count(field),
           KeptUnderItsKey', UNCHANGED <<instant, routes>>
    PROVE  RequestsInv'
<1>1. /\ underway' \in [Senders -> InHand] /\ \A d \in Senders : Fitting(underway'[d])
      /\ Cardinality(Busy') = Cardinality(Busy) - 1
  BY CallerGoesOn
<1>2. field \in StatFields /\ GatewayTypes
  BY DEF StatFields, RequestsInv
<1>3. /\ stats' \in [StatFields -> Nat]
      /\ \A f \in StatFields : stats'[f] = IF f = field THEN stats[f] + 1 ELSE stats[f]
  BY <1>2, Counted
<1>4. /\ stats["total"] \in Nat /\ stats["successful"] \in Nat /\ stats["failed"] \in Nat
      /\ stats["cached"] \in Nat /\ Cardinality(Busy) \in Nat
  BY <1>2, BusyIsFinite DEF GatewayTypes, StatFields
<1>5. /\ stats'["total"] = stats["total"]
      /\ stats'["successful"] = IF field = "successful" THEN stats["successful"] + 1
                                ELSE stats["successful"]
      /\ stats'["failed"] = IF field = "failed" THEN stats["failed"] + 1 ELSE stats["failed"]
      /\ stats'["cached"] = IF field = "cached" THEN stats["cached"] + 1 ELSE stats["cached"]
  BY <1>3 DEF StatFields
<1>6. stats["total"] = stats["successful"] + stats["failed"] + stats["cached"] + Cardinality(Busy)
  BY DEF RequestsInv
<1>7. stats'["total"] = stats'["successful"] + stats'["failed"] + stats'["cached"] + Cardinality(Busy')
  <2>1. CASE field = "successful"
    BY <1>1, <1>4, <1>5, <1>6, <2>1
  <2>2. CASE field = "failed"
    BY <1>1, <1>4, <1>5, <1>6, <2>2
  <2>3. CASE field = "cached"
    BY <1>1, <1>4, <1>5, <1>6, <2>3
  <2> QED
    BY <2>1, <2>2, <2>3
<1> QED
  BY <1>1, <1>3, <1>5, <1>7 DEF RequestsInv, GatewayTypes

\* A request under way goes on without an end.
LEMMA WayIsKept ==
    ASSUME GatewayAssumption, RequestsInv, NEW c \in Senders, NEW h \in InHand, Proceeds(c, h), Fitting(h),
           IsBusy(underway[c]), IsBusy(h), KeptUnderItsKey', UNCHANGED <<instant, routes, stats>>
    PROVE  RequestsInv'
<1>1. /\ underway' \in [Senders -> InHand] /\ \A d \in Senders : Fitting(underway'[d])
      /\ Cardinality(Busy') = Cardinality(Busy)
  BY CallerGoesOn
<1> QED
  BY <1>1 DEF RequestsInv, GatewayTypes

LEMMA RequestsAreSent ==
    ASSUME GatewayAssumption, NEW r \in Requests
    PROVE  /\ r \in Sent /\ r.query \in DOMAIN Mapped
           /\ [r EXCEPT !.query = Mapped[@]] \in Sent
<1>1. r \in Sent /\ r.query \in DOMAIN Mapped
  BY DEF GatewayAssumption, Sent
<1>2. Mapped[r.query] \in Queries
  BY <1>1 DEF Queries
<1> QED
  BY <1>1, <1>2 DEF Sent

LEMMA HandShapes ==
    ASSUME GatewayTypes, NEW c \in Senders
    PROVE  /\ underway[c].step = "limited" => underway[c].request \in Requests
           /\ underway[c].step = "routed" => underway[c].request \in Sent
           /\ underway[c].step = "answered" =>
                underway[c].request \in Sent /\ underway[c].response \in Answers
  BY DEF GatewayTypes, InHand

LEMMA FreeHand == Free \in InHand /\ Fitting(Free) /\ ~IsBusy(Free)
  BY DEF Free, InHand, Fitting, IsBusy

LEMMA CheckCacheKeeps ==
    ASSUME GatewayAssumption, RequestsInv, NEW c \in Senders, CheckCache(c)
    PROVE  RequestsInv'
<1> DEFINE r == underway[c].request
           key == Key(r.path, r.query)
           q == [r EXCEPT !.query = Mapped[@]]
           h == [step |-> "routed", request |-> q]
<1>1. underway[c].step = "limited" /\ r \in Requests /\ r \in Sent /\ q \in Sent
      /\ UNCHANGED <<instant, routes>> /\ IsBusy(underway[c])
  BY HandShapes, RequestsAreSent DEF CheckCache, RequestsInv, Stands, IsBusy
<1>2. h \in InHand /\ Fitting(h) /\ IsBusy(h)
  BY <1>1 DEF InHand, Fitting, IsBusy
<1>3. CASE Fails(c)
  <2>1. KeptUnderItsKey'
    BY <1>3 DEF Fails, KeptUnderItsKey, RequestsInv
  <2> QED
    BY <1>1, <1>3, <2>1, FreeHand, EndIsCounted DEF Fails
<1>4. CASE /\ key \in DOMAIN responses /\ StillValid(responses[key])
           /\ Count("cached")
           /\ Proceeds(c, [step |-> "served", request |-> r, response |-> responses[key], at |-> instant])
           /\ UNCHANGED responses
  <2> DEFINE s == [step |-> "served", request |-> r, response |-> responses[key], at |-> instant]
  <2>1. /\ responses[key] \in Answers /\ responses[key].ok
        /\ key = <<responses[key].path, responses[key].query>>
    BY <1>4 DEF RequestsInv, KeptUnderItsKey
  <2>2. s \in InHand /\ ~IsBusy(s)
    BY <1>1, <2>1 DEF InHand, IsBusy, RequestsInv, GatewayTypes
  <2>3. Fitting(s)
    BY <1>4, <2>1 DEF Fitting, StillValid, Key
  <2>4. KeptUnderItsKey'
    BY <1>4 DEF KeptUnderItsKey, RequestsInv
  <2> HIDE DEF s
  <2>5. Proceeds(c, s) /\ Count("cached")
    BY <1>4 DEF s
  <2> QED
    BY <1>1, <2>2, <2>3, <2>4, <2>5, EndIsCounted
<1>5. CASE /\ responses' = [k \in DOMAIN responses \ {key} |-> responses[k]] \/ responses' = responses
           /\ UNCHANGED stats /\ Proceeds(c, h)
  <2>1. KeptUnderItsKey'
    BY <1>5 DEF KeptUnderItsKey, RequestsInv
  <2> QED
    BY <1>1, <1>2, <1>5, <2>1, WayIsKept
<1> QED
  BY <1>3, <1>4, <1>5 DEF CheckCache

LEMMA RouteKeeps ==
    ASSUME GatewayAssumption, RequestsInv, NEW c \in Senders, NEW succeeds \in BOOLEAN,
           RouteRequest(c, succeeds)
    PROVE  RequestsInv'
<1> DEFINE r == underway[c].request
           fine == succeeds /\ HandlerOf(r.path) # "none"
           a == [made |-> instant, query |-> r.query, path |-> r.path, ok |-> fine]
           h == [step |-> "answered", request |-> r, response |-> a]
<1>1. underway[c].step = "routed" /\ r \in Sent /\ IsBusy(underway[c]) /\ UNCHANGED <<instant, routes>>
  BY HandShapes DEF RouteRequest, RequestsInv, Stands, IsBusy
<1>2. fine \in BOOLEAN /\ r.query \in Queries /\ r.path \in Paths /\ instant \in 0 .. MaxInstant
  BY <1>1 DEF Sent, RequestsInv, GatewayTypes
<1>3. CASE Fails(c)
  <2>1. KeptUnderItsKey'
    BY <1>3 DEF Fails, KeptUnderItsKey, RequestsInv
  <2> QED
    BY <1>1, <1>3, <2>1, FreeHand, EndIsCounted DEF Fails
<1>4. CASE Proceeds(c, h) /\ UNCHANGED <<responses, stats>>
  <2> HIDE DEF fine
  <2>1. a \in Answers /\ a.path = r.path /\ a.query = r.query
    BY <1>2 DEF Answers
  <2>2. h \in InHand /\ Fitting(h) /\ IsBusy(h)
    BY <1>1, <2>1 DEF InHand, Fitting, IsBusy
  <2>3. KeptUnderItsKey'
    BY <1>4 DEF KeptUnderItsKey, RequestsInv
  <2> QED
    BY <1>1, <1>4, <2>2, <2>3, WayIsKept
<1> QED
  BY <1>3, <1>4 DEF RouteRequest

LEMMA RespondKeeps ==
    ASSUME GatewayAssumption, RequestsInv, NEW c \in Senders, Respond(c)
    PROVE  RequestsInv'
<1> DEFINE h == underway[c]
           key == Key(h.request.path, h.request.query)
<1>1. /\ h.step = "answered" /\ h.request \in Sent /\ h.response \in Answers /\ IsBusy(h)
      /\ UNCHANGED <<instant, routes>>
      /\ h.response.path = h.request.path /\ h.response.query = h.request.query
  BY HandShapes DEF Respond, RequestsInv, Stands, IsBusy, Fitting
<1>2. KeptUnderItsKey'
  <2>1. CASE h.request.cacheable /\ h.response.ok
    <3>1. responses' = [k \in DOMAIN responses \cup {key} |->
                           IF k = key THEN h.response ELSE responses[k]]
      BY <2>1 DEF Respond, CacheResponse, CacheUnder
    <3>2. key = <<h.response.path, h.response.query>>
      BY <1>1 DEF Key
    <3> HIDE DEF key
    <3>3. \A k \in DOMAIN responses' : (k = key /\ responses'[k] = h.response)
            \/ (k \in DOMAIN responses /\ responses'[k] = responses[k])
      BY <3>1
    <3> QED
      BY <1>1, <2>1, <3>2, <3>3 DEF KeptUnderItsKey, RequestsInv
  <2>2. CASE ~(h.request.cacheable /\ h.response.ok)
    <3>1. responses' = responses
      BY <2>2 DEF Respond, CacheResponse, CacheUnder
    <3> QED
      BY <3>1 DEF KeptUnderItsKey, RequestsInv
  <2> QED
    BY <2>1, <2>2
<1>3. Proceeds(c, Free) /\ (Count("successful") \/ Count("failed"))
  BY DEF Respond
<1> QED
  BY <1>1, <1>2, <1>3, FreeHand, EndIsCounted

\* The invariant holds in every state, for any requests, routes and callers.
THEOREM RequestsInvariant ==
    ASSUME GatewayAssumption
    PROVE  GatewaySpec => []RequestsInv
<1>1. GatewayInit => RequestsInv
  <2> SUFFICES ASSUME GatewayInit PROVE RequestsInv
    OBVIOUS
  <2>1. stats \in [StatFields -> Nat] /\ \A f \in StatFields : stats[f] = 0
    BY DEF GatewayInit, StatFields
  <2>2. underway \in [Senders -> InHand] /\ \A c \in Senders : underway[c] = Free
    BY FreeHand DEF GatewayInit
  <2>3. Busy = {}
    BY <2>2, FreeHand DEF Busy
  <2>4. Cardinality(Busy) = 0
    BY <2>3, FS_EmptySet
  <2>5. instant \in 0 .. MaxInstant /\ MaxRequests \in Nat /\ routes \in Seq(Patterns)
    BY DEF GatewayInit, GatewayAssumption
  <2>6. KeptUnderItsKey
    <3>1. DOMAIN responses = {}
      BY DEF GatewayInit
    <3> QED
      BY <3>1 DEF KeptUnderItsKey
  <2>7. stats["total"] = 0 /\ stats["successful"] = 0 /\ stats["failed"] = 0 /\ stats["cached"] = 0
    BY <2>1 DEF StatFields
  <2> QED
    BY <2>1, <2>2, <2>4, <2>5, <2>6, <2>7, FreeHand DEF RequestsInv, GatewayTypes
<1>2. RequestsInv /\ [GatewayNext]_gatewayVars => RequestsInv'
  <2> SUFFICES ASSUME RequestsInv, [GatewayNext]_gatewayVars PROVE RequestsInv'
    OBVIOUS
  <2>0. GatewayTypes
    BY DEF RequestsInv
  <2>1. ASSUME NEW c \in Senders, NEW r \in Requests, Arrive(c, r) PROVE RequestsInv'
    <3> DEFINE h == [step |-> "limited", request |-> r]
    <3>1. h \in InHand /\ Fitting(h) /\ IsBusy(h) /\ ~IsBusy(underway[c])
      BY <2>1 DEF InHand, Fitting, IsBusy, Arrive
    <3>2. Proceeds(c, h) /\ Count("total") /\ stats["total"] < MaxRequests
          /\ UNCHANGED <<instant, routes, responses>>
      BY <2>1 DEF Arrive, Stands
    <3> HIDE DEF h
    <3>3. /\ underway' \in [Senders -> InHand] /\ \A d \in Senders : Fitting(underway'[d])
          /\ Cardinality(Busy') = Cardinality(Busy) + 1
      BY <3>1, <3>2, CallerGoesOn
    <3>4. /\ stats' \in [StatFields -> Nat] /\ "total" \in StatFields
          /\ \A f \in StatFields : stats'[f] = IF f = "total" THEN stats[f] + 1 ELSE stats[f]
      BY <2>0, <3>2, Counted DEF StatFields
    <3>5. /\ stats'["total"] = stats["total"] + 1 /\ stats'["successful"] = stats["successful"]
          /\ stats'["failed"] = stats["failed"] /\ stats'["cached"] = stats["cached"]
      BY <3>4 DEF StatFields
    <3>6. Cardinality(Busy) \in Nat /\ \A f \in StatFields : stats[f] \in Nat
      BY <2>0, BusyIsFinite DEF GatewayTypes
    <3>7. MaxRequests \in Nat
      BY DEF GatewayAssumption
    <3>8. /\ stats'["total"] = stats'["successful"] + stats'["failed"] + stats'["cached"] + Cardinality(Busy')
          /\ stats'["total"] <= MaxRequests
      BY <3>2, <3>3, <3>5, <3>6, <3>7 DEF RequestsInv, StatFields
    <3>9. KeptUnderItsKey'
      BY <3>2 DEF KeptUnderItsKey, RequestsInv
    <3> QED
      BY <2>0, <3>2, <3>3, <3>4, <3>8, <3>9 DEF RequestsInv, GatewayTypes
  <2>2. ASSUME NEW c \in Senders, Interrupted(c) PROVE RequestsInv'
    <3>1. KeptUnderItsKey' /\ IsBusy(underway[c]) /\ UNCHANGED <<instant, routes>>
      BY <2>2 DEF Interrupted, Fails, Stands, IsBusy, KeptUnderItsKey, RequestsInv
    <3> QED
      BY <2>2, <3>1, FreeHand, EndIsCounted DEF Interrupted, Fails
  <2>3. ASSUME NEW p \in Patterns, RegisterRoute(p) PROVE RequestsInv'
    <3>1. routes' \in Seq(Patterns) /\ UNCHANGED <<instant, responses, stats, underway>>
      BY <2>0, <2>3 DEF RegisterRoute, GatewayTypes
    <3> QED
      BY <3>1 DEF RequestsInv, GatewayTypes, KeptUnderItsKey, Busy
  <2>4. CASE ClearResponses
    <3>1. DOMAIN responses' = {} /\ UNCHANGED <<instant, routes, stats, underway>>
      BY <2>4 DEF ClearResponses
    <3> QED
      BY <3>1 DEF RequestsInv, GatewayTypes, KeptUnderItsKey, Busy
  <2>5. CASE InstantPasses
    <3>1. instant' \in 0 .. MaxInstant /\ UNCHANGED <<routes, responses, stats, underway>>
      BY <2>0, <2>5 DEF InstantPasses, GatewayTypes, GatewayAssumption
    <3> QED
      BY <3>1 DEF RequestsInv, GatewayTypes, KeptUnderItsKey, Busy
  <2>6. CASE UNCHANGED gatewayVars
    BY <2>6 DEF gatewayVars, RequestsInv, GatewayTypes, KeptUnderItsKey, Busy
  <2> QED
    BY <2>1, <2>2, <2>3, <2>4, <2>5, <2>6, CheckCacheKeeps, RouteKeeps, RespondKeeps DEF GatewayNext
<1> QED
  BY <1>1, <1>2, PTL DEF GatewaySpec

\* Every answer of the cache is a good one that a handler gave, within the life
\* time, to this path and query, and the statistics account for every request
\* that has ended.
THEOREM CachedAnswersAlwaysFit ==
    ASSUME GatewayAssumption
    PROVE  GatewaySpec => [](GatewayTypeOK /\ CachedAnswersFit)
<1>1. RequestsInv => GatewayTypeOK
  <2> SUFFICES ASSUME RequestsInv PROVE GatewayTypeOK
    OBVIOUS
  <2>1. ToSet(routes) \subseteq Patterns
    BY DEF RequestsInv, GatewayTypes, ToSet
  <2>2. DOMAIN responses \subseteq Paths \X Queries
    BY DEF RequestsInv, KeptUnderItsKey, Answers
  <2>3. \A f \in StatFields : stats[f] \in 0 .. MaxRequests
    <3>1. \A f \in StatFields : stats[f] \in Nat
      BY DEF RequestsInv, GatewayTypes
    <3>2. Cardinality(Busy) \in Nat /\ MaxRequests \in Nat
      BY BusyIsFinite DEF GatewayAssumption
    <3> QED
      BY <3>1, <3>2 DEF RequestsInv, StatFields
  <2>4. stats \in [StatFields -> 0 .. MaxRequests]
    BY <2>3 DEF RequestsInv, GatewayTypes
  <2> QED
    BY <2>1, <2>2, <2>4 DEF RequestsInv, GatewayTypes, InHand, GatewayTypeOK, StatFields
<1>2. RequestsInv => CachedAnswersFit
  <2> SUFFICES ASSUME RequestsInv PROVE CachedAnswersFit
    OBVIOUS
  <2>1. \A c \in Senders : underway[c].step = "served" =>
           LET h == underway[c] IN
           /\ h.response.ok /\ h.at < h.response.made + ResponseTtl
           /\ <<h.response.path, h.response.query>> = <<h.request.path, h.request.query>>
    BY DEF RequestsInv, Fitting
  <2>2. stats.total = stats.successful + stats.failed + stats.cached + Cardinality(Busy)
    BY DEF RequestsInv
  <2> QED
    BY <2>1, <2>2 DEF CachedAnswersFit, Busy, IsBusy
<1> QED
  BY <1>1, <1>2, RequestsInvariant, PTL

-----------------------------------------------------------------------------
(* The middleware pipeline                                                 *)

\* A set of numbers with a bound has a greatest: the least distance from it.
LEMMA GreatestBelow ==
    ASSUME NEW n \in Nat, NEW I \in SUBSET (0 .. n), I # {}
    PROVE  \E i \in I : \A j \in I : j <= i
<1> DEFINE R == {p \in Nat \X Nat : p[1] < p[2]}
           B == {n - i : i \in I}
<1>1. IsWellFoundedOn(R, Nat)
  BY NatLessThanWellFounded DEF OpToRel
<1>2. B \subseteq Nat /\ B # {}
  <2>1. ASSUME NEW i \in I PROVE n - i \in Nat
    OBVIOUS
  <2> QED
    BY <2>1
<1>3. PICK b \in B : \A x \in B : ~ (<<x, b>> \in R)
  <2> HIDE DEF B, R
  <2> QED
    BY <1>1, <1>2, WFMin
<1>4. PICK i \in I : b = n - i
  OBVIOUS
<1>5. ASSUME NEW j \in I PROVE j <= i
  <2>1. n - j \in B /\ n - j \in Nat /\ n - i \in Nat
    OBVIOUS
  <2>2. ~(n - j < n - i)
    BY <1>3, <1>4, <2>1
  <2> QED
    BY <2>2
<1> QED
  BY <1>5

LEMMA FirstNumbers ==
    ASSUME NEW n \in Nat PROVE IsFiniteSet(1 .. n) /\ Cardinality(1 .. n) = n
<1>1. IsFiniteSet(1 .. n) /\ Cardinality(1 .. n) = IF 1 > n THEN 0 ELSE n - 1 + 1
  BY FS_Interval
<1>2. (IF 1 > n THEN 0 ELSE n - 1 + 1) = n
  OBVIOUS
<1> QED
  BY <1>1, <1>2

\* A list of middleware in their order, each once.
InOrder(list) == \A i, j \in DOMAIN list : i < j => Order[list[i]] <= Order[list[j]]
Lists == {list \in Seq(Layers) : IsInjective(list) /\ InOrder(list)}

\* What a request has yet to run of the phase it is in, and what it has run.
Ahead(p, list) == {list[i] : i \in {j \in DOMAIN list : j >= p.next}}
Run(p) == ToSet(p.ran)
Passes ==
    [side : {"away", "routing", "request", "response"}, at : Nat, next : Nat \ {0},
     ran : Seq(Layers), due : SUBSET Layers, joined : BOOLEAN, left : BOOLEAN]

InPhase(p, list) ==
    /\ ~ p.left => p.due \subseteq Run(p) \cup Ahead(p, list)
    /\ ~ p.joined => /\ p.ran \in Lists
                     /\ \A m \in Ahead(p, list) : m \notin Run(p)
                          /\ \A n \in Run(p) : Order[n] <= Order[m]

LastPhase(p) == Len(IF p.side = "request" THEN RequestPhases ELSE ResponsePhases)
InPlace(p, lists) == p.side \in {"request", "response"} =>
                       p.at \in 1 .. LastPhase(p) /\ InPhase(p, lists[Phase(p)])

PipeInv ==
    /\ DOMAIN line = Phases /\ \A f \in Phases : line[f] \in Lists
    /\ pass \in [Passing -> Passes] /\ changes \in 0 .. MaxChanges
    /\ \A r \in Passing : InPlace(pass[r], line)

\* Of the positions before which an element belongs, none is after one of the
\* others, when the list is in order.
LEMMA InitialSegment ==
    ASSUME NEW n \in Nat, NEW D \in SUBSET (1 .. n), \A i \in D : \A j \in 1 .. i : j \in D
    PROVE  /\ Cardinality(D) \in 0 .. n
           /\ \A i \in 1 .. n : i \in D <=> i <= Cardinality(D)
<1>1. CASE D = {}
  <2>1. Cardinality(D) = 0
    BY <1>1, FS_EmptySet
  <2> QED
    BY <1>1, <2>1
<1>2. CASE D # {}
  <2>1. D \in SUBSET (0 .. n)
    OBVIOUS
  <2>2. PICK x \in D : \A j \in D : j <= x
    BY <1>2, <2>1, GreatestBelow
  <2>3. x \in 1 .. n /\ D = 1 .. x
    <3>1. x \in 1 .. n /\ x \in Nat
      OBVIOUS
    <3>2. ASSUME NEW j \in 1 .. x PROVE j \in D
      BY <3>2
    <3>3. ASSUME NEW j \in D PROVE j \in 1 .. x
      <4>1. j \in 1 .. n /\ j <= x
        BY <2>2
      <4> QED
        BY <3>1, <4>1
    <3> QED
      BY <3>1, <3>2, <3>3
  <2>4. Cardinality(1 .. x) = x
    BY <2>3, FirstNumbers
  <2> QED
    BY <2>3, <2>4
<1> QED
  BY <1>1, <1>2

\* Registering puts the middleware at one place of a list in order, or leaves it.
LEMMA PlacedInOrder ==
    ASSUME PipelineAssumption, NEW list \in Lists, NEW m \in Layers
    PROVE  /\ Placed(m, list) \in Lists
           /\ m \in ToSet(list) => Placed(m, list) = list
           /\ m \notin ToSet(list) =>
                \E k \in 1 .. Len(list) + 1 :
                  /\ Len(Placed(m, list)) = Len(list) + 1
                  /\ \A j \in 1 .. Len(list) + 1 :
                       Placed(m, list)[j] = IF j < k THEN list[j]
                                            ELSE IF j = k THEN m ELSE list[j - 1]
<1>1. /\ list \in Seq(Layers) /\ IsInjective(list) /\ InOrder(list)
      /\ Len(list) \in Nat /\ DOMAIN list = 1 .. Len(list)
  BY DEF Lists
<1>2. Range(list) = ToSet(list)
  BY DEF Range, ToSet
<1>3. CASE m \in ToSet(list)
  BY <1>2, <1>3 DEF Placed
<1>4. CASE m \notin ToSet(list)
  <2> DEFINE D == {i \in DOMAIN list : Order[list[i]] <= Order[m]}  k == Cardinality(D) + 1
             new == InsertAt(list, k, m)
  <2>1. \A i \in 1 .. Len(list) : list[i] \in Layers /\ Order[list[i]] \in Nat
    BY <1>1 DEF PipelineAssumption
  <2>2. Order[m] \in Nat
    BY DEF PipelineAssumption
  <2>3. D \in SUBSET (1 .. Len(list)) /\ \A i \in D : \A j \in 1 .. i : j \in D
    BY <1>1, <2>1, <2>2 DEF InOrder
  <2>4. /\ Cardinality(D) \in 0 .. Len(list)
        /\ \A i \in 1 .. Len(list) : i \in D <=> i <= Cardinality(D)
    <3> HIDE DEF D
    <3> QED
      BY <1>1, <2>3, InitialSegment
  <2>5. /\ k \in 1 .. Len(list) + 1
        /\ \A i \in 1 .. Len(list) : Order[list[i]] <= Order[m] <=> i < k
    <3>1. \A i \in 1 .. Len(list) : i \in D <=> Order[list[i]] <= Order[m]
      BY <1>1
    <3> HIDE DEF D
    <3>2. Cardinality(D) \in Nat /\ k = Cardinality(D) + 1
      BY <1>1, <2>4
    <3> HIDE DEF k
    <3>3. k \in 1 .. Len(list) + 1
      BY <1>1, <2>4, <3>2
    <3>4. \A i \in 1 .. Len(list) : i <= Cardinality(D) <=> i < k
      BY <1>1, <3>2
    <3> QED
      BY <2>4, <3>1, <3>3, <3>4
  <2> HIDE DEF D, k
  <2>0. /\ list \in Seq(Layers) /\ k \in 1 .. Len(list) + 1 /\ m \in Layers
        /\ IsInjective(list) /\ \A j \in 1 .. Len(list) : list[j] # m
    BY <1>1, <1>4, <2>5 DEF ToSet
  <2>6. /\ new \in Seq(Layers) /\ Len(new) = Len(list) + 1
        /\ \A j \in 1 .. Len(list) + 1 :
             new[j] = IF j < k THEN list[j] ELSE IF j = k THEN m ELSE list[j - 1]
    BY <2>0, InsertedAt
  <2>7. IsInjective(new)
    BY <2>0, InsertedInjective
  <2>8. Placed(m, list) = new
    BY <1>2, <1>4 DEF Placed, k, D
  <2> HIDE DEF new
  <2>9. InOrder(new)
    <3> SUFFICES ASSUME NEW i \in 1 .. Len(list) + 1, NEW j \in 1 .. Len(list) + 1, i < j
                 PROVE  Order[new[i]] <= Order[new[j]]
      BY <1>1, <2>6 DEF InOrder
    <3>1. \A a, b \in 1 .. Len(list) : a < b => Order[list[a]] <= Order[list[b]]
      BY <1>1 DEF InOrder
    <3>2. CASE j < k
      <4>1. i \in 1 .. Len(list) /\ j \in 1 .. Len(list) /\ new[i] = list[i] /\ new[j] = list[j]
        BY <1>1, <2>5, <2>6, <3>2
      <4> QED
        BY <3>1, <4>1
    <3>3. CASE j = k
      <4>1. i \in 1 .. Len(list) /\ i < k /\ new[i] = list[i] /\ new[j] = m
        BY <1>1, <2>5, <2>6, <3>3
      <4> QED
        BY <2>5, <4>1
    <3>4. CASE j > k
      <4>1. j - 1 \in 1 .. Len(list) /\ new[j] = list[j - 1]
        <5>1. j \in Nat /\ k \in Nat /\ j > k /\ k >= 1 /\ j <= Len(list) + 1
          BY <1>1, <2>5, <3>4
        <5>2. j - 1 \in 1 .. Len(list) /\ ~ (j < k) /\ j # k
          BY <1>1, <5>1
        <5> QED
          BY <2>6, <5>2
      <4>2. CASE i < k
        <5>2. i \in 1 .. Len(list) /\ new[i] = list[i] /\ i < j - 1
          BY <1>1, <2>5, <2>6, <3>4, <4>2
        <5> QED
          BY <3>1, <4>1, <5>2
      <4>3. CASE i = k
        <5>1. new[i] = m /\ ~ (Order[list[j - 1]] <= Order[m])
          BY <1>1, <2>5, <2>6, <3>4, <4>1, <4>3
        <5> QED
          BY <2>1, <2>2, <4>1, <5>1
      <4>4. CASE i > k
        <5>1. i - 1 \in 1 .. Len(list) /\ new[i] = list[i - 1] /\ i - 1 < j - 1
          BY <1>1, <2>5, <2>6, <4>4
        <5> QED
          BY <3>1, <4>1, <5>1
      <4> QED
        BY <2>5, <4>2, <4>3, <4>4
    <3> QED
      BY <2>5, <3>2, <3>3, <3>4
  <2> QED
    BY <1>4, <2>5, <2>6, <2>7, <2>8, <2>9 DEF Lists
<1> QED
  BY <1>3, <1>4

\* Unregistering takes it from its one place, or leaves the list.
LEMMA ClearedInOrder ==
    ASSUME PipelineAssumption, NEW list \in Lists, NEW m \in Layers
    PROVE  /\ Cleared(m, list) \in Lists
           /\ m \notin ToSet(list) => Cleared(m, list) = list
           /\ m \in ToSet(list) =>
                \E k \in 1 .. Len(list) :
                  /\ Len(Cleared(m, list)) = Len(list) - 1
                  /\ \A j \in 1 .. Len(list) - 1 :
                       Cleared(m, list)[j] = IF j < k THEN list[j] ELSE list[j + 1]
<1>1. /\ list \in Seq(Layers) /\ IsInjective(list) /\ InOrder(list)
      /\ Len(list) \in Nat /\ DOMAIN list = 1 .. Len(list)
  BY DEF Lists
<1>2. Range(list) = ToSet(list)
  BY DEF Range, ToSet
<1>3. CASE m \notin ToSet(list)
  BY <1>2, <1>3 DEF Cleared
<1>4. CASE m \in ToSet(list)
  <2> DEFINE k == CHOOSE i \in DOMAIN list : list[i] = m  new == RemoveAt(list, k)
  <2>1. k \in 1 .. Len(list)
    BY <1>1, <1>4 DEF ToSet
  <2> HIDE DEF k
  <2>2. /\ new \in Seq(Layers) /\ Len(new) = Len(list) - 1
        /\ \A j \in 1 .. Len(list) - 1 : new[j] = IF j < k THEN list[j] ELSE list[j + 1]
    BY <1>1, <2>1, RemovedAt
  <2>3. IsInjective(new)
    BY <1>1, <2>1, RemovedInjective
  <2>4. Cleared(m, list) = new
    BY <1>2, <1>4 DEF Cleared, k
  <2> HIDE DEF new
  <2>5. InOrder(new)
    <3> SUFFICES ASSUME NEW i \in 1 .. Len(list) - 1, NEW j \in 1 .. Len(list) - 1, i < j
                 PROVE  Order[new[i]] <= Order[new[j]]
      BY <1>1, <2>2 DEF InOrder
    <3>1. \A a, b \in 1 .. Len(list) : a < b => Order[list[a]] <= Order[list[b]]
      BY <1>1 DEF InOrder
    <3>2. \E a, b \in 1 .. Len(list) : a < b /\ new[i] = list[a] /\ new[j] = list[b]
      <4>1. CASE j < k
        BY <1>1, <2>1, <2>2, <4>1
      <4>2. CASE ~(j < k) /\ i < k
        <5>1. i \in 1 .. Len(list) /\ j + 1 \in 1 .. Len(list) /\ i < j + 1
              /\ new[i] = list[i] /\ new[j] = list[j + 1]
          BY <1>1, <2>1, <2>2, <4>2
        <5> QED
          BY <5>1
      <4>3. CASE ~(j < k) /\ ~(i < k)
        <5>1. i + 1 \in 1 .. Len(list) /\ j + 1 \in 1 .. Len(list) /\ i + 1 < j + 1
              /\ new[i] = list[i + 1] /\ new[j] = list[j + 1]
          BY <1>1, <2>1, <2>2, <4>3
        <5> QED
          BY <5>1
      <4> QED
        BY <2>1, <4>1, <4>2, <4>3
    <3> QED
      BY <3>1, <3>2
  <2> QED
    BY <1>4, <2>1, <2>2, <2>3, <2>4, <2>5 DEF Lists
<1> QED
  BY <1>3, <1>4

\* The phase a request is in is one of the two pipelines.
LEMMA PhasesAre ==
    ASSUME PipelineAssumption, NEW p \in Passes, p.side \in {"request", "response"},
           p.at \in 1 .. LastPhase(p)
    PROVE  Phase(p) \in Phases
<1>1. RequestPhases \in Seq(Phases) /\ ResponsePhases \in Seq(Phases)
  BY DEF PipelineAssumption
<1> QED
  BY <1>1 DEF Phase, LastPhase

LEMMA FirstPhases ==
    ASSUME PipelineAssumption
    PROVE  Len(RequestPhases) \in Nat /\ Len(RequestPhases) >= 1
           /\ Len(ResponsePhases) \in Nat /\ Len(ResponsePhases) >= 1
<1>1. /\ RequestPhases \in Seq(Phases) /\ RequestPhases # <<>>
      /\ ResponsePhases \in Seq(Phases) /\ ResponsePhases # <<>>
  BY DEF PipelineAssumption
<1> QED
  BY <1>1

\* A step of one request.
LEMMA PassKept ==
    ASSUME PipeInv, NEW r \in Passing, NEW p \in Passes, PassBecomes(r, p), InPlace(p, line)
    PROVE  PipeInv'
<1>1. /\ line' = line /\ changes' = changes /\ pass' = [pass EXCEPT ![r] = p]
      /\ pass \in [Passing -> Passes]
  BY DEF PassBecomes, PipeInv
<1>2. pass' \in [Passing -> Passes] /\ \A q \in Passing : pass'[q] = IF q = r THEN p ELSE pass[q]
  BY <1>1
<1>4. \A q \in Passing : InPlace(pass'[q], line')
  BY <1>1, <1>2 DEF PipeInv
<1> QED
  BY <1>1, <1>2, <1>4 DEF PipeInv

\* A phase begins with all of its list ahead.
LEMMA PhaseBegins ==
    ASSUME PipelineAssumption, PipeInv, NEW r \in Passing, NEW at \in Nat,
           NEW side \in {"request", "response"}, Enters(r, side, at),
           at \in 1 .. Len(IF side = "request" THEN RequestPhases ELSE ResponsePhases)
    PROVE  PipeInv'
<1> DEFINE f == IF side = "request" THEN RequestPhases[at] ELSE ResponsePhases[at]
           p == NewPhase(side, at, Range(line[f]))
<1>1. f \in Phases
  <2>1. RequestPhases \in Seq(Phases) /\ ResponsePhases \in Seq(Phases)
    BY DEF PipelineAssumption
  <2> QED
    BY <2>1
<1>2. line[f] \in Seq(Layers) /\ DOMAIN line[f] = 1 .. Len(line[f]) /\ Len(line[f]) \in Nat
  BY <1>1 DEF PipeInv, Lists
<1>3. Range(line[f]) \subseteq Layers
  BY <1>2 DEF Range
<1>4. /\ p \in Passes /\ p.side = side /\ p.at = at /\ p.next = 1 /\ p.ran = <<>>
      /\ p.due = Range(line[f]) /\ PassBecomes(r, p)
  BY <1>3 DEF NewPhase, Passes, Enters
<1>5. Phase(p) = f
  BY <1>4 DEF Phase
<1> HIDE DEF f, p
<1>6. Ahead(p, line[f]) = Range(line[f])
  BY <1>2, <1>4 DEF Ahead, Range
<1>7. Run(p) = {} /\ p.ran \in Lists
  <2>1. <<>> \in Seq(Layers) /\ DOMAIN <<>> = {}
    OBVIOUS
  <2> QED
    BY <1>4, <2>1 DEF Run, ToSet, Lists, IsInjective, InOrder
<1>8. InPhase(p, line[f])
  BY <1>4, <1>6, <1>7 DEF InPhase
<1>9. InPlace(p, line)
  BY <1>4, <1>5, <1>8 DEF InPlace, LastPhase
<1> QED
  BY <1>4, <1>9, PassKept

\* A request that leaves the pipeline is in no phase.
LEMMA PhasesEnd ==
    ASSUME PipeInv, NEW r \in Passing, NEW side \in {"away", "routing"},
           PassBecomes(r, NewPhase(side, 1, {}))
    PROVE  PipeInv'
<1>1. NewPhase(side, 1, {}) \in Passes /\ NewPhase(side, 1, {}).side = side
  BY DEF NewPhase, Passes
<1>2. InPlace(NewPhase(side, 1, {}), line)
  BY <1>1 DEF InPlace
<1> QED
  BY <1>1, <1>2, PassKept

\* What a request has to do when a phase ends, early or not.
LEMMA NextPhaseKeeps ==
    ASSUME PipelineAssumption, PipeInv, NEW r \in Passing, Inside(r), NextPhase(r)
    PROVE  PipeInv'
<1> DEFINE p == pass[r]
<1>1. p \in Passes /\ p.side \in {"request", "response"} /\ p.at \in 1 .. LastPhase(p)
  BY DEF PipeInv, InPlace, Inside
<1>2. CASE IsLast(p)
  <2>1. PassBecomes(r, NewPhase(IF p.side = "request" THEN "routing" ELSE "away", 1, {}))
    BY <1>2 DEF NextPhase
  <2> QED
    BY <2>1, PhasesEnd
<1>3. CASE ~ IsLast(p)
  <2>1. Enters(r, p.side, p.at + 1)
    BY <1>3 DEF NextPhase
  <2>2. p.at + 1 \in 1 .. LastPhase(p) /\ p.at + 1 \in Nat
    <3>1. LastPhase(p) \in Nat
      BY FirstPhases DEF LastPhase
    <3> QED
      BY <1>1, <1>3, <3>1 DEF IsLast, LastPhase
  <2> HIDE DEF p
  <2> QED
    BY <1>1, <2>1, <2>2, PhaseBegins DEF LastPhase
<1> QED
  BY <1>2, <1>3

\* One middleware runs: it goes from those ahead to those that ran.
LEMMA RunKeeps ==
    ASSUME PipelineAssumption, PipeInv, NEW r \in Passing, RunMiddleware(r)
    PROVE  PipeInv'
<1> DEFINE p == pass[r]  L == line[Phase(p)]  m == L[p.next]
           q == [p EXCEPT !.next = @ + 1, !.ran = Append(@, m)]
<1>1. /\ p \in Passes /\ p.side \in {"request", "response"} /\ p.at \in 1 .. LastPhase(p)
      /\ InPhase(p, L) /\ p.next <= Len(L) /\ PassBecomes(r, q) /\ InPlace(p, line)
  BY DEF PipeInv, InPlace, Inside, RunMiddleware
<1>2. /\ L \in Lists /\ L \in Seq(Layers) /\ DOMAIN L = 1 .. Len(L) /\ Len(L) \in Nat
      /\ IsInjective(L) /\ InOrder(L)
  <2>1. L \in Lists
    BY <1>1, PhasesAre DEF PipeInv
  <2> HIDE DEF L
  <2> QED
    BY <2>1 DEF Lists
<1>3. /\ p.next \in 1 .. Len(L) /\ m \in Layers /\ p.ran \in Seq(Layers)
  <2>1. p.next \in Nat \ {0} /\ p.ran \in Seq(Layers)
    BY <1>1 DEF Passes
  <2>2. p.next \in 1 .. Len(L)
    BY <1>1, <1>2, <2>1
  <2> QED
    BY <1>2, <2>1, <2>2
<1>4. /\ q \in Passes /\ q.side = p.side /\ q.at = p.at /\ q.next = p.next + 1
      /\ q.ran = Append(p.ran, m) /\ q.due = p.due /\ q.left = p.left /\ q.joined = p.joined
  <2> HIDE DEF m, L
  <2>1. Append(p.ran, m) \in Seq(Layers) /\ p.next + 1 \in Nat \ {0}
    BY <1>1, <1>3 DEF Passes
  <2> QED
    BY <1>1, <2>1 DEF Passes
<1> HIDE DEF q, m, L, p
<1>5. Phase(q) = Phase(p) /\ LastPhase(q) = LastPhase(p)
  BY <1>4 DEF Phase, LastPhase
<1>6. Run(q) = Run(p) \cup {m}
  <2>1. /\ DOMAIN p.ran = 1 .. Len(p.ran) /\ Len(p.ran) \in Nat
        /\ DOMAIN q.ran = 1 .. Len(p.ran) + 1
        /\ \A i \in 1 .. Len(p.ran) + 1 : q.ran[i] = IF i = Len(p.ran) + 1 THEN m ELSE p.ran[i]
    BY <1>3, <1>4
  <2>2. \A i : i \in 1 .. Len(p.ran) + 1 <=> i \in 1 .. Len(p.ran) \/ i = Len(p.ran) + 1
    BY <2>1
  <2>3. \A i \in 1 .. Len(p.ran) : i # Len(p.ran) + 1
    BY <2>1
  <2> HIDE DEF Run
  <2>4. Run(q) = {q.ran[i] : i \in DOMAIN q.ran} /\ Run(p) = {p.ran[i] : i \in DOMAIN p.ran}
    BY DEF Run, ToSet
  <2> QED
    BY <2>1, <2>2, <2>3, <2>4
<1>7. Ahead(p, L) = Ahead(q, L) \cup {m} /\ m \notin Ahead(q, L) /\ \A n \in Ahead(q, L) : Order[m] <= Order[n]
  <2>1. \A i \in DOMAIN L : i >= p.next <=> i >= q.next \/ i = p.next
    BY <1>2, <1>3, <1>4
  <2>2. \A i \in DOMAIN L : i >= q.next => i > p.next
    BY <1>2, <1>3, <1>4
  <2>3. m = L[p.next] /\ p.next \in DOMAIN L
    BY <1>2, <1>3 DEF m
  <2>4. Ahead(p, L) = Ahead(q, L) \cup {m}
    BY <1>4, <1>3, <2>1, <2>3 DEF Ahead
  <2>5. m \notin Ahead(q, L)
    <3>1. \A i \in DOMAIN L : L[i] = m => i = p.next
      BY <1>2, <2>3 DEF IsInjective
    <3>2. ~ (p.next >= q.next)
      BY <1>3, <1>4
    <3> QED
      BY <3>1, <3>2 DEF Ahead
  <2>6. \A n \in Ahead(q, L) : Order[m] <= Order[n]
    BY <1>2, <2>2, <2>3 DEF Ahead, InOrder
  <2> QED
    BY <2>4, <2>5, <2>6
<1>8. ~ q.left => q.due \subseteq Run(q) \cup Ahead(q, L)
  BY <1>1, <1>4, <1>6, <1>7 DEF InPhase
<1>9. ASSUME ~ q.joined
      PROVE  /\ q.ran \in Lists
             /\ \A n \in Ahead(q, L) : n \notin Run(q) /\ \A o \in Run(q) : Order[o] <= Order[n]
  <2>1. /\ p.ran \in Lists /\ m \notin Run(p) /\ \A n \in Run(p) : Order[n] <= Order[m]
        /\ \A n \in Ahead(q, L) : n \notin Run(p) /\ \A o \in Run(p) : Order[o] <= Order[n]
    BY <1>1, <1>4, <1>7, <1>9 DEF InPhase
  <2>2. q.ran \in Lists
    <3>1. /\ DOMAIN p.ran = 1 .. Len(p.ran) /\ Len(p.ran) \in Nat
          /\ DOMAIN q.ran = 1 .. Len(p.ran) + 1 /\ q.ran \in Seq(Layers)
          /\ \A i \in 1 .. Len(p.ran) + 1 : q.ran[i] = IF i = Len(p.ran) + 1 THEN m ELSE p.ran[i]
      BY <1>3, <1>4
    <3>2. \A i \in 1 .. Len(p.ran) : p.ran[i] # m /\ Order[p.ran[i]] <= Order[m]
      BY <2>1, <3>1 DEF Run, ToSet
    <3>3. IsInjective(q.ran)
      <4>1. \A i, j \in 1 .. Len(p.ran) : p.ran[i] = p.ran[j] => i = j
        BY <2>1, <3>1 DEF Lists, IsInjective
      <4>2. \A i \in 1 .. Len(p.ran) + 1 : i = Len(p.ran) + 1 \/ i \in 1 .. Len(p.ran)
        BY <3>1
      <4>3. \A i, j \in 1 .. Len(p.ran) + 1 : q.ran[i] = q.ran[j] => i = j
        <5> HIDE DEF Lists
        <5> SUFFICES ASSUME NEW i \in 1 .. Len(p.ran) + 1, NEW j \in 1 .. Len(p.ran) + 1,
                            q.ran[i] = q.ran[j]
                     PROVE  i = j
          OBVIOUS
        <5> QED
          BY <3>1, <3>2, <4>1, <4>2
      <4> QED
        BY <3>1, <4>3 DEF IsInjective
    <3>4. InOrder(q.ran)
      <4>1. \A i, j \in 1 .. Len(p.ran) : i < j => Order[p.ran[i]] <= Order[p.ran[j]]
        BY <2>1, <3>1 DEF Lists, InOrder
      <4>2. \A i, j \in 1 .. Len(p.ran) + 1 : i < j => Order[q.ran[i]] <= Order[q.ran[j]]
        <5> SUFFICES ASSUME NEW i \in 1 .. Len(p.ran) + 1, NEW j \in 1 .. Len(p.ran) + 1, i < j
                     PROVE  Order[q.ran[i]] <= Order[q.ran[j]]
          OBVIOUS
        <5>1. i \in 1 .. Len(p.ran) /\ q.ran[i] = p.ran[i]
          BY <3>1
        <5>2. CASE j = Len(p.ran) + 1
          BY <3>1, <3>2, <5>1, <5>2
        <5>3. CASE j # Len(p.ran) + 1
          <6>1. j \in 1 .. Len(p.ran) /\ q.ran[j] = p.ran[j]
            BY <3>1, <5>3
          <6> QED
            BY <4>1, <5>1, <6>1
        <5> QED
          BY <5>2, <5>3
      <4> QED
        BY <3>1, <4>2 DEF InOrder
    <3> QED
      BY <3>1, <3>3, <3>4 DEF Lists
  <2> QED
    BY <1>6, <1>7, <2>1, <2>2
<1>10. InPhase(q, L)
  BY <1>8, <1>9 DEF InPhase
<1>11. InPlace(q, line)
  BY <1>1, <1>4, <1>5, <1>10 DEF InPlace, L
<1> QED
  BY <1>1, <1>4, <1>11, PassKept

\* A middleware that comes moves others only back, one that goes only forward.
LEMMA PlacedBehind ==
    ASSUME PipelineAssumption, NEW list \in Lists, NEW m \in Layers, NEW p \in Passes
    PROVE  Ahead(p, list) \subseteq Ahead(p, Placed(m, list))
<1> DEFINE new == Placed(m, list)
<1>1. list \in Seq(Layers) /\ Len(list) \in Nat /\ DOMAIN list = 1 .. Len(list)
  BY DEF Lists
<1>2. CASE new = list
  BY <1>2
<1>3. CASE new # list
  <2>1. PICK k \in 1 .. Len(list) + 1 :
          /\ Len(new) = Len(list) + 1
          /\ \A j \in 1 .. Len(list) + 1 :
               new[j] = IF j < k THEN list[j] ELSE IF j = k THEN m ELSE list[j - 1]
    BY <1>3, PlacedInOrder
  <2>2. new \in Seq(Layers)
    BY PlacedInOrder DEF Lists
  <2>3. DOMAIN new = 1 .. Len(list) + 1
    BY <2>1, <2>2
  <2> HIDE DEF new
  <2>4. ASSUME NEW i \in 1 .. Len(list), i >= p.next
        PROVE  \E j \in 1 .. Len(list) + 1 : j >= p.next /\ new[j] = list[i]
    <3>1. p.next \in Nat
      BY DEF Passes
    <3>2. CASE i < k
      BY <1>1, <2>1, <2>4, <3>2
    <3>3. CASE ~ (i < k)
      <4>1. i + 1 \in 1 .. Len(list) + 1 /\ i + 1 >= p.next /\ new[i + 1] = list[i]
        BY <1>1, <2>1, <2>4, <3>1, <3>3
      <4> QED
        BY <4>1
    <3> QED
      BY <3>2, <3>3
  <2>5. Ahead(p, list) \subseteq Ahead(p, new)
    BY <1>1, <2>3, <2>4 DEF Ahead
  <2> QED
    BY <2>5 DEF new
<1> QED
  BY <1>2, <1>3

LEMMA ClearedAhead ==
    ASSUME PipelineAssumption, NEW list \in Lists, NEW m \in Layers, NEW p \in Passes
    PROVE  Ahead(p, Cleared(m, list)) \subseteq Ahead(p, list)
<1> DEFINE new == Cleared(m, list)
<1>1. list \in Seq(Layers) /\ Len(list) \in Nat /\ DOMAIN list = 1 .. Len(list)
  BY DEF Lists
<1>2. CASE new = list
  BY <1>2
<1>3. CASE new # list
  <2>1. PICK k \in 1 .. Len(list) :
          /\ Len(new) = Len(list) - 1
          /\ \A j \in 1 .. Len(list) - 1 : new[j] = IF j < k THEN list[j] ELSE list[j + 1]
    BY <1>3, ClearedInOrder
  <2>2. new \in Seq(Layers)
    BY ClearedInOrder DEF Lists
  <2>3. DOMAIN new = 1 .. Len(list) - 1
    BY <2>1, <2>2
  <2> HIDE DEF new
  <2>4. ASSUME NEW i \in 1 .. Len(list) - 1, i >= p.next
        PROVE  \E j \in 1 .. Len(list) : j >= p.next /\ new[i] = list[j]
    <3>1. p.next \in Nat
      BY DEF Passes
    <3>2. CASE i < k
      <4>1. i \in 1 .. Len(list) /\ new[i] = list[i]
        BY <1>1, <2>1, <3>2
      <4> QED
        BY <2>4, <4>1
    <3>3. CASE ~ (i < k)
      <4>1. i + 1 \in 1 .. Len(list) /\ i + 1 >= p.next /\ new[i] = list[i + 1]
        BY <1>1, <2>1, <2>4, <3>1, <3>3
      <4> QED
        BY <4>1
    <3> QED
      BY <3>2, <3>3
  <2>5. Ahead(p, new) \subseteq Ahead(p, list)
    BY <1>1, <2>3, <2>4 DEF Ahead
  <2> QED
    BY <2>5 DEF new
<1> QED
  BY <1>2, <1>3

LEMMA ChangedTypes ==
    ASSUME PipelineAssumption, PipeInv, NEW field \in {"joined", "left"}, Changed(field)
    PROVE  pass' \in [Passing -> Passes] /\ changes' \in 0 .. MaxChanges
<1>1. changes' \in 0 .. MaxChanges
  BY DEF Changed, PipeInv, PipelineAssumption
<1>2. \A p \in Passes : [p EXCEPT ![field] = TRUE] \in Passes
  BY DEF Passes
<1> QED
  BY <1>1, <1>2 DEF Changed, PipeInv

\* What a change of the lists does to a request: it marks those whose list changed.
LEMMA ChangedPasses ==
    ASSUME PipelineAssumption, PipeInv, NEW field \in {"joined", "left"}, Changed(field), NEW r \in Passing
    PROVE  /\ pass'[r].side = pass[r].side /\ pass'[r].at = pass[r].at /\ pass'[r].next = pass[r].next
           /\ pass'[r].ran = pass[r].ran /\ pass'[r].due = pass[r].due
           /\ Phase(pass'[r]) = Phase(pass[r]) /\ LastPhase(pass'[r]) = LastPhase(pass[r])
           /\ pass'[r].joined = (pass[r].joined \/ (field = "joined" /\ Inside(r)
                                   /\ line'[Phase(pass[r])] # line[Phase(pass[r])]))
           /\ pass'[r].left = (pass[r].left \/ (field = "left" /\ Inside(r)
                                   /\ line'[Phase(pass[r])] # line[Phase(pass[r])]))
<1> DEFINE moved(q) == Inside(q) /\ line'[Phase(pass[q])] # line[Phase(pass[q])]
           p(q) == IF moved(q) THEN [pass[q] EXCEPT ![field] = TRUE] ELSE pass[q]
<1>1. pass' = [q \in Passing |-> p(q)]
  BY DEF Changed
<1> HIDE DEF moved
<1>2. ASSUME NEW q \in Passing
      PROVE  /\ p(q).side = pass[q].side /\ p(q).at = pass[q].at /\ p(q).next = pass[q].next
             /\ p(q).ran = pass[q].ran /\ p(q).due = pass[q].due
             /\ p(q).joined = (pass[q].joined \/ (field = "joined" /\ moved(q)))
             /\ p(q).left = (pass[q].left \/ (field = "left" /\ moved(q)))
  <2>1. pass[q] \in Passes
    BY DEF PipeInv
  <2>2. CASE moved(q) /\ field = "joined"
    <3>1. p(q) = [pass[q] EXCEPT !.joined = TRUE]
      BY <2>2
    <3> QED
      BY <2>1, <2>2, <3>1 DEF Passes
  <2>3. CASE moved(q) /\ field = "left"
    <3>1. p(q) = [pass[q] EXCEPT !.left = TRUE]
      BY <2>3
    <3> QED
      BY <2>1, <2>3, <3>1 DEF Passes
  <2>4. CASE ~ moved(q)
    BY <2>1, <2>4 DEF Passes
  <2> QED
    BY <2>2, <2>3, <2>4
<1> HIDE DEF p
<1>3. pass'[r] = p(r)
  BY <1>1
<1>4. /\ p(r).side = pass[r].side /\ p(r).at = pass[r].at
      => Phase(p(r)) = Phase(pass[r]) /\ LastPhase(p(r)) = LastPhase(pass[r])
  BY DEF Phase, LastPhase
<1> QED
  BY <1>2, <1>3, <1>4 DEF moved

LEMMA RegisterKeeps ==
    ASSUME PipelineAssumption, PipeInv, NEW m \in Layers, RegisterMiddleware(m)
    PROVE  PipeInv'
<1>1. /\ line' = [f \in Phases |-> IF f \in PhasesOf[m] THEN Placed(m, line[f]) ELSE line[f]]
      /\ Changed("joined")
  BY DEF RegisterMiddleware
<1>2. DOMAIN line' = Phases /\ \A f \in Phases : line'[f] \in Lists
  BY <1>1, PlacedInOrder DEF PipeInv
<1>3. ASSUME NEW r \in Passing, pass[r].side \in {"request", "response"}
      PROVE  pass[r].at \in 1 .. LastPhase(pass[r]) /\ InPhase(pass'[r], line'[Phase(pass[r])])
  <2> DEFINE f == Phase(pass[r])
  <2>1. /\ pass[r] \in Passes /\ pass[r].at \in 1 .. LastPhase(pass[r])
        /\ InPhase(pass[r], line[f]) /\ Inside(r)
    BY <1>3 DEF PipeInv, InPlace, Inside
  <2>2. f \in Phases /\ line[f] \in Lists
    BY <1>3, <2>1, PhasesAre DEF PipeInv
  <2>3. Ahead(pass[r], line[f]) \subseteq Ahead(pass[r], line'[f])
    BY <1>1, <2>1, <2>2, PlacedBehind
  <2>7. /\ pass'[r].next = pass[r].next /\ pass'[r].ran = pass[r].ran /\ pass'[r].due = pass[r].due
        /\ pass'[r].joined = (pass[r].joined \/ ("joined" = "joined" /\ Inside(r)
                                /\ line'[Phase(pass[r])] # line[Phase(pass[r])]))
        /\ pass'[r].left = (pass[r].left \/ ("joined" = "left" /\ Inside(r)
                                /\ line'[Phase(pass[r])] # line[Phase(pass[r])]))
    BY <1>1, ChangedPasses
  <2>4. /\ pass'[r].next = pass[r].next /\ pass'[r].ran = pass[r].ran /\ pass'[r].due = pass[r].due
        /\ pass'[r].left = pass[r].left
        /\ pass'[r].joined = (pass[r].joined \/ line'[f] # line[f])
    BY <2>1, <2>7 DEF Passes
  <2> HIDE DEF f
  <2>5. /\ Run(pass'[r]) = Run(pass[r])
        /\ Ahead(pass'[r], line'[f]) = Ahead(pass[r], line'[f])
    BY <2>4 DEF Run, Ahead
  <2>6. InPhase(pass'[r], line'[f])
    <3>1. ~ pass'[r].left => pass'[r].due \subseteq Run(pass'[r]) \cup Ahead(pass'[r], line'[f])
      BY <2>1, <2>3, <2>4, <2>5 DEF InPhase
    <3>2. CASE line'[f] = line[f]
      BY <2>1, <2>4, <2>5, <3>1, <3>2 DEF InPhase
    <3>3. CASE line'[f] # line[f]
      BY <2>4, <3>1, <3>3 DEF InPhase
    <3> QED
      BY <3>2, <3>3
  <2> QED
    BY <2>1, <2>6 DEF f
<1>4. \A r \in Passing : InPlace(pass'[r], line')
  <2>1. \A r \in Passing :
          /\ pass'[r].side = pass[r].side /\ pass'[r].at = pass[r].at
          /\ Phase(pass'[r]) = Phase(pass[r]) /\ LastPhase(pass'[r]) = LastPhase(pass[r])
    BY <1>1, ChangedPasses
  <2> QED
    BY <1>3, <2>1 DEF InPlace
<1>5. pass' \in [Passing -> Passes] /\ changes' \in 0 .. MaxChanges
  BY <1>1, ChangedTypes
<1> QED
  BY <1>2, <1>4, <1>5 DEF PipeInv

LEMMA UnregisterKeeps ==
    ASSUME PipelineAssumption, PipeInv, NEW m \in Layers, UnregisterMiddleware(m)
    PROVE  PipeInv'
<1>1. /\ line' = [f \in Phases |-> Cleared(m, line[f])]
      /\ Changed("left")
  BY DEF UnregisterMiddleware
<1>2. DOMAIN line' = Phases /\ \A f \in Phases : line'[f] \in Lists
  BY <1>1, ClearedInOrder DEF PipeInv
<1>3. ASSUME NEW r \in Passing, pass[r].side \in {"request", "response"}
      PROVE  pass[r].at \in 1 .. LastPhase(pass[r]) /\ InPhase(pass'[r], line'[Phase(pass[r])])
  <2> DEFINE f == Phase(pass[r])
  <2>1. /\ pass[r] \in Passes /\ pass[r].at \in 1 .. LastPhase(pass[r])
        /\ InPhase(pass[r], line[f]) /\ Inside(r)
    BY <1>3 DEF PipeInv, InPlace, Inside
  <2>2. f \in Phases /\ line[f] \in Lists
    BY <1>3, <2>1, PhasesAre DEF PipeInv
  <2>3. Ahead(pass[r], line'[f]) \subseteq Ahead(pass[r], line[f])
    BY <1>1, <2>1, <2>2, ClearedAhead
  <2>7. /\ pass'[r].next = pass[r].next /\ pass'[r].ran = pass[r].ran /\ pass'[r].due = pass[r].due
        /\ pass'[r].joined = (pass[r].joined \/ ("left" = "joined" /\ Inside(r)
                                /\ line'[Phase(pass[r])] # line[Phase(pass[r])]))
        /\ pass'[r].left = (pass[r].left \/ ("left" = "left" /\ Inside(r)
                                /\ line'[Phase(pass[r])] # line[Phase(pass[r])]))
    BY <1>1, ChangedPasses
  <2>4. /\ pass'[r].next = pass[r].next /\ pass'[r].ran = pass[r].ran /\ pass'[r].due = pass[r].due
        /\ pass'[r].joined = pass[r].joined
        /\ pass'[r].left = (pass[r].left \/ line'[f] # line[f])
    BY <2>1, <2>7 DEF Passes
  <2> HIDE DEF f
  <2>5. /\ Run(pass'[r]) = Run(pass[r])
        /\ Ahead(pass'[r], line'[f]) = Ahead(pass[r], line'[f])
    BY <2>4 DEF Run, Ahead
  <2>6. InPhase(pass'[r], line'[f])
    <3>1. ~ pass'[r].left => pass'[r].due \subseteq Run(pass'[r]) \cup Ahead(pass'[r], line'[f])
      BY <2>1, <2>4, <2>5 DEF InPhase
    <3>2. ~ pass'[r].joined =>
            /\ pass'[r].ran \in Lists
            /\ \A n \in Ahead(pass'[r], line'[f]) :
                 n \notin Run(pass'[r]) /\ \A o \in Run(pass'[r]) : Order[o] <= Order[n]
      BY <2>1, <2>3, <2>4, <2>5 DEF InPhase
    <3> QED
      BY <3>1, <3>2 DEF InPhase
  <2> QED
    BY <2>1, <2>6 DEF f
<1>4. \A r \in Passing : InPlace(pass'[r], line')
  <2>1. \A r \in Passing :
          /\ pass'[r].side = pass[r].side /\ pass'[r].at = pass[r].at
          /\ Phase(pass'[r]) = Phase(pass[r]) /\ LastPhase(pass'[r]) = LastPhase(pass[r])
    BY <1>1, ChangedPasses
  <2> QED
    BY <1>3, <2>1 DEF InPlace
<1>5. pass' \in [Passing -> Passes] /\ changes' \in 0 .. MaxChanges
  BY <1>1, ChangedTypes
<1> QED
  BY <1>2, <1>4, <1>5 DEF PipeInv

LEMMA OthersKeep ==
    ASSUME PipelineAssumption, PipeInv, NEW r \in Passing,
           ProcessRequest(r) \/ ProcessResponse(r) \/ EndPhase(r) \/ BreakOff(r)
    PROVE  PipeInv'
<1>1. CASE ProcessRequest(r)
  BY <1>1, FirstPhases, PhaseBegins DEF ProcessRequest
<1>2. CASE ProcessResponse(r)
  BY <1>2, FirstPhases, PhaseBegins DEF ProcessResponse
<1>3. CASE EndPhase(r)
  BY <1>3, NextPhaseKeeps DEF EndPhase, Complete
<1>4. CASE BreakOff(r)
  <2>1. CASE PassBecomes(r, Away)
    BY <2>1, PhasesEnd DEF Away
  <2>2. CASE PassBecomes(r, NewPhase("routing", 1, {}))
    BY <2>2, PhasesEnd
  <2>3. CASE NextPhase(r)
    BY <1>4, <2>3, NextPhaseKeeps DEF BreakOff
  <2> QED
    BY <1>4, <2>1, <2>2, <2>3 DEF BreakOff
<1> QED
  BY <1>1, <1>2, <1>3, <1>4

LEMMA PipelineStarts ==
    ASSUME PipelineAssumption, PipelineInit PROVE PipeInv
<1>1. <<>> \in Lists
  <2>1. <<>> \in Seq(Layers) /\ DOMAIN <<>> = {}
    OBVIOUS
  <2> QED
    BY <2>1 DEF Lists, IsInjective, InOrder
<1>2. Away \in Passes /\ Away.side = "away"
  BY DEF Away, NewPhase, Passes
<1>3. 0 \in 0 .. MaxChanges
  BY DEF PipelineAssumption
<1> QED
  BY <1>1, <1>2, <1>3 DEF PipelineInit, PipeInv, InPlace

\* Whatever is registered and unregistered while requests wait in a phase, one
\* that ends without a removal has run all it began with, and one without an
\* arrival ran them in order, none twice.
THEOREM PhasesRunAll ==
    ASSUME PipelineAssumption PROVE PipelineSpec => [](PipelineTypeOK /\ PhaseRunsAll)
<1>1. PipelineInit => PipeInv
  BY PipelineStarts
<1>2. PipeInv /\ [PipelineNext]_pipelineVars => PipeInv'
  <2> SUFFICES ASSUME PipeInv, [PipelineNext]_pipelineVars PROVE PipeInv'
    OBVIOUS
  <2>1. CASE UNCHANGED pipelineVars
    <3>1. line' = line /\ pass' = pass /\ changes' = changes
      BY <2>1 DEF pipelineVars
    <3> QED
      BY <3>1 DEF PipeInv
  <2>2. ASSUME NEW m \in Layers, RegisterMiddleware(m) \/ UnregisterMiddleware(m) PROVE PipeInv'
    BY <2>2, RegisterKeeps, UnregisterKeeps
  <2>3. ASSUME NEW r \in Passing,
               ProcessRequest(r) \/ ProcessResponse(r) \/ RunMiddleware(r) \/ EndPhase(r) \/ BreakOff(r)
        PROVE  PipeInv'
    BY <2>3, RunKeeps, OthersKeep
  <2> QED
    BY <2>1, <2>2, <2>3 DEF PipelineNext
<1>3. PipeInv => PhaseRunsAll
  <2> SUFFICES ASSUME PipeInv, NEW r \in Passing, Inside(r)
               PROVE  LET p == pass[r] IN
                 /\ Complete(r) /\ ~p.left => p.due \subseteq Range(p.ran)
                 /\ ~p.joined =>
                      /\ IsInjective(p.ran)
                      /\ \A i, j \in DOMAIN p.ran : i < j => Order[p.ran[i]] <= Order[p.ran[j]]
    BY DEF PhaseRunsAll
  <2> DEFINE p == pass[r]  L == line[Phase(p)]
  <2>1. /\ p \in Passes /\ p.side \in {"request", "response"} /\ p.at \in 1 .. LastPhase(p)
        /\ InPhase(p, L)
    BY DEF PipeInv, InPlace, Inside
  <2>2. L \in Lists
    BY <2>1, PhasesAre DEF PipeInv
  <2>3. Range(p.ran) = Run(p)
    BY DEF Run, Range, ToSet
  <2>4. Complete(r) => Ahead(p, L) = {}
    <3>1. p.next \in Nat /\ DOMAIN L = 1 .. Len(L) /\ Len(L) \in Nat
      BY <2>1, <2>2 DEF Passes, Lists
    <3>2. Complete(r) => p.next > Len(L)
      BY DEF Complete
    <3> HIDE DEF p, L
    <3> QED
      BY <3>1, <3>2 DEF Ahead
  <2> HIDE DEF L
  <2>5. Complete(r) /\ ~p.left => p.due \subseteq Range(p.ran)
    BY <2>1, <2>3, <2>4 DEF InPhase
  <2>6. ~p.joined => /\ IsInjective(p.ran)
                     /\ \A i, j \in DOMAIN p.ran : i < j => Order[p.ran[i]] <= Order[p.ran[j]]
    BY <2>1 DEF InPhase, Lists, InOrder
  <2> QED
    BY <2>5, <2>6
<1>4. PipeInv => PipelineTypeOK
  BY DEF PipeInv, Lists, PipelineTypeOK
<1> QED
  BY <1>1, <1>2, <1>3, <1>4, PTL DEF PipelineSpec

=============================================================================

---------------------------- MODULE Buses_proofs ----------------------------
(***************************************************************************)
(* An answer of the cache of a processor is not too old, a middleware of   *)
(* the command and query buses that was opened is closed, and a request is *)
(* migrated to another version by the shortest way, whatever fails and     *)
(* however many threads, executions and versions there are.                *)
(*                                                                         *)
(* The first needs that an entry bears the time its answer was first       *)
(* stored; the second, that what an execution has still to close and what  *)
(* it has closed is all it has opened, while the list of the middleware    *)
(* only grows.                                                             *)
(*                                                                         *)
(* The third is the correctness of a search breadth first.  While nothing  *)
(* is found, all that is nearer than the path in hand leads to is visited, *)
(* the queue holds the paths of that length before those longer by one,    *)
(* and only what the path in hand and the queue end in may still lead to   *)
(* what is not visited; so that the first path to the target is a shortest *)
(* one, and a search that is over without it has visited all there is.  It *)
(* is over in time, since each look is at a version not yet taken or at a  *)
(* migration not yet looked at.                                            *)
(***************************************************************************)
EXTENDS ApiProcessor, MessageBus, ApiVersions, NaturalsInduction, WellFoundedInduction,
        FiniteSetTheorems, SequenceTheorems, TLAPS

-----------------------------------------------------------------------------
(* The processor                                                           *)

Contexts ==
    [at : {"off", "read", "enter", "entered", "asking", "finish"}, success : BOOLEAN,
     fromCache : BOOLEAN, first : 0 .. MaxTime, late : BOOLEAN,
     attempt : 0 .. MaxRetries, alone : BOOLEAN, cutOff : BOOLEAN]

\* No entry stems from another: its stamp is when it was first stored.
StampsAgree == entry.first = entry.stamp
\* A processing that nobody overlapped has the client for itself.
ClientHeld ==
    \A t \in Threads : work[t].alone =>
        /\ ~work[t].cutOff
        /\ work[t].at = "entered" => clientOpen
        /\ work[t].at # "off" => \A u \in Threads \ {t} : work[u].at = "off"

ProcessorInv == ApiProcessorTypeOK /\ StampsAgree /\ FallbackIsFresh /\ ClientHeld

LEMMA ThreadGoesOn ==
    ASSUME ApiProcessorAssumption, ProcessorInv, NEW t \in Threads, work[t].at # "off",
           NEW w \in Contexts, WorkBecomes(t, w), clientOpen' \in BOOLEAN,
           UNCHANGED <<now, sweeping>>,
           entry' = entry \/ entry' = [stamp |-> now, first |-> now],
           ~w.late, w.alone = work[t].alone,
           w.alone => ~w.cutOff /\ (w.at = "entered" => clientOpen')
    PROVE  ProcessorInv'
<1>1. ApiProcessorTypeOK'
  <2>1. work' \in [Threads -> Contexts]
    BY DEF ProcessorInv, ApiProcessorTypeOK, Contexts, WorkBecomes
  <2>2. entry' \in [stamp : 0 .. MaxTime + 1, first : 0 .. MaxTime + 1]
    <3>1. now \in 0 .. MaxTime + 1
      BY DEF ProcessorInv, ApiProcessorTypeOK, ApiProcessorAssumption
    <3> QED
      BY <3>1 DEF ProcessorInv, ApiProcessorTypeOK
  <2> QED
    BY <2>1, <2>2 DEF ProcessorInv, ApiProcessorTypeOK, Contexts
<1>2. \A u \in Threads : work'[u] = IF u = t THEN w ELSE work[u]
  BY DEF ProcessorInv, ApiProcessorTypeOK, WorkBecomes
<1>3. StampsAgree'
  BY DEF ProcessorInv, StampsAgree
<1>4. FallbackIsFresh'
  BY <1>2 DEF ProcessorInv, FallbackIsFresh
<1>5. ClientHeld'
  BY <1>2 DEF ProcessorInv, ClientHeld
<1> QED
  BY <1>1, <1>3, <1>4, <1>5 DEF ProcessorInv

LEMMA ContextTyped ==
    ASSUME ProcessorInv, NEW t \in Threads
    PROVE  /\ work[t] \in Contexts /\ ~work[t].late
           /\ work[t].alone => ~work[t].cutOff
  BY DEF ProcessorInv, ApiProcessorTypeOK, Contexts, FallbackIsFresh, ClientHeld

LEMMA EndedTyped ==
    ASSUME ApiProcessorAssumption, NEW w \in Contexts
    PROVE  /\ Ended(w) \in Contexts /\ ~Ended(w).late /\ Ended(w).at = "off"
           /\ Ended(w).alone = w.alone /\ Ended(w).cutOff = w.cutOff
<1>1. NoWork \in Contexts
  BY DEF ApiProcessorAssumption, NoWork, Contexts
<1>2. Ended(w) \in Contexts
  BY <1>1 DEF Ended, Contexts
<1>3. ~Ended(w).late
  BY DEF Ended, NoWork
<1>4. Ended(w).at = "off"
  BY DEF Ended, NoWork
<1>5. Ended(w).alone = w.alone
  BY DEF Ended, NoWork
<1>6. Ended(w).cutOff = w.cutOff
  BY DEF Ended, NoWork
<1> QED
  BY <1>2, <1>3, <1>4, <1>5, <1>6

LEMMA FailsOnceTyped ==
    ASSUME ApiProcessorAssumption, NEW w \in Contexts, NEW again \in BOOLEAN, ~w.late
    PROVE  /\ FailsOnce(w, again) \in Contexts /\ ~FailsOnce(w, again).late 
           /\ FailsOnce(w, again).at # "entered"
           /\ FailsOnce(w, again).alone = w.alone /\ FailsOnce(w, again).cutOff = w.cutOff
<1>1. CASE again /\ w.attempt < MaxRetries
  <2> DEFINE v == [w EXCEPT !.at = "enter", !.attempt = @ + 1]
  <2>1. FailsOnce(w, again) = v
    BY <1>1 DEF FailsOnce
  <2>2. w.attempt + 1 \in 0 .. MaxRetries
    BY <1>1 DEF ApiProcessorAssumption, Contexts
  <2>3. v \in Contexts
    BY <2>2 DEF Contexts
  <2>4. ~v.late /\ v.at = "enter"
    BY DEF Contexts
  <2>5. v.alone = w.alone /\ v.cutOff = w.cutOff
    OBVIOUS
  <2> QED
    BY <2>1, <2>3, <2>4, <2>5
<1>2. CASE ~(again /\ w.attempt < MaxRetries) /\ w.success
  BY <1>2 DEF FailsOnce, Contexts
<1>3. CASE ~(again /\ w.attempt < MaxRetries) /\ ~w.success
  BY <1>3, EndedTyped DEF FailsOnce
<1> QED
  BY <1>1, <1>2, <1>3

\* The invariant holds in every state, for any threads and life time.
THEOREM ProcessorInvariant ==
    ASSUME ApiProcessorAssumption
    PROVE  ApiProcessorSpec => []ProcessorInv
<1>1. ApiProcessorInit => ProcessorInv
  <2> SUFFICES ASSUME ApiProcessorInit PROVE ProcessorInv
    OBVIOUS
  <2>1. NoWork \in Contexts
    BY DEF ApiProcessorAssumption, NoWork, Contexts
  <2>2. entry \in [stamp : 0 .. MaxTime + 1, first : 0 .. MaxTime + 1] /\ now \in 0 .. MaxTime
    BY DEF ApiProcessorInit, ApiProcessorAssumption, NoEntry
  <2>3. work \in [Threads -> Contexts]
    BY <2>1 DEF ApiProcessorInit
  <2>4. ApiProcessorTypeOK
    BY <2>2, <2>3 DEF ApiProcessorInit, ApiProcessorTypeOK, Contexts
  <2> QED
    BY <2>4 DEF ApiProcessorInit, ProcessorInv, StampsAgree, FallbackIsFresh, ClientHeld, NoEntry, NoWork
<1>2. ProcessorInv /\ [ApiProcessorNext]_apiProcessorVars => ProcessorInv'
  <2> SUFFICES ASSUME ProcessorInv, [ApiProcessorNext]_apiProcessorVars
               PROVE  ProcessorInv'
    OBVIOUS
  <2> USE DEF KeepsCache
  <2>0. now \in 0 .. MaxTime /\ clientOpen \in BOOLEAN /\ sweeping \in BOOLEAN /\ Ttl \in Nat
    BY DEF ProcessorInv, ApiProcessorTypeOK, ApiProcessorAssumption
  <2>1. ASSUME NEW t \in Threads, Look(t)
        PROVE  ProcessorInv'
    <3> DEFINE first == [NoWork EXCEPT !.at = IF Cached THEN "read" ELSE "enter",
                                       !.alone = Active = {}]
    <3>1. first \in Contexts /\ ~first.late /\ ~first.cutOff
          /\ first.at # "entered" /\ (first.alone => Active = {})
      <4>1. NoWork \in Contexts
        BY DEF ApiProcessorAssumption, NoWork, Contexts
      <4>2. first \in Contexts
        BY <4>1 DEF Contexts
      <4>3. ~first.late /\ ~first.cutOff /\ first.at # "entered"
        BY DEF NoWork
      <4>4. first.alone => Active = {}
        BY DEF NoWork
      <4> QED
        BY <4>2, <4>3, <4>4
    <3>2. \A u \in Threads \ {t} :
            /\ [work[u] EXCEPT !.alone = @ /\ u \notin Active] \in Contexts
            /\ work'[u] = [work[u] EXCEPT !.alone = @ /\ u \notin Active]
      BY ZenonT(60), <2>1, ContextTyped DEF Look, Contexts
    <3>3. work'[t] = first /\ DOMAIN work' = Threads
      BY <2>1 DEF Look
    <3> HIDE DEF first
    <3>4. work' \in [Threads -> Contexts]
      <4>1. work' = [u \in Threads |-> work'[u]]
        BY <2>1 DEF Look
      <4>2. \A u \in Threads : work'[u] \in Contexts
        BY <3>1, <3>2, <3>3
      <4> QED
        BY <4>1, <4>2
    <3>5. ApiProcessorTypeOK'
      BY <2>1, <3>4 DEF Look, ProcessorInv, ApiProcessorTypeOK, Contexts
    <3>6. \A u \in Threads \ {t} :
            /\ work'[u].at = work[u].at /\ work'[u].late = work[u].late
            /\ work'[u].cutOff = work[u].cutOff
            /\ (work'[u].alone => work[u].alone /\ u \notin Active)
      <4> TAKE u \in Threads \ {t}
      <4>1. work'[u] = [work[u] EXCEPT !.alone = @ /\ u \notin Active] /\ work[u] \in Contexts
        BY <3>2, ContextTyped
      <4>2. work'[u].at = work[u].at /\ work'[u].late = work[u].late /\ work'[u].cutOff = work[u].cutOff
        BY <4>1 DEF Contexts
      <4>3. work'[u].alone = (work[u].alone /\ u \notin Active)
        BY <4>1, Zenon DEF Contexts
      <4> QED
        BY <4>2, <4>3
    <3>7. ClientHeld'
      <4>1. \A u \in Threads \ {t} : work'[u].alone => work[u].at = "off" /\ ~work[u].cutOff
        BY <3>6, ContextTyped DEF Active
      <4>2. first.alone => \A u \in Threads : work[u].at = "off"
        BY <3>1 DEF Active
      <4> QED
        BY <3>1, <3>3, <3>6, <4>1, <4>2 DEF ClientHeld
    <3> QED
      BY <2>1, <3>1, <3>3, <3>5, <3>6, <3>7
      DEF Look, ProcessorInv, StampsAgree, FallbackIsFresh
  <2>2. ASSUME NEW t \in Threads, Read(t)
        PROVE  ProcessorInv'
    <3> DEFINE w == work[t]
    <3>1. w \in Contexts /\ ~w.late /\ (w.alone => ~w.cutOff) /\ w.at = "read"
      BY <2>2, ContextTyped DEF Read
    <3>2. CASE ~Cached
      BY <2>2, <3>1, <3>2, EndedTyped, ThreadGoesOn, <2>0 DEF Read
    <3>3. CASE Cached /\ Young(now)
      <4>1. entry \in [stamp : 0 .. MaxTime + 1, first : 0 .. MaxTime + 1] /\ entry # NoEntry
            /\ entry.first = entry.stamp
        BY <3>3 DEF ProcessorInv, ApiProcessorTypeOK, StampsAgree, Cached
      <4>2. entry.first \in 0 .. MaxTime
        BY <4>1 DEF NoEntry, ApiProcessorAssumption
      <4>3. (now >= entry.first + Ttl) = FALSE
        BY <3>3, <4>1, <2>0 DEF Young
      <4> DEFINE v == [w EXCEPT !.at = "enter", !.success = TRUE, !.fromCache = TRUE,
                                !.first = entry.first, !.late = FALSE]
      <4>4. v \in Contexts
        BY <3>1, <4>2 DEF Contexts
      <4>5. ~v.late /\ v.at = "enter"
        BY <3>1, <4>3 DEF Contexts
      <4>6. v.alone = w.alone /\ v.cutOff = w.cutOff
        OBVIOUS
      <4>7. WorkBecomes(t, v) /\ UNCHANGED <<entry, sweeping, now, clientOpen>>
        BY <2>2, <3>3, <4>3 DEF Read
      <4> QED
        BY <3>1, <4>4, <4>5, <4>6, <4>7, ThreadGoesOn, <2>0
    <3>4. CASE Cached /\ ~Young(now)
      <4> DEFINE v == [w EXCEPT !.at = "enter"]
      <4>1. v \in Contexts /\ ~v.late /\ v.alone = w.alone /\ v.cutOff = w.cutOff /\ v.at = "enter"
        BY <3>1 DEF Contexts
      <4>2. WorkBecomes(t, v) /\ UNCHANGED <<entry, sweeping, now, clientOpen>>
        BY <2>2, <3>4 DEF Read
      <4> QED
        BY <3>1, <4>1, <4>2, ThreadGoesOn, <2>0
    <3> QED
      BY <3>2, <3>3, <3>4
  <2>3. ASSUME NEW t \in Threads, Enter(t)
        PROVE  ProcessorInv'
    <3> DEFINE w == [work[t] EXCEPT !.at = "entered"]
    <3>1. w \in Contexts /\ ~w.late /\ w.alone = work[t].alone /\ w.cutOff = work[t].cutOff
      BY ContextTyped DEF Contexts
    <3>2. WorkBecomes(t, w) /\ clientOpen' = TRUE /\ UNCHANGED <<entry, sweeping, now>>
          /\ work[t].at # "off"
      BY <2>3 DEF Enter
    <3> QED
      BY <3>1, <3>2, ContextTyped, ThreadGoesOn
  <2>4. ASSUME NEW t \in Threads, Ask(t)
        PROVE  ProcessorInv'
    <3> DEFINE w == work[t]
    <3>1. w \in Contexts /\ ~w.late /\ (w.alone => ~w.cutOff) /\ w.at = "entered"
          /\ UNCHANGED <<entry, sweeping, now>>
      BY <2>4, ContextTyped DEF Ask
    <3>2. CASE clientOpen
      <4> DEFINE v == [w EXCEPT !.at = "asking"]
      <4>1. v \in Contexts /\ ~v.late /\ v.alone = w.alone /\ v.cutOff = w.cutOff
            /\ v.at = "asking"
        BY <3>1 DEF Contexts
      <4>2. WorkBecomes(t, v) /\ UNCHANGED clientOpen
        BY <2>4, <3>2 DEF Ask
      <4> QED
        BY <3>1, <4>1, <4>2, <2>0, ThreadGoesOn
    <3>3. CASE ~clientOpen
      <4> DEFINE c == [w EXCEPT !.cutOff = TRUE]
                 v == FailsOnce(c, TRUE)
      <4>1. c \in Contexts /\ ~c.late /\ c.alone = w.alone
        BY <3>1 DEF Contexts
      <4>2. v \in Contexts /\ ~v.late /\ v.at # "entered" /\ v.alone = w.alone
        BY <4>1, FailsOnceTyped
      <4>3. WorkBecomes(t, v) /\ clientOpen' = FALSE
        BY <2>4, <3>3 DEF Ask, Exit
      <4>4. ~w.alone
        BY <3>1, <3>3 DEF ProcessorInv, ClientHeld
      <4> QED
        BY <3>1, <4>2, <4>3, <4>4, ThreadGoesOn
    <3> QED
      BY <3>2, <3>3
  <2>5. ASSUME NEW t \in Threads, NEW result \in {"ok", "retryable", "refused"}, Answer(t, result)
        PROVE  ProcessorInv'
    <3> DEFINE w == work[t]
    <3>1. w \in Contexts /\ ~w.late /\ (w.alone => ~w.cutOff) /\ w.at = "asking"
          /\ clientOpen' = FALSE /\ UNCHANGED <<entry, sweeping, now>>
      BY <2>5, ContextTyped DEF Answer, Exit
    <3>2. CASE result = "ok"
      <4> DEFINE v == [w EXCEPT !.at = "finish", !.success = TRUE,
                                !.first = IF w.fromCache THEN now ELSE 0]
      <4>1. (IF w.fromCache THEN now ELSE 0) \in 0 .. MaxTime
        BY <2>0 DEF ApiProcessorAssumption
      <4>2. v \in Contexts /\ ~v.late /\ v.alone = w.alone /\ v.cutOff = w.cutOff
            /\ v.at = "finish"
        BY <3>1, <4>1 DEF Contexts
      <4>3. WorkBecomes(t, v)
        BY <2>5, <3>2 DEF Answer
      <4> QED
        BY <3>1, <4>2, <4>3, ThreadGoesOn
    <3>3. CASE result # "ok"
      <4> DEFINE v == FailsOnce(w, result = "retryable")
      <4>1. v \in Contexts /\ ~v.late /\ v.at # "entered" /\ v.alone = w.alone
            /\ v.cutOff = w.cutOff
        BY <3>1, FailsOnceTyped
      <4>2. WorkBecomes(t, v)
        BY <2>5, <3>3 DEF Answer
      <4> QED
        BY <3>1, <4>1, <4>2, ThreadGoesOn
    <3> QED
      BY <3>2, <3>3
  <2>6. ASSUME NEW t \in Threads, NEW valid \in BOOLEAN, Finish(t, valid)
        PROVE  ProcessorInv'
    <3> DEFINE w == work[t]
    <3>1. w \in Contexts /\ (w.alone => ~w.cutOff) /\ w.at = "finish"
          /\ WorkBecomes(t, Ended(w)) /\ UNCHANGED <<now, sweeping, clientOpen>>
      BY <2>6, ContextTyped DEF Finish
    <3>2. entry' = entry \/ entry' = [stamp |-> now, first |-> now]
      BY <2>6 DEF Finish
    <3> QED
      BY <3>1, <3>2, <2>0, EndedTyped, ThreadGoesOn
  <2>7. ASSUME ClearEntries \/ FindExpired \/ DeleteExpired \/ Tick
        PROVE  ProcessorInv'
    <3>1. /\ work' = work /\ clientOpen' = clientOpen /\ sweeping' \in BOOLEAN
          /\ (entry' = entry \/ entry' = NoEntry)
          /\ now' \in 0 .. MaxTime
      <4>1. CASE ClearEntries
        BY <4>1, <2>0 DEF ClearEntries
      <4>2. CASE FindExpired \/ DeleteExpired
        BY <4>2, <2>0 DEF FindExpired, DeleteExpired
      <4>3. CASE Tick
        BY <4>3, <2>0 DEF Tick, ApiProcessorAssumption
      <4> QED
        BY <2>7, <4>1, <4>2, <4>3
    <3>2. NoEntry \in [stamp : 0 .. MaxTime + 1, first : 0 .. MaxTime + 1]
          /\ NoEntry.first = NoEntry.stamp
      BY DEF NoEntry, ApiProcessorAssumption
    <3>3. ApiProcessorTypeOK'
      BY <3>1, <3>2 DEF ProcessorInv, ApiProcessorTypeOK
    <3>4. StampsAgree' /\ FallbackIsFresh' /\ ClientHeld'
      BY <3>1, <3>2 DEF ProcessorInv, StampsAgree, FallbackIsFresh, ClientHeld
    <3> QED
      BY <3>3, <3>4 DEF ProcessorInv
  <2>8. CASE UNCHANGED apiProcessorVars
    BY <2>8 DEF apiProcessorVars, ProcessorInv, ApiProcessorTypeOK, StampsAgree,
       FallbackIsFresh, ClientHeld
  <2> QED
    BY <2>1, <2>2, <2>3, <2>4, <2>5, <2>6, <2>7, <2>8 DEF ApiProcessorNext
<1> QED
  BY <1>1, <1>2, PTL DEF ApiProcessorSpec

\* However long the API is down, the cache answers nothing that was first
\* stored a life time ago: _finalize_processing does not store again what
\* came from the cache.
THEOREM CachedAnswersAreFresh ==
    ASSUME ApiProcessorAssumption
    PROVE  ApiProcessorSpec => []FallbackIsFresh
<1>1. ProcessorInv => FallbackIsFresh
  BY DEF ProcessorInv
<1> QED
  BY <1>1, ProcessorInvariant, PTL

\* One thread at a time never sends with a client that was closed, although
\* every attempt opens and closes the one that all share.
THEOREM AloneIsUndisturbed ==
    ASSUME ApiProcessorAssumption
    PROVE  ApiProcessorSpec => [](ApiProcessorTypeOK /\ UndisturbedAlone)
<1>1. ProcessorInv => ApiProcessorTypeOK /\ UndisturbedAlone
  BY DEF ProcessorInv, ClientHeld, UndisturbedAlone
<1> QED
  BY <1>1, ProcessorInvariant, PTL

-----------------------------------------------------------------------------
(* The command and query buses                                             *)

LEMMA ReverseKeeps ==
    ASSUME NEW S, NEW s \in Seq(S)
    PROVE  Reverse(s) \in Seq(S) /\ ToSet(Reverse(s)) = ToSet(s)
<1>1. Reverse(s) \in Seq(S) /\ Len(Reverse(s)) = Len(s)
  BY DEF Reverse
<1>2. \A i \in 1 .. Len(s) : Reverse(s)[i] = s[(Len(s) - i) + 1] /\ s[i] = Reverse(s)[(Len(s) - i) + 1]
  BY DEF Reverse
<1>3. \A i \in 1 .. Len(s) : (Len(s) - i) + 1 \in 1 .. Len(s)
  OBVIOUS
<1>4. DOMAIN s = 1 .. Len(s) /\ DOMAIN Reverse(s) = 1 .. Len(s)
  BY <1>1
<1>5. \A v : v \in ToSet(Reverse(s)) <=> v \in ToSet(s)
  BY <1>2, <1>3, <1>4 DEF ToSet
<1> QED
  BY <1>1, <1>5

LEMMA HeadAndTail ==
    ASSUME NEW S, NEW s \in Seq(S), s # <<>>
    PROVE  Head(s) \in S /\ Tail(s) \in Seq(S) /\ ToSet(s) = {Head(s)} \cup ToSet(Tail(s))
<1>1. Head(s) \in S /\ Tail(s) \in Seq(S) /\ Len(Tail(s)) = Len(s) - 1 /\ Head(s) = s[1]
      /\ 1 \in 1 .. Len(s)
  OBVIOUS
<1>2. \A i \in 1 .. Len(s) : i = 1 \/ (i - 1 \in 1 .. Len(Tail(s)) /\ Tail(s)[i - 1] = s[i])
  OBVIOUS
<1>3. \A i \in 1 .. Len(Tail(s)) : i + 1 \in 1 .. Len(s) /\ Tail(s)[i] = s[i + 1]
  OBVIOUS
<1>4. DOMAIN s = 1 .. Len(s) /\ DOMAIN Tail(s) = 1 .. Len(Tail(s))
  BY <1>1
<1>5. ASSUME NEW i \in 1 .. Len(s) PROVE s[i] = Head(s) \/ s[i] \in ToSet(Tail(s))
  <2>1. CASE i = 1
    BY <1>1, <2>1
  <2>2. CASE i # 1
    BY <1>2, <1>4, <2>2, Zenon DEF ToSet
  <2> QED
    BY <2>1, <2>2
<1>6. \A v : v = Head(s) \/ v \in ToSet(Tail(s)) => v \in ToSet(s)
  BY <1>1, <1>3, <1>4 DEF ToSet
<1> QED
  BY <1>1, <1>4, <1>5, <1>6 DEF ToSet

LEMMA OneAdded ==
    ASSUME NEW S, NEW s \in Seq(S), NEW m \in S, IsInjective(s), m \notin ToSet(s)
    PROVE  /\ Append(s, m) \in Seq(S) /\ IsInjective(Append(s, m))
           /\ Len(Append(s, m)) = Len(s) + 1
           /\ ToSet(Append(s, m)) = ToSet(s) \cup {m}
<1>1. /\ Append(s, m) \in Seq(S) /\ Len(Append(s, m)) = Len(s) + 1
      /\ Append(s, m)[Len(s) + 1] = m
      /\ \A i \in 1 .. Len(s) : Append(s, m)[i] = s[i]
  OBVIOUS
<1>2. ToSet(Append(s, m)) = ToSet(s) \cup {m}
  BY <1>1 DEF ToSet
<1>3. IsInjective(Append(s, m))
  BY <1>1 DEF IsInjective, ToSet
<1> QED
  BY <1>1, <1>2, <1>3

Executions ==
    [step : {"off", "before", "handler", "store", "after", "on_error"}, todo : Seq(Middleware),
     next : Nat, opened : SUBSET Middleware, closed : SUBSET Middleware, cut : BOOLEAN]

\* What an execution x of a chain l owes to the middleware it has opened.
Owes(x, l) ==
    /\ x \in Executions
    /\ x.opened \subseteq ToSet(l)
    /\ x.step = "before" => x.next \in 1 .. Len(l)
    /\ x.step \in {"after", "on_error"} => x.todo # <<>> /\ x.opened \subseteq x.closed \cup ToSet(x.todo)
    /\ x.step = "off" /\ ~x.cut => x.opened \subseteq x.closed

BusInv ==
    /\ chain \in Seq(Middleware) /\ IsInjective(chain)
    /\ {handled, caching, inCache} \subseteq BOOLEAN
    /\ exec \in [Executors -> Executions]
    /\ \A c \in Executors : Owes(exec[c], chain)

LEMMA RestOwes ==
    ASSUME NEW l \in Seq(Middleware), NEW x \in Executions, NEW todo \in Seq(Middleware),
           NEW step \in {"after", "on_error"},
           x.opened \subseteq ToSet(l), x.opened \subseteq x.closed \cup ToSet(todo)
    PROVE  Owes(Rest(x, step, todo), l)
<1>1. CASE todo = <<>>
  <2>1. ToSet(todo) = {}
    BY <1>1 DEF ToSet
  <2> DEFINE y == [x EXCEPT !.step = "off", !.todo = todo]
  <2>2. Rest(x, step, todo) = y
    BY <1>1 DEF Rest
  <2>3. y \in Executions
    BY DEF Executions
  <2>4. y.opened = x.opened /\ y.closed = x.closed /\ y.step = "off"
    BY DEF Executions
  <2> QED
    BY <2>1, <2>2, <2>3, <2>4 DEF Owes
<1>2. CASE todo # <<>>
  <2> DEFINE y == [x EXCEPT !.step = step, !.todo = todo]
  <2>1. Rest(x, step, todo) = y
    BY <1>2 DEF Rest
  <2>2. y \in Executions
    BY DEF Executions
  <2>3. y.opened = x.opened /\ y.closed = x.closed /\ y.step = step /\ y.todo = todo
    BY DEF Executions
  <2> QED
    BY <1>2, <2>1, <2>2, <2>3 DEF Owes
<1> QED
  BY <1>1, <1>2

LEMMA RaisesOwes ==
    ASSUME BusInv, NEW x \in Executions, x.opened \subseteq ToSet(chain)
    PROVE  Owes(Raises(x), chain)
<1>1. Reverse(chain) \in Seq(Middleware) /\ ToSet(Reverse(chain)) = ToSet(chain)
  BY ReverseKeeps DEF BusInv
<1> QED
  BY <1>1, RestOwes DEF Raises, BusInv

LEMMA BeforeOwes ==
    ASSUME BusInv, NEW x \in Executions, x.opened \subseteq ToSet(chain), NEW i \in Nat
    PROVE  Owes(Before(x, i), chain)
<1>0. Len(chain) \in Nat /\ i + 1 \in Nat
  BY DEF BusInv
<1>1. CASE i < Len(chain)
  <2> DEFINE y == [x EXCEPT !.step = "before", !.next = i + 1]
  <2>1. Before(x, i) = y
    BY <1>1 DEF Before
  <2>2. y \in Executions
    BY <1>0 DEF Executions
  <2>3. y.opened = x.opened /\ y.step = "before" /\ y.next = i + 1
    BY DEF Executions
  <2>4. i + 1 \in 1 .. Len(chain)
    BY <1>0, <1>1
  <2> QED
    BY <2>1, <2>2, <2>3, <2>4 DEF Owes
<1>2. CASE ~(i < Len(chain))
  <2> DEFINE y == [x EXCEPT !.step = "handler", !.next = i + 1]
  <2>1. Before(x, i) = y
    BY <1>2 DEF Before
  <2>2. y \in Executions
    BY <1>0 DEF Executions
  <2>3. y.opened = x.opened /\ y.step = "handler"
    BY DEF Executions
  <2> QED
    BY <2>1, <2>2, <2>3 DEF Owes
<1> QED
  BY <1>1, <1>2

LEMMA GoesOwes ==
    ASSUME BusInv, NEW c \in Executors, NEW y, Owes(y, chain), Moves(c, y),
           UNCHANGED <<chain, handled, caching>>, inCache' \in BOOLEAN
    PROVE  BusInv'
<1>1. exec' \in [Executors -> Executions] /\ \A d \in Executors : exec'[d] = IF d = c THEN y ELSE exec[d]
  BY DEF BusInv, Moves, Owes
<1>2. \A d \in Executors : Owes(exec'[d], chain)
  BY <1>1 DEF BusInv
<1> QED
  BY <1>1, <1>2 DEF BusInv

\* The invariant holds in every state, for any executions and middleware.
THEOREM BusInvariant == MessageBusSpec => []BusInv
<1>1. MessageBusInit => BusInv
  <2> SUFFICES ASSUME MessageBusInit PROVE BusInv
    OBVIOUS
  <2>1. Resting \in Executions
    BY DEF Resting, Executions
  <2>2. Owes(Resting, chain)
    BY <2>1 DEF Owes, Resting
  <2>3. exec \in [Executors -> Executions] /\ \A c \in Executors : Owes(exec[c], chain)
    BY <2>1, <2>2 DEF MessageBusInit
  <2>4. chain \in Seq(Middleware) /\ IsInjective(chain)
    BY DEF MessageBusInit, IsInjective
  <2> QED
    BY <2>3, <2>4 DEF MessageBusInit, BusInv
<1>2. BusInv /\ [MessageBusNext]_messageBusVars => BusInv'
  <2> SUFFICES ASSUME BusInv, [MessageBusNext]_messageBusVars PROVE BusInv'
    OBVIOUS
  <2> USE DEF KeepsBus
  <2>0. /\ \A c \in Executors : Owes(exec[c], chain) /\ exec[c] \in Executions
        /\ inCache \in BOOLEAN /\ caching \in BOOLEAN /\ chain \in Seq(Middleware)
        /\ Resting \in Executions /\ Resting.opened = {}
        /\ Reverse(chain) \in Seq(Middleware) /\ ToSet(Reverse(chain)) = ToSet(chain)
    BY ReverseKeeps DEF BusInv, Resting, Executions
  <2>1. ASSUME NEW c \in Executors, Execute(c) PROVE BusInv'
    <3>1. Owes(Before(Resting, 0), chain)
      BY <2>0, BeforeOwes
    <3> QED
      BY <2>0, <2>1, <3>1, GoesOwes DEF Execute
  <2>2. ASSUME NEW c \in Executors, CacheFails(c) PROVE BusInv'
    <3>1. Owes(Raises(Resting), chain)
      BY <2>0, RaisesOwes
    <3> QED
      BY <2>0, <2>2, <3>1, GoesOwes DEF CacheFails
  <2>3. ASSUME NEW c \in Executors, NEW fails \in BOOLEAN, BeforeExecute(c, fails) PROVE BusInv'
    <3> DEFINE x == exec[c]
               y == [x EXCEPT !.opened = @ \cup {chain[x.next]}]
    <3>1. x \in Executions /\ x.opened \subseteq ToSet(chain) /\ x.next \in 1 .. Len(chain)
      BY <2>0, <2>3 DEF Owes, BeforeExecute
    <3>2. chain[x.next] \in ToSet(chain) /\ chain[x.next] \in Middleware
      BY <2>0, <3>1 DEF ToSet
    <3>3. y \in Executions /\ y.opened \subseteq ToSet(chain)
      BY <3>1, <3>2 DEF Executions
    <3>4. Owes(Raises(x), chain) /\ Owes(Before(y, x.next), chain)
      BY <3>1, <3>3, RaisesOwes, BeforeOwes DEF Executions
    <3>5. Moves(c, Raises(x)) \/ Moves(c, Before(y, x.next))
      BY <2>3 DEF BeforeExecute
    <3> QED
      BY <2>0, <2>3, <3>4, <3>5, GoesOwes DEF BeforeExecute
  <2>4. ASSUME NEW c \in Executors, NEW outcome \in {"result", "nothing", "failure"}, Handle(c, outcome)
        PROVE  BusInv'
    <3> DEFINE x == exec[c]
               y == [x EXCEPT !.step = "store"]
    <3>1. x \in Executions /\ x.opened \subseteq ToSet(chain)
      BY <2>0 DEF Owes
    <3>2. Owes(Raises(x), chain) /\ Owes(Rest(x, "after", Reverse(chain)), chain)
      BY <2>0, <3>1, RaisesOwes, RestOwes
    <3>3. Owes(y, chain)
      BY <3>1 DEF Owes, Executions
    <3>4. Moves(c, Raises(x)) \/ Moves(c, y) \/ Moves(c, Rest(x, "after", Reverse(chain)))
      BY <2>4 DEF Handle
    <3> QED
      BY <2>0, <2>4, <3>2, <3>3, <3>4, GoesOwes DEF Handle
  <2>5. ASSUME NEW c \in Executors, NEW fails \in BOOLEAN, StoreInCache(c, fails) PROVE BusInv'
    <3> DEFINE x == exec[c]
    <3>1. x \in Executions /\ x.opened \subseteq ToSet(chain)
      BY <2>0 DEF Owes
    <3>2. Owes(Raises(x), chain) /\ Owes(Rest(x, "after", Reverse(chain)), chain)
      BY <2>0, <3>1, RaisesOwes, RestOwes
    <3>3. (Moves(c, Raises(x)) \/ Moves(c, Rest(x, "after", Reverse(chain)))) /\ inCache' \in BOOLEAN
      BY <2>5 DEF StoreInCache
    <3> QED
      BY <2>5, <3>2, <3>3, GoesOwes DEF StoreInCache
  <2>6. ASSUME NEW c \in Executors, NEW fails \in BOOLEAN, AfterExecute(c, fails) PROVE BusInv'
    <3> DEFINE x == exec[c]
               y == [x EXCEPT !.closed = @ \cup {Head(x.todo)}]
    <3>1. /\ x \in Executions /\ x.opened \subseteq ToSet(chain) /\ x.todo \in Seq(Middleware)
          /\ x.todo # <<>> /\ x.opened \subseteq x.closed \cup ToSet(x.todo)
      BY <2>0, <2>6 DEF Owes, AfterExecute, Executions
    <3>2. /\ Head(x.todo) \in Middleware /\ Tail(x.todo) \in Seq(Middleware)
          /\ ToSet(x.todo) = {Head(x.todo)} \cup ToSet(Tail(x.todo))
      BY <3>1, HeadAndTail
    <3>3. y \in Executions /\ y.opened = x.opened /\ y.closed = x.closed \cup {Head(x.todo)}
      BY <3>1, <3>2 DEF Executions
    <3>4. Owes(Raises(x), chain) /\ Owes(Rest(y, "after", Tail(x.todo)), chain)
      BY <2>0, <3>1, <3>2, <3>3, RaisesOwes, RestOwes
    <3>5. Moves(c, Raises(x)) \/ Moves(c, Rest(y, "after", Tail(x.todo)))
      BY <2>6 DEF AfterExecute
    <3> QED
      BY <2>0, <2>6, <3>4, <3>5, GoesOwes DEF AfterExecute
  <2>7. ASSUME NEW c \in Executors, NEW fails \in BOOLEAN, OnError(c, fails) PROVE BusInv'
    <3> DEFINE x == exec[c]
               y == [x EXCEPT !.closed = @ \cup {Head(x.todo)}]
               z == [x EXCEPT !.step = "off", !.cut = TRUE]
    <3>1. /\ x \in Executions /\ x.opened \subseteq ToSet(chain) /\ x.todo \in Seq(Middleware)
          /\ x.todo # <<>> /\ x.opened \subseteq x.closed \cup ToSet(x.todo)
      BY <2>0, <2>7 DEF Owes, OnError, Executions
    <3>2. /\ Head(x.todo) \in Middleware /\ Tail(x.todo) \in Seq(Middleware)
          /\ ToSet(x.todo) = {Head(x.todo)} \cup ToSet(Tail(x.todo))
      BY <3>1, HeadAndTail
    <3>3. y \in Executions /\ y.opened = x.opened /\ y.closed = x.closed \cup {Head(x.todo)}
      BY <3>1, <3>2 DEF Executions
    <3>4. Owes(z, chain)
      BY <3>1 DEF Owes, Executions
    <3>5. Owes(Rest(y, "on_error", Tail(x.todo)), chain)
      BY <2>0, <3>1, <3>2, <3>3, RestOwes
    <3>6. Moves(c, z) \/ Moves(c, Rest(y, "on_error", Tail(x.todo)))
      BY <2>7 DEF OnError
    <3> QED
      BY <2>0, <2>7, <3>4, <3>5, <3>6, GoesOwes DEF OnError
  <2>8. ASSUME NEW m \in Middleware, AppendMiddleware(m) PROVE BusInv'
    <3>1. /\ chain' \in Seq(Middleware) /\ IsInjective(chain') /\ Len(chain') = Len(chain) + 1
          /\ ToSet(chain) \subseteq ToSet(chain') /\ Len(chain) \in Nat
      BY <2>8, OneAdded DEF AppendMiddleware, BusInv
    <3>2. \A c \in Executors : Owes(exec[c], chain')
      BY <2>0, <3>1 DEF Owes
    <3> QED
      BY <2>8, <3>1, <3>2 DEF AppendMiddleware, BusInv
  <2>9. CASE RegisterHandler \/ UnregisterHandler \/ CacheExpires \/ UNCHANGED messageBusVars
    BY <2>9 DEF RegisterHandler, UnregisterHandler, CacheExpires, messageBusVars, BusInv
  <2> QED
    BY <2>1, <2>2, <2>3, <2>4, <2>5, <2>6, <2>7, <2>8, <2>9 DEF MessageBusNext
<1> QED
  BY <1>1, <1>2, PTL DEF MessageBusSpec

\* Every middleware whose before_execute returned gets after_execute or
\* on_error before the execution is over, unless an on_error raised: the
\* loops over the reversed list reach all that were opened, although
\* middleware is added meanwhile.
THEOREM EveryMiddlewareCloses == MessageBusSpec => [](MessageBusTypeOK /\ MiddlewareClosed)
<1>1. BusInv => MessageBusTypeOK
  BY DEF BusInv, Executions, MessageBusTypeOK, ToSet
<1>2. BusInv => MiddlewareClosed
  BY DEF BusInv, Owes, MiddlewareClosed
<1> QED
  BY <1>1, <1>2, BusInvariant, PTL

-----------------------------------------------------------------------------
(* Versions and the migrations between them                                *)

LEMMA LeastNumber ==
    ASSUME NEW I \in SUBSET Nat, I # {}
    PROVE  \E k \in I : \A j \in I : k <= j
<1> DEFINE R == {p \in Nat \X Nat : p[1] < p[2]}
<1>1. IsWellFoundedOn(R, Nat)
  BY NatLessThanWellFounded DEF OpToRel
<1>2. PICK k \in I : \A j \in I : ~ (<<j, k>> \in R)
  <2> HIDE DEF R
  <2> QED
    BY <1>1, WFMin
<1>3. ASSUME NEW j \in I PROVE k <= j
  <2>1. <<j, k>> \in Nat \X Nat /\ ~(j < k)
    BY <1>2
  <2> QED
    BY <2>1
<1> QED
  BY <1>3

\* A sequence of different elements is no longer than they are many.
LEMMA InjectiveBounded ==
    ASSUME NEW S, IsFiniteSet(S), NEW s \in Seq(S), IsInjective(s)
    PROVE  Len(s) \in 0 .. Cardinality(S)
<1>1. Len(s) \in Nat /\ s \in [1 .. Len(s) -> S]
  BY LenProperties
<1>2. s \in Injection(1 .. Len(s), S)
  BY <1>1 DEF Injection
<1>3. Cardinality(1 .. Len(s)) <= Cardinality(S) /\ Cardinality(1 .. Len(s)) = Len(s)
  <2>1. Cardinality(1 .. Len(s)) <= Cardinality(S)
    BY <1>2, FS_Injection
  <2>2. Cardinality(1 .. Len(s)) = Len(s)
    <3> DEFINE n == Len(s)
    <3>1. n \in Nat
      BY <1>1
    <3> HIDE DEF n
    <3>2. Cardinality(1 .. n) = n
      BY <3>1, FS_Interval
    <3> QED
      BY <3>2 DEF n
  <2> QED
    BY <2>1, <2>2
<1>4. Cardinality(S) \in Nat
  BY FS_CardinalityType
<1> QED
  BY <1>1, <1>3, <1>4

\* The first n applications of a function, beginning with an element of its
\* domain: there are such for every n, and they do not depend on how far
\* they go; hence they are those of one function of all numbers.
Applied(S, base, next, n, f) ==
    /\ f \in [0 .. n -> S] /\ f[0] = base
    /\ \A m \in 1 .. n : f[m] = next[f[m - 1]]

LEMMA AppliedOnce ==
    ASSUME NEW S, NEW base, NEW next, NEW i \in Nat, NEW j \in Nat, NEW f, NEW g,
           Applied(S, base, next, i, f), Applied(S, base, next, j, g), NEW k \in Nat, k <= i, k <= j
    PROVE  f[k] = g[k]
<1> DEFINE B == {n \in 0 .. k : f[n] # g[n]}
<1>1. CASE B # {}
  <2>1. B \in SUBSET Nat
    OBVIOUS
  <2>2. PICK n \in B : \A m \in B : n <= m
    <3> HIDE DEF B
    <3> QED
      BY <1>1, <2>1, LeastNumber
  <2>3. n \in 0 .. k /\ f[n] # g[n]
    OBVIOUS
  <2>4. n # 0
    BY <2>3 DEF Applied
  <2>5. n \in 1 .. i /\ n \in 1 .. j /\ n - 1 \in 0 .. k /\ ~ (n <= n - 1)
    BY <2>3, <2>4
  <2>6. f[n] = next[f[n - 1]] /\ g[n] = next[g[n - 1]]
    BY <2>5 DEF Applied
  <2>7. f[n - 1] = g[n - 1]
    BY <2>2, <2>5
  <2> QED
    BY <2>3, <2>6, <2>7
<1>2. CASE B = {}
  <2>1. k \in 0 .. k
    OBVIOUS
  <2> QED
    BY <1>2, <2>1
<1> QED
  BY <1>1, <1>2

LEMMA AppliedExists ==
    ASSUME NEW S, NEW base \in S, NEW next \in [S -> S], NEW k \in Nat
    PROVE  \E f : Applied(S, base, next, k, f)
<1> DEFINE B == {n \in Nat : ~ \E f : Applied(S, base, next, n, f)}
<1>1. CASE B # {}
  <2>1. PICK n \in B : \A m \in B : n <= m
    <3>1. B \in SUBSET Nat
      OBVIOUS
    <3> HIDE DEF B
    <3> QED
      BY <1>1, <3>1, LeastNumber
  <2>2. n \in Nat /\ ~ \E f : Applied(S, base, next, n, f)
    OBVIOUS
  <2>3. CASE n = 0
    <3> DEFINE f == [m \in 0 .. 0 |-> base]
    <3>1. Applied(S, base, next, 0, f)
      BY DEF Applied
    <3> QED
      BY <2>2, <2>3, <3>1
  <2>4. CASE n # 0
    <3>1. n - 1 \in Nat /\ ~ (n <= n - 1)
      BY <2>2, <2>4
    <3>2. PICK f : Applied(S, base, next, n - 1, f)
      BY <2>1, <3>1
    <3> DEFINE g == [m \in 0 .. n |-> IF m = n THEN next[f[n - 1]] ELSE f[m]]
    <3>3. /\ f \in [0 .. n - 1 -> S] /\ f[0] = base
          /\ \A m \in 1 .. n - 1 : f[m] = next[f[m - 1]]
      BY <3>2 DEF Applied
    <3>4. n - 1 \in 0 .. n - 1 /\ 0 \in 0 .. n /\ 0 # n
      BY <2>2, <2>4
    <3>5. g \in [0 .. n -> S] /\ g[0] = base
      <4>1. next[f[n - 1]] \in S
        BY <3>3, <3>4
      <4>2. ASSUME NEW m \in 0 .. n PROVE (IF m = n THEN next[f[n - 1]] ELSE f[m]) \in S
        BY <2>2, <3>3, <4>1
      <4> QED
        BY <3>3, <3>4, <4>2
    <3>6. ASSUME NEW m \in 1 .. n PROVE g[m] = next[g[m - 1]]
      <4>1. m \in 0 .. n /\ m - 1 \in 0 .. n /\ m - 1 # n /\ (m # n => m \in 1 .. n - 1)
        BY <2>2
      <4>2. g[m - 1] = f[m - 1] /\ g[m] = IF m = n THEN next[f[n - 1]] ELSE f[m]
        BY <4>1
      <4> HIDE DEF g
      <4> QED
        BY <3>3, <4>1, <4>2
    <3> HIDE DEF g
    <3> QED
      BY <2>2, <3>5, <3>6 DEF Applied
  <2> QED
    BY <2>3, <2>4
<1>2. CASE B = {}
  BY <1>2
<1> QED
  BY <1>1, <1>2

LEMMA AppliedForAll ==
    ASSUME NEW S, NEW base \in S, NEW next \in [S -> S]
    PROVE  \E f \in [Nat -> S] : f[0] = base /\ \A n \in Nat \ {0} : f[n] = next[f[n - 1]]
<1> DEFINE part(n) == CHOOSE f : Applied(S, base, next, n, f)
           whole == [n \in Nat |-> part(n)[n]]
<1>1. ASSUME NEW n \in Nat PROVE Applied(S, base, next, n, part(n))
  BY AppliedExists
<1> HIDE DEF part
<1>2. ASSUME NEW n \in Nat PROVE part(n)[n] \in S
  <2>1. n \in 0 .. n
    OBVIOUS
  <2> QED
    BY <1>1, <2>1 DEF Applied
<1>3. whole \in [Nat -> S]
  BY <1>2
<1>4. whole[0] = base
  <2>1. part(0)[0] = base
    BY <1>1 DEF Applied
  <2> QED
    BY <2>1
<1>5. ASSUME NEW n \in Nat \ {0} PROVE whole[n] = next[whole[n - 1]]
  <2>1. n - 1 \in Nat /\ n \in Nat /\ n \in 1 .. n /\ n - 1 <= n /\ n - 1 <= n - 1
    OBVIOUS
  <2>2. part(n)[n] = next[part(n)[n - 1]]
    BY <1>1, <2>1 DEF Applied
  <2>3. part(n)[n - 1] = part(n - 1)[n - 1]
    BY <1>1, <2>1, AppliedOnce
  <2>4. whole[n] = part(n)[n] /\ whole[n - 1] = part(n - 1)[n - 1]
    BY <2>1
  <2> HIDE DEF whole
  <2> QED
    BY <2>2, <2>3, <2>4
<1> HIDE DEF whole
<1> QED
  BY <1>3, <1>4, <1>5

\* The registered migrations lead from a version to others, each once.
Network ==
    /\ V1 \in Registered /\ Registered \subseteq Versions
    /\ migrations = [v \in Registered |-> migrations[v]]
    /\ \A v \in Registered : migrations[v] \in Seq(Registered) /\ IsInjective(migrations[v])

LEMMA WaysTyped ==
    ASSUME ApiVersionsAssumption, Network, NEW v \in Registered
    PROVE  /\ Ways(v) \in Seq(Registered) /\ ToSet(Ways(v)) \subseteq Registered
           /\ IsFiniteSet(Registered) /\ Cardinality(Registered) \in Nat \ {0}
           /\ Cardinality(Versions) \in Nat /\ Cardinality(Registered) <= Cardinality(Versions)
           /\ Len(Ways(v)) \in 0 .. Cardinality(Versions)
<1>1. Ways(v) \in Seq(Registered) /\ IsInjective(Ways(v))
  BY DEF Network, Ways
<1>2. ToSet(Ways(v)) \subseteq Registered
  BY <1>1 DEF ToSet
<1>3. /\ IsFiniteSet(Registered) /\ Cardinality(Registered) <= Cardinality(Versions)
      /\ Cardinality(Versions) \in Nat /\ Cardinality(Registered) \in Nat
  <2>1. Registered \in SUBSET Versions /\ IsFiniteSet(Versions)
    BY DEF Network, ApiVersionsAssumption
  <2>2. IsFiniteSet(Registered) /\ Cardinality(Registered) <= Cardinality(Versions)
    BY <2>1, FS_Subset
  <2> QED
    BY <2>1, <2>2, FS_CardinalityType
<1>4. Cardinality(Registered) # 0
  BY <1>3, FS_EmptySet
<1>5. Len(Ways(v)) \in 0 .. Cardinality(Registered)
  BY <1>1, <1>3, InjectiveBounded
<1> QED
  BY <1>1, <1>2, <1>3, <1>4, <1>5

\* What n migrations reach, step by step.
LEMMA ReachedUnfolds ==
    ASSUME ApiVersionsAssumption, Network, NEW source \in Registered
    PROVE  /\ Reached(source) \in [Nat -> SUBSET Registered] /\ Reached(source)[0] = {source}
           /\ \A n \in Nat \ {0} :
                Reached(source)[n] = Reached(source)[n - 1]
                    \cup UNION {ToSet(Ways(v)) : v \in Reached(source)[n - 1]}
<1> DEFINE Leads(vs) == vs \cup UNION {ToSet(Ways(v)) : v \in vs}
           next == [vs \in SUBSET Registered |-> Leads(vs)]
           Unfolds(f) == f = [n \in Nat |-> IF n = 0 THEN {source} ELSE Leads(f[n - 1])]
<1>1. next \in [SUBSET Registered -> SUBSET Registered]
  <2>1. ASSUME NEW vs \in SUBSET Registered PROVE Leads(vs) \in SUBSET Registered
    <3>1. \A v \in vs : ToSet(Ways(v)) \subseteq Registered
      BY WaysTyped
    <3> QED
      BY <3>1
  <2> QED
    BY <2>1
<1>2. {source} \in SUBSET Registered
  OBVIOUS
<1>3. \A vs \in SUBSET Registered : next[vs] = Leads(vs)
  OBVIOUS
<1>4. Reached(source) = CHOOSE f : Unfolds(f)
  BY DEF Reached
<1> HIDE DEF next, Leads
<1>5. PICK f \in [Nat -> SUBSET Registered] :
        f[0] = {source} /\ \A n \in Nat \ {0} : f[n] = next[f[n - 1]]
  <2> DEFINE S == SUBSET Registered
             base == {source}
  <2>1. base \in S /\ next \in [S -> S]
    BY <1>1, <1>2
  <2> HIDE DEF S, base
  <2>2. \E f \in [Nat -> S] : f[0] = base /\ \A n \in Nat \ {0} : f[n] = next[f[n - 1]]
    BY <2>1, AppliedForAll
  <2> QED
    BY <2>2 DEF S, base
<1>6. \A n \in Nat \ {0} : f[n] = Leads(f[n - 1])
  <2> TAKE n \in Nat \ {0}
  <2>1. n - 1 \in Nat
    OBVIOUS
  <2>2. f[n - 1] \in SUBSET Registered
    BY <2>1
  <2> QED
    BY <1>3, <1>5, <2>2
<1>7. Unfolds(f)
  <2>1. \A n \in Nat : f[n] = IF n = 0 THEN {source} ELSE Leads(f[n - 1])
    BY <1>5, <1>6
  <2>2. f = [n \in Nat |-> f[n]]
    OBVIOUS
  <2> QED
    BY <2>1, <2>2
<1> DEFINE g == Reached(source)
<1>8. Unfolds(g)
  <2> HIDE DEF Unfolds
  <2> QED
    BY <1>4, <1>7
<1> HIDE DEF g
<1>9. g[0] = {source} /\ \A n \in Nat \ {0} : g[n] = Leads(g[n - 1])
  BY <1>8
<1>10. \A n \in Nat : g[n] \in SUBSET Registered
  <2> DEFINE B == {n \in Nat : g[n] \notin SUBSET Registered}
  <2>1. CASE B # {}
    <3>1. PICK n \in B : \A m \in B : n <= m
      <4>1. B \in SUBSET Nat
        OBVIOUS
      <4> HIDE DEF B
      <4> QED
        BY <2>1, <4>1, LeastNumber
    <3>2. n \in Nat /\ g[n] \notin SUBSET Registered
      OBVIOUS
    <3>3. n # 0
      BY <1>2, <1>9, <3>2
    <3>4. n - 1 \in Nat /\ ~ (n <= n - 1)
      BY <3>2, <3>3
    <3>5. g[n - 1] \in SUBSET Registered
      BY <3>1, <3>4
    <3>6. g[n] = next[g[n - 1]]
      BY <1>3, <1>9, <3>2, <3>3, <3>5
    <3> QED
      BY <1>1, <3>2, <3>5, <3>6
  <2>2. CASE B = {}
    BY <2>2
  <2> QED
    BY <2>1, <2>2
<1>11. g \in [Nat -> SUBSET Registered]
  <2>1. g = [n \in Nat |-> IF n = 0 THEN {source} ELSE Leads(g[n - 1])]
    BY <1>8
  <2> QED
    BY <1>10, <2>1
<1> QED
  BY <1>9, <1>11 DEF g, Leads

\* More migrations reach no less.
LEMMA ReachedGrows ==
    ASSUME ApiVersionsAssumption, Network, NEW source \in Registered, NEW m \in Nat, NEW k \in Nat, m <= k
    PROVE  Reached(source)[m] \subseteq Reached(source)[k]
<1> DEFINE g == Reached(source)
           B == {n \in Nat : m <= n /\ ~(g[m] \subseteq g[n])}
<1>1. \A n \in Nat \ {0} : g[n - 1] \subseteq g[n]
  BY ReachedUnfolds
<1> HIDE DEF g
<1>2. CASE B # {}
  <2>1. PICK n \in B : \A i \in B : n <= i
    <3>1. B \in SUBSET Nat
      OBVIOUS
    <3> HIDE DEF B
    <3> QED
      BY <1>2, <3>1, LeastNumber
  <2>2. n \in Nat /\ m <= n /\ ~(g[m] \subseteq g[n])
    OBVIOUS
  <2>3. n # m
    BY <2>2
  <2>4. n - 1 \in Nat /\ m <= n - 1 /\ ~(n <= n - 1) /\ n \in Nat \ {0}
    BY <2>2, <2>3
  <2>5. g[m] \subseteq g[n - 1]
    BY <2>1, <2>4
  <2> QED
    BY <1>1, <2>2, <2>4, <2>5
<1>3. CASE B = {}
  BY <1>3 DEF g
<1> QED
  BY <1>2, <1>3

\* A way from one version to another with which the search is content: it
\* goes along migrations, through different versions, and no shorter one
\* leads there.
Leading(p) == \A i \in 1 .. Len(p) - 1 : p[i + 1] \in ToSet(Ways(p[i]))
WayTo(source, p) ==
    /\ p \in Seq(Registered) /\ p # <<>> /\ p[1] = source /\ IsInjective(p) /\ Leading(p)
    /\ Last(p) \in Reached(source)[Len(p) - 1]
    /\ \A j \in Nat : j < Len(p) - 1 => Last(p) \notin Reached(source)[j]

Searches ==
    [path : Seq(Registered), rest : Seq(Registered), queue : Seq(Seq(Registered)),
     visited : SUBSET Registered, found : Seq(Registered)]

\* While nothing is found, all that is as near as the path in hand is visited,
\* the paths in the queue are as long as that one or longer by one, the longer
\* after the others, and what is visited leads to what is visited, but for
\* what is still to be looked at.
Looking(source, target, s) ==
    /\ s.found = <<>>
    /\ WayTo(source, s.path) /\ ToSet(s.path) \subseteq s.visited
    /\ \A i \in 1 .. Len(s.queue) :
         /\ WayTo(source, s.queue[i]) /\ ToSet(s.queue[i]) \subseteq s.visited
         /\ Len(s.queue[i]) \in {Len(s.path), Len(s.path) + 1}
    /\ \A i, j \in 1 .. Len(s.queue) : i <= j => Len(s.queue[i]) <= Len(s.queue[j])
    /\ Reached(source)[Len(s.path) - 1] \subseteq s.visited /\ target \notin s.visited
    /\ ToSet(s.rest) \subseteq ToSet(Ways(Last(s.path)))
    /\ \A u \in s.visited : \A v \in ToSet(Ways(u)) :
         \/ v \in s.visited
         \/ u = Last(s.path) /\ v \in ToSet(s.rest)
         \/ \E i \in 1 .. Len(s.queue) : u = Last(s.queue[i])
Over(s) == s.rest = <<>> /\ s.queue = <<>>
Found(source, target, s) ==
    s.found # <<>> /\ Over(s) /\ WayTo(source, s.found) /\ Last(s.found) = target

\* Each version visited and not in the queue has cost one look of the search,
\* and one for each version it leads to.
LooksAllowed(s) ==
    (Cardinality(s.visited) - Len(s.queue)) * (Cardinality(Versions) + 1) - 1 - Len(s.rest)

Sound(source, target, s) ==
    s \in Searches /\ (Looking(source, target, s) \/ Found(source, target, s))

LEMMA WayGrows ==
    ASSUME ApiVersionsAssumption, Network, NEW source \in Registered, NEW p, WayTo(source, p),
           NEW S, ToSet(p) \subseteq S, Reached(source)[Len(p) - 1] \subseteq S,
           NEW v \in ToSet(Ways(Last(p))), v \notin S
    PROVE  LET q == Append(p, v) IN
           /\ WayTo(source, q) /\ Last(q) = v /\ Len(q) = Len(p) + 1 /\ ToSet(q) = ToSet(p) \cup {v}
<1> DEFINE q == Append(p, v)
<1>1. p \in Seq(Registered) /\ Len(p) \in Nat \ {0} /\ IsInjective(p)
  BY DEF WayTo
<1>2. Last(p) \in Registered
  BY <1>1 DEF Last
<1>3. v \in Registered
  BY <1>2, WaysTyped
<1>4. /\ q \in Seq(Registered) /\ Len(q) = Len(p) + 1 /\ q[Len(p) + 1] = v
      /\ \A i \in 1 .. Len(p) : q[i] = p[i]
  BY <1>1, <1>3
<1>5. IsInjective(q) /\ ToSet(q) = ToSet(p) \cup {v}
  BY <1>1, <1>3, OneAdded
<1> HIDE DEF q
<1>6. Last(q) = v /\ q # <<>> /\ q[1] = source
  BY <1>1, <1>4 DEF Last, WayTo
<1>7. Leading(q)
  <2> SUFFICES ASSUME NEW i \in 1 .. Len(p) PROVE q[i + 1] \in ToSet(Ways(q[i]))
    BY <1>1, <1>4 DEF Leading
  <2>1. CASE i = Len(p)
    BY <1>1, <1>4, <2>1 DEF Last
  <2>2. CASE i # Len(p)
    <3>1. i \in 1 .. Len(p) - 1 /\ i + 1 \in 1 .. Len(p)
      BY <1>1, <2>2
    <3> QED
      BY <1>4, <3>1 DEF WayTo, Leading
  <2> QED
    BY <2>1, <2>2
<1>8. v \in Reached(source)[Len(q) - 1]
  <2>1. Len(p) \in Nat \ {0} /\ Len(q) - 1 = Len(p)
    BY <1>1, <1>4
  <2>2. Reached(source)[Len(p)] = Reached(source)[Len(p) - 1]
                    \cup UNION {ToSet(Ways(u)) : u \in Reached(source)[Len(p) - 1]}
    BY <2>1, ReachedUnfolds
  <2>3. Last(p) \in Reached(source)[Len(p) - 1]
    BY DEF WayTo
  <2> QED
    BY <2>1, <2>2, <2>3
<1>9. \A j \in Nat : j < Len(q) - 1 => v \notin Reached(source)[j]
  <2> SUFFICES ASSUME NEW j \in Nat, j < Len(q) - 1 PROVE v \notin Reached(source)[j]
    OBVIOUS
  <2>1. Len(p) - 1 \in Nat /\ j <= Len(p) - 1
    BY <1>1, <1>4
  <2> QED
    BY <2>1, ReachedGrows
<1> QED
  BY <1>4, <1>5, <1>6, <1>7, <1>8, <1>9 DEF WayTo, q

LEMMA WayStarts ==
    ASSUME ApiVersionsAssumption, Network, NEW source \in Registered
    PROVE  WayTo(source, <<source>>) /\ Last(<<source>>) = source /\ ToSet(<<source>>) = {source}
<1> DEFINE p == <<source>>
<1>1. p \in Seq(Registered) /\ Len(p) = 1 /\ p[1] = source /\ p # <<>> /\ DOMAIN p = {1}
  OBVIOUS
<1> HIDE DEF p
<1>2. Last(p) = source /\ ToSet(p) = {source} /\ IsInjective(p) /\ Leading(p)
  BY <1>1 DEF Last, ToSet, IsInjective, Leading
<1>3. Reached(source)[0] = {source}
  BY ReachedUnfolds
<1>4. Len(p) - 1 = 0 /\ \A j \in Nat : ~(j < 0)
  BY <1>1
<1> QED
  BY <1>1, <1>2, <1>3, <1>4 DEF WayTo, p

LEMMA SearchStarts ==
    ASSUME ApiVersionsAssumption, Network, NEW source \in Registered, NEW target, target # source
    PROVE  Sound(source, target, FirstLook(source)) /\ 0 <= LooksAllowed(FirstLook(source))
<1> DEFINE s == FirstLook(source)
<1>1. /\ s.path = <<source>> /\ s.rest = Ways(source) /\ s.queue = <<>>
      /\ s.visited = {source} /\ s.found = <<>>
  BY DEF FirstLook
<1>2. Ways(source) \in Seq(Registered) /\ Len(Ways(source)) \in 0 .. Cardinality(Versions)
      /\ Cardinality(Versions) \in Nat
  BY WaysTyped
<1>3. s \in Searches
  BY <1>2 DEF FirstLook, Searches
<1> HIDE DEF s
<1>4. Len(s.path) - 1 = 0 /\ Reached(source)[0] = {source}
  BY <1>1, ReachedUnfolds
<1>5. Looking(source, target, s)
  BY <1>1, <1>4, WayStarts DEF Looking
<1>6. LooksAllowed(s) = Cardinality(Versions) - Len(Ways(source))
  <2>1. Cardinality({source}) = 1 /\ Len(s.queue) = 0
    BY <1>1, FS_Singleton
  <2> QED
    BY <1>1, <1>2, <2>1 DEF LooksAllowed
<1>7. 0 <= LooksAllowed(s)
  BY <1>2, <1>6
<1> QED
  BY <1>3, <1>5, <1>7 DEF Sound, s

\* A version met for the first time is met on a shortest way to it.
LEMMA HeadIsMet ==
    ASSUME ApiVersionsAssumption, Network, NEW source \in Registered, NEW target, NEW s,
           s \in Searches, Looking(source, target, s), s.rest # <<>>, Head(s.rest) \notin s.visited
    PROVE  LET q == Append(s.path, Head(s.rest)) IN
           /\ WayTo(source, q) /\ Last(q) = Head(s.rest) /\ Len(q) = Len(s.path) + 1
           /\ ToSet(q) = ToSet(s.path) \cup {Head(s.rest)}
<1> DEFINE v == Head(s.rest)
<1>1. v \in ToSet(s.rest)
  BY HeadAndTail DEF Searches
<1>2. v \in ToSet(Ways(Last(s.path))) /\ v \notin s.visited /\ ToSet(s.path) \subseteq s.visited
      /\ Reached(source)[Len(s.path) - 1] \subseteq s.visited /\ WayTo(source, s.path)
  BY <1>1 DEF Looking
<1> HIDE DEF v
<1> DEFINE q == Append(s.path, v)
<1>3. /\ WayTo(source, q) /\ Last(q) = v /\ Len(q) = Len(s.path) + 1 /\ ToSet(q) = ToSet(s.path) \cup {v}
  BY <1>2, WayGrows
<1> QED
  BY <1>3 DEF v

\* The migration looked at next leads to the target.
LEMMA SearchFinds ==
    ASSUME ApiVersionsAssumption, Network, NEW source \in Registered, NEW target, NEW s,
           s \in Searches, Looking(source, target, s), s.rest # <<>>, Head(s.rest) = target
    PROVE  /\ NextLook(s, target) \in Searches /\ Found(source, target, NextLook(s, target))
<1> DEFINE t == NextLook(s, target)
<1>1. /\ t.path = s.path /\ t.rest = <<>> /\ t.queue = <<>> /\ t.visited = s.visited
      /\ t.found = Append(s.path, target)
      /\ t = [s EXCEPT !.rest = <<>>, !.queue = <<>>, !.found = Append(s.path, target)]
  BY DEF NextLook, LookAt, Searches
<1>2. target \in ToSet(s.rest)
  BY HeadAndTail DEF Searches
<1>3. target \in ToSet(Ways(Last(s.path))) /\ target \notin s.visited /\ ToSet(s.path) \subseteq s.visited
      /\ Reached(source)[Len(s.path) - 1] \subseteq s.visited /\ WayTo(source, s.path)
  BY <1>2 DEF Looking
<1> HIDE DEF t
<1>4. WayTo(source, t.found) /\ Last(t.found) = target
  <2> DEFINE v == Head(s.rest)
  <2>1. WayTo(source, Append(s.path, v)) /\ Last(Append(s.path, v)) = v
    BY <1>3, HeadIsMet
  <2> QED
    BY <1>1, <2>1
<1>5. t.found \in Seq(Registered) /\ t.found # <<>>
  BY <1>4 DEF WayTo
<1>6. t \in Searches
  <2>1. <<>> \in Seq(Registered) /\ <<>> \in Seq(Seq(Registered)) /\ s.visited \subseteq Registered
    BY DEF Searches
  <2>2. Append(s.path, target) \in Seq(Registered)
    BY <1>1, <1>5
  <2> QED
    BY <1>1, <2>1, <2>2 DEF Searches
<1> QED
  BY <1>1, <1>4, <1>5, <1>6 DEF Found, Over, t

\* It leads to a version that was visited before.
LEMMA SearchPasses ==
    ASSUME ApiVersionsAssumption, Network, NEW source \in Registered, NEW target, NEW s,
           s \in Searches, Looking(source, target, s), s.rest # <<>>, Head(s.rest) # target,
           Head(s.rest) \in s.visited
    PROVE  /\ NextLook(s, target) \in Searches /\ Looking(source, target, NextLook(s, target))
           /\ LooksAllowed(NextLook(s, target)) = LooksAllowed(s) + 1
<1> DEFINE t == NextLook(s, target)
<1>1. /\ t.path = s.path /\ t.rest = Tail(s.rest) /\ t.queue = s.queue /\ t.visited = s.visited
      /\ t.found = s.found /\ t = [s EXCEPT !.rest = Tail(s.rest)]
  BY DEF NextLook, LookAt, Searches
<1>2. s.rest \in Seq(Registered)
  BY DEF Searches
<1>3. ToSet(s.rest) = {Head(s.rest)} \cup ToSet(t.rest) /\ t.rest \in Seq(Registered)
  BY <1>1, <1>2, HeadAndTail
<1>4. Len(t.rest) = Len(s.rest) - 1 /\ Len(s.rest) \in Nat
  BY <1>1, <1>2
<1> HIDE DEF t
<1>5. t \in Searches
  BY <1>1, <1>3 DEF Searches
<1>6. \A u \in t.visited : \A v \in ToSet(Ways(u)) :
         \/ v \in t.visited
         \/ u = Last(t.path) /\ v \in ToSet(t.rest)
         \/ \E i \in 1 .. Len(t.queue) : u = Last(t.queue[i])
  BY <1>1, <1>3 DEF Looking
<1>7. Looking(source, target, t)
  <2>1. ToSet(t.rest) \subseteq ToSet(Ways(Last(t.path)))
    BY <1>1, <1>3 DEF Looking
  <2>2. /\ t.found = <<>> /\ WayTo(source, t.path) /\ ToSet(t.path) \subseteq t.visited
        /\ \A i \in 1 .. Len(t.queue) :
             /\ WayTo(source, t.queue[i]) /\ ToSet(t.queue[i]) \subseteq t.visited
             /\ Len(t.queue[i]) \in {Len(t.path), Len(t.path) + 1}
        /\ \A i, j \in 1 .. Len(t.queue) : i <= j => Len(t.queue[i]) <= Len(t.queue[j])
        /\ Reached(source)[Len(t.path) - 1] \subseteq t.visited /\ target \notin t.visited
    BY <1>1 DEF Looking
  <2> QED
    BY <1>6, <2>1, <2>2 DEF Looking
<1>8. LooksAllowed(t) = LooksAllowed(s) + 1
  <2> DEFINE a == (Cardinality(s.visited) - Len(s.queue)) * (Cardinality(Versions) + 1)
  <2>1. a \in Int
    <3>1. Cardinality(s.visited) \in Nat
      <4>1. s.visited \in SUBSET Registered /\ IsFiniteSet(Registered)
        BY WaysTyped DEF Searches
      <4> QED
        BY <4>1, FS_Subset, FS_CardinalityType
    <3>2. Len(s.queue) \in Nat /\ Cardinality(Versions) \in Nat
      BY WaysTyped DEF Searches
    <3> QED
      BY <3>1, <3>2
  <2> HIDE DEF a
  <2>2. LooksAllowed(t) = a - 1 - Len(t.rest) /\ LooksAllowed(s) = a - 1 - Len(s.rest)
    BY <1>1 DEF LooksAllowed, a
  <2> QED
    BY <1>4, <2>1, <2>2
<1> QED
  BY <1>5, <1>7, <1>8 DEF t

\* It leads to one that was not.
LEMMA SearchMeets ==
    ASSUME ApiVersionsAssumption, Network, NEW source \in Registered, NEW target, NEW s,
           s \in Searches, Looking(source, target, s), s.rest # <<>>, Head(s.rest) # target,
           Head(s.rest) \notin s.visited
    PROVE  /\ NextLook(s, target) \in Searches /\ Looking(source, target, NextLook(s, target))
           /\ LooksAllowed(NextLook(s, target)) = LooksAllowed(s) + 1
<1> DEFINE t == NextLook(s, target)
           v == Head(s.rest)
           q == Append(s.path, v)
<1>1. /\ t.path = s.path /\ t.rest = Tail(s.rest) /\ t.queue = Append(s.queue, q)
      /\ t.visited = s.visited \cup {v} /\ t.found = s.found
      /\ t = [s EXCEPT !.rest = Tail(s.rest), !.visited = s.visited \cup {v}, !.queue = Append(s.queue, q)]
  BY DEF NextLook, LookAt, Enqueue, InTurn, Searches
<1>2. s.rest \in Seq(Registered) /\ s.queue \in Seq(Seq(Registered)) /\ s.visited \subseteq Registered
  BY DEF Searches
<1>3. /\ v \in Registered /\ t.rest \in Seq(Registered)
      /\ ToSet(s.rest) = {v} \cup ToSet(t.rest)
  BY <1>1, <1>2, HeadAndTail
<1>4. Len(t.rest) = Len(s.rest) - 1 /\ Len(s.rest) \in Nat
  BY <1>1, <1>2
<1> HIDE DEF t, v
<1>5. /\ WayTo(source, q) /\ Last(q) = v /\ Len(q) = Len(s.path) + 1 /\ ToSet(q) = ToSet(s.path) \cup {v}
  BY HeadIsMet DEF v
<1> HIDE DEF q
<1>6. q \in Seq(Registered) /\ Len(s.path) \in Nat
  BY <1>5 DEF WayTo, Looking
<1>7. /\ t.queue \in Seq(Seq(Registered)) /\ Len(t.queue) = Len(s.queue) + 1 /\ Len(s.queue) \in Nat
      /\ t.queue[Len(s.queue) + 1] = q
      /\ \A i \in 1 .. Len(s.queue) : t.queue[i] = s.queue[i]
  BY <1>1, <1>2, <1>6
<1>8. t \in Searches
  BY <1>1, <1>2, <1>3, <1>7 DEF Searches
<1>9. ASSUME NEW i \in 1 .. Len(t.queue)
      PROVE  /\ WayTo(source, t.queue[i]) /\ ToSet(t.queue[i]) \subseteq t.visited
             /\ Len(t.queue[i]) \in {Len(t.path), Len(t.path) + 1}
  <2>1. CASE i = Len(s.queue) + 1
    <3>1. ToSet(s.path) \subseteq s.visited
      BY DEF Looking
    <3> QED
      BY <1>1, <1>5, <1>7, <2>1, <3>1
  <2>2. CASE i # Len(s.queue) + 1
    <3>1. i \in 1 .. Len(s.queue)
      BY <1>7, <2>2
    <3>2. /\ WayTo(source, s.queue[i]) /\ ToSet(s.queue[i]) \subseteq s.visited
          /\ Len(s.queue[i]) \in {Len(s.path), Len(s.path) + 1}
      BY <3>1 DEF Looking
    <3> QED
      BY <1>1, <1>7, <3>1, <3>2
  <2> QED
    BY <2>1, <2>2
<1>10. ASSUME NEW i \in 1 .. Len(t.queue), NEW j \in 1 .. Len(t.queue), i <= j
       PROVE  Len(t.queue[i]) <= Len(t.queue[j])
  <2>1. CASE j = Len(s.queue) + 1
    <3>1. Len(t.queue[j]) = Len(s.path) + 1
      BY <1>5, <1>7, <2>1
    <3>2. Len(t.queue[i]) \in {Len(s.path), Len(s.path) + 1}
      BY <1>1, <1>9
    <3> QED
      BY <1>6, <3>1, <3>2
  <2>2. CASE j # Len(s.queue) + 1
    <3>1. i \in 1 .. Len(s.queue) /\ j \in 1 .. Len(s.queue)
      <4>1. Len(t.queue) = Len(s.queue) + 1 /\ Len(s.queue) \in Nat
        BY <1>7
      <4> QED
        BY <1>10, <2>2, <4>1
    <3>2. Len(s.queue[i]) <= Len(s.queue[j])
      BY <1>10, <3>1 DEF Looking
    <3> QED
      BY <1>7, <3>1, <3>2
  <2> QED
    BY <2>1, <2>2
<1>11. ASSUME NEW u \in t.visited, NEW w \in ToSet(Ways(u))
       PROVE  \/ w \in t.visited
              \/ u = Last(t.path) /\ w \in ToSet(t.rest)
              \/ \E i \in 1 .. Len(t.queue) : u = Last(t.queue[i])
  <2>1. CASE u = v
    <3>1. Len(s.queue) + 1 \in 1 .. Len(t.queue)
      BY <1>7
    <3> QED
      BY <1>5, <1>7, <2>1, <3>1
  <2>2. CASE u # v
    <3>1. u \in s.visited
      BY <1>1, <2>2
    <3>2. \/ w \in s.visited
          \/ u = Last(s.path) /\ w \in ToSet(s.rest)
          \/ \E i \in 1 .. Len(s.queue) : u = Last(s.queue[i])
      BY <3>1 DEF Looking
    <3>3. \A i \in 1 .. Len(s.queue) : i \in 1 .. Len(t.queue) /\ t.queue[i] = s.queue[i]
      <4>1. Len(t.queue) = Len(s.queue) + 1 /\ Len(s.queue) \in Nat
        BY <1>7
      <4>2. \A i \in 1 .. Len(s.queue) : i \in 1 .. Len(t.queue)
        BY <4>1
      <4> QED
        BY <1>7, <4>2
    <3> QED
      BY <1>1, <1>3, <3>2, <3>3
  <2> QED
    BY <2>1, <2>2
<1>12. Looking(source, target, t)
  <2>1. /\ t.found = <<>> /\ WayTo(source, t.path) /\ ToSet(t.path) \subseteq t.visited
        /\ Reached(source)[Len(t.path) - 1] \subseteq t.visited /\ target \notin t.visited
        /\ ToSet(t.rest) \subseteq ToSet(Ways(Last(t.path)))
    BY <1>1, <1>3 DEF Looking, v
  <2> QED
    BY <1>9, <1>10, <1>11, <2>1 DEF Looking
<1>13. LooksAllowed(t) = LooksAllowed(s) + 1
  <2> DEFINE a == (Cardinality(s.visited) - Len(s.queue)) * (Cardinality(Versions) + 1)
  <2>1. IsFiniteSet(s.visited) /\ Cardinality(s.visited) \in Nat
    <3>1. IsFiniteSet(Registered)
      BY WaysTyped
    <3> QED
      BY <1>2, <3>1, FS_Subset, FS_CardinalityType
  <2>2. Cardinality(t.visited) = Cardinality(s.visited) + 1
    <3>1. v \notin s.visited
      BY DEF v
    <3> QED
      BY <1>1, <2>1, <3>1, FS_AddElement
  <2>3. Cardinality(t.visited) - Len(t.queue) = Cardinality(s.visited) - Len(s.queue)
    <3>1. Len(t.queue) = Len(s.queue) + 1 /\ Len(s.queue) \in Nat
      BY <1>7
    <3> QED
      BY <2>1, <2>2, <3>1
  <2>4. a \in Int
    <3>1. Cardinality(Versions) \in Nat
      BY WaysTyped
    <3> QED
      BY <1>7, <2>1, <3>1
  <2>5. LooksAllowed(t) = a - 1 - Len(t.rest) /\ LooksAllowed(s) = a - 1 - Len(s.rest)
    BY <2>3 DEF LooksAllowed, a
  <2> HIDE DEF a
  <2> QED
    BY <1>4, <2>4, <2>5
<1> QED
  BY <1>8, <1>12, <1>13 DEF t

\* The next path of the queue is taken in hand.  When it is longer than the
\* one before, the queue has none as short as that one, so that what these
\* lead to is all visited.
LEMMA SearchTurns ==
    ASSUME ApiVersionsAssumption, Network, NEW source \in Registered, NEW target, NEW s,
           s \in Searches, Looking(source, target, s), s.rest = <<>>, s.queue # <<>>
    PROVE  /\ NextLook(s, target) \in Searches /\ Looking(source, target, NextLook(s, target))
           /\ LooksAllowed(s) + 1 <= LooksAllowed(NextLook(s, target))
           /\ LooksAllowed(s) \in Int /\ LooksAllowed(NextLook(s, target)) \in Int
<1> DEFINE t == NextLook(s, target)
           q == Head(s.queue)
<1>1. /\ t.path = q /\ t.rest = Ways(Last(q)) /\ t.queue = Tail(s.queue)
      /\ t.visited = s.visited /\ t.found = s.found
      /\ t = [s EXCEPT !.path = q, !.queue = Tail(s.queue), !.rest = Ways(Last(q))]
  BY DEF NextLook, Searches
<1>2. s.queue \in Seq(Seq(Registered)) /\ s.visited \subseteq Registered /\ s.path \in Seq(Registered)
  BY DEF Searches
<1>3. /\ Len(s.queue) \in Nat \ {0} /\ q = s.queue[1] /\ 1 \in 1 .. Len(s.queue)
      /\ t.queue \in Seq(Seq(Registered)) /\ Len(t.queue) = Len(s.queue) - 1
      /\ \A i \in 1 .. Len(t.queue) : i + 1 \in 1 .. Len(s.queue) /\ t.queue[i] = s.queue[i + 1]
  <2> HIDE DEF t
  <2> QED
    BY <1>1, <1>2
<1> HIDE DEF t, q
<1>4. /\ WayTo(source, q) /\ ToSet(q) \subseteq s.visited
      /\ Len(q) \in {Len(s.path), Len(s.path) + 1}
  BY <1>3 DEF Looking
<1>5. q \in Seq(Registered) /\ Len(q) \in Nat \ {0} /\ Last(q) \in Registered /\ Len(s.path) \in Nat \ {0}
  <2>1. q \in Seq(Registered) /\ q # <<>> /\ s.path # <<>>
    BY <1>4 DEF WayTo, Looking
  <2> QED
    BY <1>2, <2>1 DEF Last
<1>6. /\ t.rest \in Seq(Registered) /\ Len(t.rest) \in 0 .. Cardinality(Versions)
      /\ Cardinality(Versions) \in Nat /\ IsFiniteSet(Registered)
  BY <1>1, <1>5, WaysTyped
<1>7. t \in Searches
  BY <1>1, <1>3, <1>5, <1>6 DEF Searches
<1>8. ASSUME NEW i \in 1 .. Len(t.queue)
      PROVE  /\ WayTo(source, t.queue[i]) /\ ToSet(t.queue[i]) \subseteq t.visited
             /\ Len(t.queue[i]) \in {Len(t.path), Len(t.path) + 1}
  <2>1. i + 1 \in 1 .. Len(s.queue) /\ t.queue[i] = s.queue[i + 1] /\ 1 <= i + 1
    BY <1>3
  <2>2. /\ WayTo(source, s.queue[i + 1]) /\ ToSet(s.queue[i + 1]) \subseteq s.visited
        /\ Len(s.queue[i + 1]) \in {Len(s.path), Len(s.path) + 1}
        /\ Len(s.queue[1]) <= Len(s.queue[i + 1])
    BY <1>3, <2>1 DEF Looking
  <2>3. Len(s.queue[i + 1]) \in {Len(q), Len(q) + 1}
    <3> DEFINE m == Len(s.queue[i + 1])
    <3>1. m \in {Len(s.path), Len(s.path) + 1} /\ Len(q) <= m
      BY <1>3, <2>2
    <3> HIDE DEF m
    <3>2. m \in {Len(q), Len(q) + 1}
      BY <1>4, <1>5, <3>1
    <3> QED
      BY <3>2 DEF m
  <2> QED
    BY <1>1, <2>1, <2>2, <2>3
<1>9. ASSUME NEW i \in 1 .. Len(t.queue), NEW j \in 1 .. Len(t.queue), i <= j
      PROVE  Len(t.queue[i]) <= Len(t.queue[j])
  <2>1. i + 1 \in 1 .. Len(s.queue) /\ j + 1 \in 1 .. Len(s.queue) /\ i + 1 <= j + 1
    <3>1. i + 1 \in 1 .. Len(s.queue) /\ j + 1 \in 1 .. Len(s.queue)
      BY <1>3
    <3>2. i \in Int /\ j \in Int /\ i <= j
      BY <1>9
    <3> QED
      BY <3>1, <3>2
  <2>2. Len(s.queue[i + 1]) <= Len(s.queue[j + 1])
    BY <2>1 DEF Looking
  <2> QED
    BY <1>3, <2>2
<1>10. Reached(source)[Len(q) - 1] \subseteq s.visited
  <2>1. CASE Len(q) = Len(s.path)
    BY <2>1 DEF Looking
  <2>2. CASE Len(q) = Len(s.path) + 1
    <3>1. Len(q) - 1 = Len(s.path) /\ Len(s.path) - 1 \in Nat
      BY <1>5, <2>2
    <3>2. Reached(source)[Len(s.path)] = Reached(source)[Len(s.path) - 1]
                    \cup UNION {ToSet(Ways(u)) : u \in Reached(source)[Len(s.path) - 1]}
      BY <1>5, ReachedUnfolds
    <3>3. ASSUME NEW u \in Reached(source)[Len(s.path) - 1], NEW v \in ToSet(Ways(u))
          PROVE  v \in s.visited
      <4>1. u \in s.visited
        BY DEF Looking
      <4>2. ~(v \in ToSet(s.rest))
        BY DEF ToSet
      <4>3. ASSUME NEW i \in 1 .. Len(s.queue) PROVE u # Last(s.queue[i])
        <5>1. WayTo(source, s.queue[i]) /\ Len(s.queue[i]) \in {Len(s.path), Len(s.path) + 1}
              /\ Len(s.queue[1]) <= Len(s.queue[i])
          BY <1>3 DEF Looking
        <5>2. Len(s.path) - 1 < Len(s.queue[i]) - 1
          BY <1>3, <1>5, <2>2, <5>1
        <5>3. Last(s.queue[i]) \notin Reached(source)[Len(s.path) - 1]
          BY <3>1, <5>1, <5>2 DEF WayTo
        <5> QED
          BY <5>3
      <4> QED
        BY <4>1, <4>2, <4>3 DEF Looking
    <3>4. Reached(source)[Len(s.path) - 1] \subseteq s.visited
      BY DEF Looking
    <3> QED
      BY <3>1, <3>2, <3>3, <3>4
  <2> QED
    BY <1>4, <2>1, <2>2
<1>11. ASSUME NEW u \in t.visited, NEW w \in ToSet(Ways(u))
       PROVE  \/ w \in t.visited
              \/ u = Last(t.path) /\ w \in ToSet(t.rest)
              \/ \E i \in 1 .. Len(t.queue) : u = Last(t.queue[i])
  <2>1. CASE u = Last(q)
    BY <1>1, <2>1
  <2>2. CASE u # Last(q)
    <3>1. \/ w \in s.visited
          \/ u = Last(s.path) /\ w \in ToSet(s.rest)
          \/ \E i \in 1 .. Len(s.queue) : u = Last(s.queue[i])
      BY <1>1 DEF Looking
    <3>2. ~(w \in ToSet(s.rest))
      BY DEF ToSet
    <3>3. ASSUME NEW i \in 1 .. Len(s.queue), u = Last(s.queue[i])
          PROVE  \E j \in 1 .. Len(t.queue) : u = Last(t.queue[j])
      <4>1. i # 1
        BY <1>3, <2>2, <3>3
      <4>2. i - 1 \in 1 .. Len(t.queue) /\ (i - 1) + 1 = i
        BY <1>3, <4>1
      <4>3. t.queue[i - 1] = s.queue[i]
        BY <1>3, <4>2
      <4> QED
        BY <3>3, <4>2, <4>3
    <3> QED
      BY <1>1, <3>1, <3>2, <3>3
  <2> QED
    BY <2>1, <2>2
<1>12. Looking(source, target, t)
  <2>1. /\ t.found = <<>> /\ WayTo(source, t.path) /\ ToSet(t.path) \subseteq t.visited
        /\ Reached(source)[Len(t.path) - 1] \subseteq t.visited /\ target \notin t.visited
        /\ ToSet(t.rest) \subseteq ToSet(Ways(Last(t.path)))
    BY <1>1, <1>4, <1>10 DEF Looking
  <2> QED
    BY <1>8, <1>9, <1>11, <2>1 DEF Looking
<1>13. /\ LooksAllowed(s) + 1 <= LooksAllowed(t)
       /\ LooksAllowed(s) \in Int /\ LooksAllowed(t) \in Int
  <2> DEFINE k == Cardinality(Versions) + 1
             d == Cardinality(s.visited) - Len(s.queue)
  <2>1. Cardinality(s.visited) \in Nat
    BY <1>2, <1>6, FS_Subset, FS_CardinalityType
  <2>2. k \in Int /\ d \in Int /\ Cardinality(t.visited) - Len(t.queue) = d + 1 /\ Len(s.rest) = 0
    <3>1. t.visited = s.visited /\ Cardinality(Versions) \in Nat
      BY <1>1, <1>6
    <3>2. Len(s.queue) \in Nat /\ Len(t.queue) = Len(s.queue) - 1
      BY <1>3
    <3>3. Len(s.rest) = 0
      OBVIOUS
    <3> QED
      BY <2>1, <3>1, <3>2, <3>3
  <2>3. LooksAllowed(s) = d * k - 1 - Len(s.rest) /\ LooksAllowed(t) = (d + 1) * k - 1 - Len(t.rest)
    BY <2>2 DEF LooksAllowed
  <2>4. Len(t.rest) \in Nat /\ Len(t.rest) <= k - 1
    BY <1>6
  <2> HIDE DEF k, d
  <2>5. (d + 1) * k = d * k + k /\ d * k \in Int
    BY <2>2
  <2> DEFINE a == d * k
  <2>6. /\ LooksAllowed(s) = a - 1 - Len(s.rest) /\ LooksAllowed(t) = (a + k) - 1 - Len(t.rest)
        /\ a \in Int
    BY <2>3, <2>5
  <2> HIDE DEF a
  <2> QED
    BY <2>2, <2>4, <2>6
<1> QED
  BY <1>7, <1>12, <1>13 DEF t

LEMMA SearchGoesOn ==
    ASSUME ApiVersionsAssumption, Network, NEW source \in Registered, NEW target, NEW s,
           Sound(source, target, s)
    PROVE  /\ Sound(source, target, NextLook(s, target)) /\ LooksAllowed(s) \in Int
           /\ \/ Over(NextLook(s, target))
              \/ ~Over(s) /\ LooksAllowed(s) + 1 <= LooksAllowed(NextLook(s, target))
<1>1. LooksAllowed(s) \in Int
  <2>1. s.visited \subseteq Registered /\ Len(s.queue) \in Nat /\ Len(s.rest) \in Nat
    BY DEF Searches, Sound
  <2>2. IsFiniteSet(Registered) /\ Cardinality(Versions) \in Nat
    BY WaysTyped
  <2>3. Cardinality(s.visited) \in Nat
    BY <2>1, <2>2, FS_Subset, FS_CardinalityType
  <2>4. (Cardinality(s.visited) - Len(s.queue)) * (Cardinality(Versions) + 1) \in Int
    BY <2>1, <2>2, <2>3
  <2> QED
    BY <2>1, <2>4 DEF LooksAllowed
<1>2. CASE Over(s)
  <2>1. NextLook(s, target) = s
    BY <1>2 DEF Over, NextLook
  <2> QED
    BY <1>1, <1>2, <2>1
<1>3. CASE ~Over(s)
  <2>1. s \in Searches /\ Looking(source, target, s)
    BY <1>3 DEF Sound, Found
  <2>2. CASE s.rest = <<>>
    <3>1. s.queue # <<>>
      BY <1>3, <2>2 DEF Over
    <3> QED
      BY <1>1, <1>3, <2>1, <2>2, <3>1, SearchTurns DEF Sound
  <2>3. CASE s.rest # <<>> /\ Head(s.rest) = target
    BY <1>1, <2>1, <2>3, SearchFinds DEF Sound, Found
  <2>4. CASE s.rest # <<>> /\ Head(s.rest) # target
    <3>1. /\ NextLook(s, target) \in Searches /\ Looking(source, target, NextLook(s, target))
          /\ LooksAllowed(NextLook(s, target)) = LooksAllowed(s) + 1
      <4>1. CASE Head(s.rest) \in s.visited
        BY <2>1, <2>4, <4>1, SearchPasses
      <4>2. CASE Head(s.rest) \notin s.visited
        BY <2>1, <2>4, <4>2, SearchMeets
      <4> QED
        BY <4>1, <4>2
    <3>2. LooksAllowed(s) + 1 <= LooksAllowed(NextLook(s, target))
      BY <1>1, <3>1
    <3> QED
      BY <1>1, <1>3, <3>1, <3>2 DEF Sound
  <2> QED
    BY <2>2, <2>3, <2>4
<1> QED
  BY <1>2, <1>3

\* The search is over when it has looked as often as it may.
LEMMA SearchEnds ==
    ASSUME ApiVersionsAssumption, Network, NEW source \in Registered, NEW target, target # source
    PROVE  \E s : /\ FindMigrationPath(source, target) = s.found
                  /\ Sound(source, target, s) /\ Over(s)
<1> DEFINE most == Cardinality(Versions) * (Cardinality(Versions) + 1)
           S == {s \in Searches : Sound(source, target, s)}
           base == FirstLook(source)
           next == [s \in S |-> NextLook(s, target)]
           Unfolds(f) == f = [n \in Nat |-> IF n = 0 THEN base ELSE NextLook(f[n - 1], target)]
           look == CHOOSE f : Unfolds(f)
<1>1. FindMigrationPath(source, target) = look[most].found
  BY DEF FindMigrationPath
<1>2. \A s : Sound(source, target, s) => Sound(source, target, NextLook(s, target))
  BY SearchGoesOn
<1>3. \A s : Sound(source, target, s) <=> s \in S
  BY DEF Sound
<1>4. base \in S /\ 0 <= LooksAllowed(base)
  BY <1>3, SearchStarts
<1> HIDE DEF S, base
<1>5. next \in [S -> S] /\ \A s \in S : next[s] = NextLook(s, target)
  BY <1>2, <1>3
<1> HIDE DEF next
<1>6. PICK f \in [Nat -> S] : f[0] = base /\ \A n \in Nat \ {0} : f[n] = next[f[n - 1]]
  BY <1>4, <1>5, AppliedForAll
<1>7. Unfolds(f)
  <2>1. ASSUME NEW n \in Nat \ {0} PROVE f[n] = NextLook(f[n - 1], target)
    <3>1. n - 1 \in Nat
      OBVIOUS
    <3>2. f[n - 1] \in S
      BY <3>1
    <3> QED
      BY <1>5, <1>6, <3>2
  <2>2. \A n \in Nat : f[n] = IF n = 0 THEN base ELSE NextLook(f[n - 1], target)
    BY <1>6, <2>1
  <2>3. f = [n \in Nat |-> f[n]]
    OBVIOUS
  <2> QED
    BY <2>2, <2>3
<1>8. Unfolds(look)
  <2> HIDE DEF Unfolds
  <2> QED
    BY <1>7
<1> HIDE DEF look
<1>9. look[0] = base /\ \A n \in Nat \ {0} : look[n] = NextLook(look[n - 1], target)
  BY <1>8
<1> DEFINE Fine(n) == Sound(source, target, look[n]) /\ (Over(look[n]) \/ n <= LooksAllowed(look[n]))
<1>10. \A n \in Nat : Fine(n)
  <2> DEFINE B == {n \in Nat : ~Fine(n)}
  <2>1. CASE B # {}
    <3>1. PICK n \in B : \A m \in B : n <= m
      <4>1. B \in SUBSET Nat
        OBVIOUS
      <4> HIDE DEF B
      <4> QED
        BY <2>1, <4>1, LeastNumber
    <3>2. n \in Nat /\ ~Fine(n)
      OBVIOUS
    <3>3. n # 0
      BY <1>3, <1>4, <1>9, <3>2
    <3>4. n - 1 \in Nat /\ ~(n <= n - 1) /\ n \in Nat \ {0}
      BY <3>2, <3>3
    <3>5. Fine(n - 1)
      BY <3>1, <3>4
    <3>6. look[n] = NextLook(look[n - 1], target)
      BY <1>9, <3>4
    <3> DEFINE s == look[n - 1]
               t == look[n]
    <3>7. /\ Sound(source, target, t) /\ LooksAllowed(s) \in Int
          /\ Over(t) \/ (~Over(s) /\ LooksAllowed(s) + 1 <= LooksAllowed(t))
      BY <3>5, <3>6, SearchGoesOn
    <3>8. LooksAllowed(t) \in Int
      BY <3>7, SearchGoesOn
    <3>9. Over(s) \/ n - 1 <= LooksAllowed(s)
      BY <3>5
    <3>10. ~Sound(source, target, t) \/ (~Over(t) /\ ~(n <= LooksAllowed(t)))
      BY <3>2
    <3> HIDE DEF s, t, Fine
    <3>11. ~Over(s) /\ n - 1 <= LooksAllowed(s) /\ LooksAllowed(s) + 1 <= LooksAllowed(t)
      BY <3>7, <3>9, <3>10
    <3>12. n <= LooksAllowed(t)
      BY <3>2, <3>7, <3>8, <3>11
    <3> QED
      BY <3>7, <3>10, <3>12
  <2>2. CASE B = {}
    BY <2>2
  <2> QED
    BY <2>1, <2>2
<1>11. Cardinality(Versions) \in Nat /\ most \in Nat
  BY WaysTyped
<1>12. Fine(most)
  BY <1>10, <1>11
<1> DEFINE s == look[most]
<1>13. ~(most <= LooksAllowed(s))
  <2>1. Sound(source, target, s)
    BY <1>12
  <2> HIDE DEF s, most
  <2> DEFINE k == Cardinality(Versions)
             d == Cardinality(s.visited) - Len(s.queue)
  <2>2. k \in Nat /\ d \in Int /\ d <= k /\ Len(s.rest) \in Nat
    <3>1. /\ s.visited \in SUBSET Registered /\ Len(s.queue) \in Nat /\ Len(s.rest) \in Nat
      BY <2>1 DEF Sound, Searches
    <3>2. IsFiniteSet(Registered) /\ k \in Nat /\ Cardinality(Registered) <= k
          /\ Cardinality(Registered) \in Nat
      BY WaysTyped
    <3>3. Cardinality(s.visited) \in Nat /\ Cardinality(s.visited) <= Cardinality(Registered)
      BY <3>1, <3>2, FS_Subset, FS_CardinalityType
    <3> HIDE DEF k
    <3> QED
      BY <3>1, <3>2, <3>3
  <2>3. LooksAllowed(s) = d * (k + 1) - 1 - Len(s.rest) /\ most = k * (k + 1)
    BY DEF LooksAllowed, most
  <2> HIDE DEF k, d
  <2>4. d * (k + 1) <= k * (k + 1) /\ d * (k + 1) \in Int /\ k * (k + 1) \in Int
    BY <2>2
  <2> DEFINE a == d * (k + 1)
             b == k * (k + 1)
  <2>5. LooksAllowed(s) = a - 1 - Len(s.rest) /\ most = b /\ a <= b /\ a \in Int /\ b \in Int
    BY <2>3, <2>4
  <2> HIDE DEF a, b
  <2> QED
    BY <2>2, <2>5
<1>14. Sound(source, target, s) /\ Over(s)
  BY <1>12, <1>13
<1> QED
  BY <1>1, <1>14

\* The search finds a shortest way, and one whenever there is one.
LEMMA ShortestIsFound ==
    ASSUME ApiVersionsAssumption, Network, NEW source \in Registered, NEW target \in Versions
    PROVE  LET p == FindMigrationPath(source, target) IN
           /\ p \in Seq(Registered) /\ Len(p) = Shortest(source, target)
           /\ p # <<>> => p[1] = source /\ Last(p) = target /\ Leading(p)
<1> DEFINE p == FindMigrationPath(source, target)
           near == {n \in 0 .. Cardinality(Registered) - 1 : target \in Reached(source)[n]}
<1>1. Shortest(source, target) = IF near = {} THEN 0 ELSE 1 + Min(near)
  BY DEF Shortest
<1>2. IsFiniteSet(Registered) /\ Cardinality(Registered) \in Nat \ {0}
  BY WaysTyped
<1>3. ASSUME WayTo(source, p), Last(p) = target
      PROVE  /\ p \in Seq(Registered) /\ Len(p) = Shortest(source, target)
             /\ p # <<>> => p[1] = source /\ Last(p) = target /\ Leading(p)
  <2> HIDE DEF p
  <2>1. p \in Seq(Registered) /\ p # <<>> /\ p[1] = source /\ IsInjective(p) /\ Leading(p)
    BY <1>3 DEF WayTo
  <2>2. Len(p) \in Nat \ {0} /\ Len(p) <= Cardinality(Registered)
    BY <1>2, <2>1, InjectiveBounded
  <2>3. Len(p) - 1 \in near /\ \A n \in near : Len(p) - 1 <= n
    <3>1. target \in Reached(source)[Len(p) - 1]
      BY <1>3 DEF WayTo
    <3>2. Len(p) - 1 \in near
      BY <1>2, <2>2, <3>1
    <3>3. ASSUME NEW n \in near PROVE Len(p) - 1 <= n
      <4>1. n \in Nat /\ target \in Reached(source)[n]
        BY <1>2
      <4>2. ~(n < Len(p) - 1)
        BY <1>3, <4>1 DEF WayTo
      <4> QED
        BY <2>2, <4>1, <4>2
    <3> QED
      BY <3>2, <3>3
  <2>4. near \in SUBSET Nat
    BY <1>2
  <2> HIDE DEF near
  <2>5. Min(near) = Len(p) - 1
    <3> DEFINE m == Min(near)
    <3>1. m \in near /\ \A n \in near : m <= n
      BY <2>3 DEF Min
    <3>2. m <= Len(p) - 1 /\ Len(p) - 1 <= m /\ m \in Nat
      BY <2>3, <2>4, <3>1
    <3> HIDE DEF m
    <3>3. m = Len(p) - 1
      BY <2>2, <3>2
    <3> QED
      BY <3>3 DEF m
  <2>6. Shortest(source, target) = Len(p)
    BY <1>1, <2>2, <2>3, <2>5
  <2> QED
    BY <1>3, <2>1, <2>6
<1>4. CASE source = target
  <2>1. p = <<source>>
    BY <1>4 DEF FindMigrationPath
  <2>2. WayTo(source, p) /\ Last(p) = target
    BY <1>4, <2>1, WayStarts
  <2> QED
    BY <1>3, <2>2
<1>5. CASE source # target
  <2>1. PICK s : p = s.found /\ Sound(source, target, s) /\ Over(s)
    BY <1>5, SearchEnds
  <2>2. CASE Found(source, target, s)
    BY <1>3, <2>1, <2>2 DEF Found
  <2>3. CASE Looking(source, target, s)
    <3>1. p = <<>> /\ s.rest = <<>> /\ s.queue = <<>>
      BY <2>1, <2>3 DEF Looking, Over
    <3>2. \A u \in s.visited : ToSet(Ways(u)) \subseteq s.visited
      <4>1. \A v : ~(v \in ToSet(s.rest))
        BY <3>1 DEF ToSet
      <4>2. \A i : ~(i \in 1 .. Len(s.queue))
        BY <3>1
      <4> QED
        BY <2>3, <4>1, <4>2 DEF Looking
    <3>3. source \in s.visited /\ target \notin s.visited
      <4>1. s.path \in Seq(Registered) /\ s.path # <<>> /\ s.path[1] = source
            /\ ToSet(s.path) \subseteq s.visited
        BY <2>3 DEF Looking, WayTo
      <4>2. 1 \in DOMAIN s.path
        BY <4>1
      <4> QED
        BY <2>3, <4>1, <4>2 DEF Looking, ToSet
    <3>4. \A n \in Nat : Reached(source)[n] \subseteq s.visited
      <4> DEFINE B == {n \in Nat : ~(Reached(source)[n] \subseteq s.visited)}
      <4>1. CASE B # {}
        <5>1. PICK n \in B : \A m \in B : n <= m
          <6>1. B \in SUBSET Nat
            OBVIOUS
          <6> HIDE DEF B
          <6> QED
            BY <4>1, <6>1, LeastNumber
        <5>2. n \in Nat /\ ~(Reached(source)[n] \subseteq s.visited)
          OBVIOUS
        <5>3. n # 0
          BY <3>3, <5>2, ReachedUnfolds
        <5>4. n - 1 \in Nat /\ ~(n <= n - 1) /\ n \in Nat \ {0}
          BY <5>2, <5>3
        <5>5. Reached(source)[n - 1] \subseteq s.visited
          BY <5>1, <5>4
        <5>6. Reached(source)[n] = Reached(source)[n - 1]
                    \cup UNION {ToSet(Ways(v)) : v \in Reached(source)[n - 1]}
          BY <5>4, ReachedUnfolds
        <5> QED
          BY <3>2, <5>2, <5>5, <5>6
      <4>2. CASE B = {}
        BY <4>2
      <4> QED
        BY <4>1, <4>2
    <3>5. near = {}
      BY <1>2, <3>3, <3>4
    <3> QED
      BY <1>1, <3>1, <3>5
  <2> QED
    BY <2>1, <2>2, <2>3 DEF Sound
<1> QED
  BY <1>4, <1>5

MigrationCalls ==
    [step : {"request", "response", "over"}, kind : {"request", "response"},
     path : Seq(Registered), left : Nat, source : Versions, version : Versions,
     sent : Versions, target : Versions, least : Nat]

\* How far a call has come is what is left of its path.
UnderWay(c) ==
    /\ c.step \in {"request", "response"} => c.kind = c.step /\ c.left \in 1 .. Len(c.path) - 1
    /\ c.left < Len(c.path) \/ (c.left = 0 /\ c.path = <<>>)
    /\ Len(c.path) = c.least
    /\ c.path # <<>> => c.path[1] = c.source /\ Last(c.path) = c.target
    /\ \A i \in 1 .. Len(c.path) - 1 : c.path[i + 1] \in ToSet(migrations[c.path[i]])
    /\ c.kind = "request" =>
         c.version = IF c.left < Len(c.path) - 1 THEN c.path[Len(c.path) - c.left] ELSE c.sent

MigrationsInv ==
    /\ Network /\ default \in Registered /\ supported = Registered \ Retired
    /\ migrating = NoMigration \/ (migrating \in MigrationCalls /\ UnderWay(migrating))

LEMMA MigrationStarts ==
    ASSUME ApiVersionsAssumption, MigrationsInv, NEW kind \in {"request", "response"},
           NEW source \in Registered, NEW sent \in Versions, NEW target \in Versions,
           SetsOut(kind, FindMigrationPath(source, target), source, sent, target), Stay
    PROVE  MigrationsInv'
<1> DEFINE p == FindMigrationPath(source, target)
           least == Shortest(source, target)
           left == IF p = <<>> THEN 0 ELSE Len(p) - 1
           c == [step |-> IF Len(p) > 1 THEN kind ELSE "over", kind |-> kind,
                 path |-> p, left |-> left, source |-> source, version |-> sent,
                 sent |-> sent, target |-> target, least |-> least]
<1>1. migrating' = c
  BY DEF SetsOut
<1>2. /\ p \in Seq(Registered) /\ Len(p) = least
      /\ p # <<>> => p[1] = source /\ Last(p) = target /\ Leading(p)
  BY ShortestIsFound DEF MigrationsInv
<1> HIDE DEF p, least
<1>3. Len(p) \in Nat /\ left \in Nat /\ (p = <<>> <=> Len(p) = 0) /\ least \in Nat
  BY <1>2
<1>4. Registered \subseteq Versions
  BY DEF MigrationsInv, Network
<1>5. c \in MigrationCalls
  BY <1>2, <1>3, <1>4 DEF MigrationCalls
<1>6. UnderWay(c)
  <2>1. \A i \in 1 .. Len(p) - 1 : p[i + 1] \in ToSet(migrations[p[i]])
    <3>1. ASSUME NEW i \in 1 .. Len(p) - 1 PROVE p[i + 1] \in ToSet(migrations[p[i]])
      <4>1. p[i] \in Registered /\ p # <<>>
        BY <1>2, <1>3
      <4>2. p[i + 1] \in ToSet(Ways(p[i]))
        BY <1>2, <4>1 DEF Leading
      <4> QED
        BY <4>1, <4>2 DEF Ways
    <3> QED
      BY <3>1
  <2>2. p # <<>> => left = Len(p) - 1 /\ Len(p) - left = 1 /\ Len(p) > 0
    BY <1>3
  <2>3. ~(left < Len(p) - 1)
    BY <1>3, <2>2
  <2>4. /\ c.step = (IF Len(p) > 1 THEN kind ELSE "over") /\ c.kind = kind /\ c.path = p /\ c.left = left
        /\ c.source = source /\ c.version = sent /\ c.sent = sent /\ c.target = target
        /\ c.least = least
    OBVIOUS
  <2>5. Len(p) > 1 => left \in 1 .. Len(p) - 1
    BY <1>3, <2>2
  <2>6. left < Len(p) \/ (left = 0 /\ p = <<>>)
    BY <1>3
  <2>7. kind # "over"
    OBVIOUS
  <2> HIDE DEF c, left
  <2> QED
    BY <1>2, <2>1, <2>2, <2>3, <2>4, <2>5, <2>6, <2>7 DEF UnderWay
<1> HIDE DEF c
<1>7. (migrating \in MigrationCalls /\ UnderWay(migrating))'
  BY <1>1, <1>5, <1>6 DEF MigrationCalls, UnderWay, Stay, Registered
<1> QED
  BY <1>7 DEF MigrationsInv, Network, Stay, Registered

\* One migration of a call under way, or its failure.
LEMMA MigrationGoesOn ==
    ASSUME ApiVersionsAssumption, MigrationsInv, RequestMigrates \/ ResponseMigrates \/ MigrationFails
    PROVE  MigrationsInv'
<1>1. migrating.step \in {"request", "response"} /\ Stay
  BY DEF RequestMigrates, ResponseMigrates, MigrationFails
<1>2. migrating \in MigrationCalls /\ UnderWay(migrating)
  BY <1>1 DEF MigrationsInv, NoMigration
<1>3. /\ migrating.path \in Seq(Registered) /\ Len(migrating.path) \in Nat /\ migrating.left \in 1 .. Len(migrating.path) - 1
      /\ migrating.path # <<>> /\ migrating.kind = migrating.step /\ Registered \subseteq Versions
  BY <1>1, <1>2 DEF MigrationCalls, UnderWay, MigrationsInv, Network
<1>4. migrating' \in MigrationCalls /\ UnderWay(migrating')
  <2>1. CASE MigrationFails
    <3>1. migrating' = [migrating EXCEPT !.step = "over"]
      BY <2>1 DEF MigrationFails
    <3>2. migrating' \in MigrationCalls
      BY <1>2, <3>1 DEF MigrationCalls
    <3>3. /\ migrating'.step = "over" /\ migrating'.kind = migrating.kind /\ migrating'.path = migrating.path /\ migrating'.left = migrating.left
          /\ migrating'.source = migrating.source /\ migrating'.version = migrating.version /\ migrating'.target = migrating.target
          /\ migrating'.sent = migrating.sent /\ migrating'.least = migrating.least
      BY <1>2, <3>1 DEF MigrationCalls
    <3> QED
      BY <1>2, <3>2, <3>3 DEF UnderWay
  <2>2. ASSUME NEW version \in Versions, Passes(version),
               migrating.kind = "request" => version = migrating.path[Len(migrating.path) - (migrating.left - 1)]
        PROVE  migrating' \in MigrationCalls /\ UnderWay(migrating')
    <3>1. migrating' = [migrating EXCEPT !.left = migrating.left - 1, !.version = version,
                                    !.step = IF migrating.left = 1 THEN "over" ELSE migrating.step]
      BY <1>2, <2>2 DEF Passes, MigrationCalls
    <3>2. migrating.left - 1 \in Nat /\ (migrating.left # 1 => migrating.left - 1 \in 1 .. Len(migrating.path) - 1)
          /\ migrating.left - 1 < Len(migrating.path) - 1
      BY <1>3
    <3>3. migrating' \in MigrationCalls
      BY <1>2, <3>1, <3>2 DEF MigrationCalls
    <3>4. /\ migrating'.step = (IF migrating.left = 1 THEN "over" ELSE migrating.step) /\ migrating'.kind = migrating.kind
          /\ migrating'.path = migrating.path /\ migrating'.left = migrating.left - 1
          /\ migrating'.source = migrating.source /\ migrating'.version = version /\ migrating'.target = migrating.target
          /\ migrating'.sent = migrating.sent /\ migrating'.least = migrating.least
      BY <1>2, <3>1 DEF MigrationCalls
    <3>5. migrating.kind \in {"request", "response"} /\ migrating.left - 1 < Len(migrating.path)
      BY <1>2, <1>3, <3>2 DEF MigrationCalls
    <3>6. UnderWay(migrating) /\ migrating.kind = migrating.step
      BY <1>2, <1>3
    <3> QED
      BY <1>3, <2>2, <3>2, <3>3, <3>4, <3>5, <3>6 DEF UnderWay
  <2>3. CASE RequestMigrates
    <3>1. /\ migrating.step = "request" /\ Passes(migrating.path[Len(migrating.path) - migrating.left + 1])
          /\ Len(migrating.path) - migrating.left + 1 = Len(migrating.path) - (migrating.left - 1)
          /\ Len(migrating.path) - migrating.left + 1 \in 1 .. Len(migrating.path)
      BY <1>3, <2>3 DEF RequestMigrates
    <3>2. migrating.path[Len(migrating.path) - migrating.left + 1] \in Versions
      BY <1>3, <3>1
    <3> QED
      BY <1>3, <2>2, <3>1, <3>2
  <2>4. CASE ResponseMigrates
    <3>1. migrating.step = "response" /\ Passes(migrating.path[migrating.left]) /\ migrating.left \in 1 .. Len(migrating.path)
      BY <1>3, <2>4 DEF ResponseMigrates
    <3>2. migrating.path[migrating.left] \in Versions
      BY <1>3, <3>1
    <3> QED
      BY <1>3, <2>2, <3>1, <3>2
  <2> QED
    BY <2>1, <2>3, <2>4
<1>5. (migrating \in MigrationCalls /\ UnderWay(migrating))'
  BY <1>1, <1>4 DEF MigrationCalls, UnderWay, Stay, Registered
<1> QED
  BY <1>1, <1>5 DEF MigrationsInv, Network, Stay, Registered

\* What grows meanwhile is the network alone: calls under way stay on their
\* path, since no migration is taken back.
LEMMA NetworkGrows ==
    ASSUME MigrationsInv, Network', UNCHANGED migrating, Registered \subseteq Registered',
           \A v \in Registered : ToSet(migrations[v]) \subseteq ToSet(migrations'[v])
    PROVE  (migrating = NoMigration \/ (migrating \in MigrationCalls /\ UnderWay(migrating)))'
<1>1. CASE migrating = NoMigration
  BY <1>1 DEF NoMigration
<1>2. CASE migrating \in MigrationCalls /\ UnderWay(migrating)
  <2>1. migrating.path \in Seq(Registered)
    BY <1>2 DEF MigrationCalls
  <2>2. \A i \in 1 .. Len(migrating.path) - 1 : migrating.path[i] \in Registered
    BY <2>1
  <2>3. migrating.path \in Seq(Registered')
    <3>1. \A i \in 1 .. Len(migrating.path) : migrating.path[i] \in Registered'
      BY <2>1
    <3> QED
      BY <2>1, <3>1
  <2>4. (migrating \in MigrationCalls)'
    BY <1>2, <2>3 DEF MigrationCalls
  <2>5. \A i \in 1 .. Len(migrating.path) - 1 : migrating.path[i + 1] \in ToSet(migrations'[migrating.path[i]])
    BY <1>2, <2>2 DEF UnderWay
  <2>6. UnderWay(migrating)'
    BY <1>2, <2>5 DEF UnderWay
  <2> QED
    BY <2>4, <2>6
<1> QED
  BY <1>1, <1>2 DEF MigrationsInv

LEMMA NetworkRegisters ==
    ASSUME ApiVersionsAssumption, MigrationsInv, NEW v \in Versions, RegisterVersion(v)
    PROVE  MigrationsInv'
<1> DEFINE R == Registered \cup {v}
           m == [u \in R |-> IF u = v THEN <<>> ELSE migrations[u]]
<1>1. v \notin Registered /\ migrations' = m /\ UNCHANGED migrating /\ UNCHANGED default
      /\ supported' = IF v \in Retired THEN supported ELSE supported \cup {v}
  BY DEF RegisterVersion
<1>2. DOMAIN m = R
  OBVIOUS
<1>3. m[v] = <<>> /\ \A u \in Registered : m[u] = migrations[u]
  BY <1>1
<1>4. ASSUME NEW u \in R PROVE m[u] \in Seq(R) /\ IsInjective(m[u])
  <2>1. CASE u = v
    BY <1>3, <2>1 DEF IsInjective
  <2>2. CASE u # v
    <3>1. migrations[u] \in Seq(Registered) /\ IsInjective(migrations[u]) /\ m[u] = migrations[u]
      BY <1>3, <2>2 DEF MigrationsInv, Network
    <3>2. migrations[u] \in Seq(R)
      BY <3>1
    <3> QED
      BY <3>1, <3>2
  <2> QED
    BY <2>1, <2>2
<1>5. m = [u \in R |-> m[u]]
  OBVIOUS
<1> HIDE DEF m
<1>6. Registered' = R
  BY <1>1, <1>2 DEF Registered
<1> HIDE DEF R
<1>7. Network'
  <2>1. V1 \in R /\ R \subseteq Versions
    BY DEF MigrationsInv, Network, R
  <2> QED
    BY <1>1, <1>4, <1>5, <1>6, <2>1 DEF Network
<1>8. Registered \subseteq Registered'
  BY <1>6 DEF R
<1>9. \A u \in Registered : ToSet(migrations[u]) \subseteq ToSet(migrations'[u])
  BY <1>1, <1>3
<1>10. (default \in Registered /\ supported = Registered \ Retired)'
  BY <1>1, <1>6 DEF MigrationsInv, R
<1> QED
  BY <1>1, <1>7, <1>8, <1>9, <1>10, NetworkGrows DEF MigrationsInv

LEMMA NetworkLeads ==
    ASSUME ApiVersionsAssumption, MigrationsInv, NEW from, NEW to, RegisterMigration(from, to)
    PROVE  MigrationsInv'
<1>1. /\ from \in Registered /\ to \in Registered /\ to \notin ToSet(migrations[from])
      /\ migrations' = [migrations EXCEPT ![from] = Append(migrations[from], to)]
      /\ UNCHANGED <<supported, default, migrating>>
  BY DEF RegisterMigration
<1>2. /\ migrations = [v \in Registered |-> migrations[v]]
      /\ \A v \in Registered : migrations[v] \in Seq(Registered) /\ IsInjective(migrations[v])
  BY DEF MigrationsInv, Network
<1> DEFINE a == Append(migrations[from], to)
<1>3. a \in Seq(Registered) /\ IsInjective(a) /\ ToSet(a) = ToSet(migrations[from]) \cup {to}
  BY <1>1, <1>2, OneAdded
<1> HIDE DEF a
<1>4. /\ DOMAIN migrations' = Registered
      /\ migrations' = [v \in Registered |-> migrations'[v]]
      /\ \A v \in Registered : migrations'[v] = IF v = from THEN a ELSE migrations[v]
  BY <1>1, <1>2 DEF a, Registered
<1>5. Registered' = Registered
  BY <1>4 DEF Registered
<1>6. Network'
  <2>1. \A v \in Registered : migrations'[v] \in Seq(Registered) /\ IsInjective(migrations'[v])
    BY <1>2, <1>3, <1>4
  <2> QED
    BY <1>4, <1>5, <2>1 DEF MigrationsInv, Network
<1>7. \A v \in Registered : ToSet(migrations[v]) \subseteq ToSet(migrations'[v])
  BY <1>3, <1>4
<1>8. (default \in Registered /\ supported = Registered \ Retired)'
  BY <1>1, <1>5 DEF MigrationsInv
<1> QED
  BY <1>1, <1>5, <1>6, <1>7, <1>8, NetworkGrows DEF MigrationsInv

\* What a request is migrated from is a registered version.
LEMMA ExtractsRegistered ==
    ASSUME ApiVersionsAssumption, MigrationsInv, NEW request \in Incoming
    PROVE  ExtractVersion(request) \in Registered
<1> DEFINE named == {i \in DOMAIN request : request[i] \in supported}
<1>1. CASE named = {}
  BY <1>1 DEF ExtractVersion, MigrationsInv
<1>2. CASE named # {}
  <2>1. request \in Seq(Versions)
    BY DEF ApiVersionsAssumption
  <2>2. named \in SUBSET Nat
    BY <2>1
  <2>3. Min(named) \in named
    <3> HIDE DEF named
    <3>1. \E k \in named : \A j \in named : k <= j
      BY <1>2, <2>2, LeastNumber
    <3> QED
      BY <3>1 DEF Min
  <2>4. ExtractVersion(request) = request[Min(named)]
    BY <1>2 DEF ExtractVersion
  <2> QED
    BY <2>3, <2>4 DEF MigrationsInv
<1> QED
  BY <1>1, <1>2

\* The invariant holds in every state, for any versions, migrations and
\* requests.
THEOREM MigrationsInvariant ==
    ASSUME ApiVersionsAssumption
    PROVE  VersionsSpec => []MigrationsInv
<1>1. VersionsInit => MigrationsInv
  <2> SUFFICES ASSUME VersionsInit PROVE MigrationsInv
    OBVIOUS
  <2>1. /\ Registered = {V1} /\ migrations[V1] = <<>> /\ supported = {V1} /\ default = V1
        /\ migrations = [v \in {V1} |-> migrations[v]] /\ migrating = NoMigration
    BY DEF VersionsInit, Registered
  <2>2. V1 \in Versions /\ V1 \notin Retired
    BY DEF ApiVersionsAssumption
  <2>3. <<>> \in Seq(Registered) /\ IsInjective(<<>>)
    BY DEF IsInjective
  <2> QED
    BY <2>1, <2>2, <2>3 DEF MigrationsInv, Network
<1>2. MigrationsInv /\ [VersionsNext]_versionVars => MigrationsInv'
  <2> SUFFICES ASSUME MigrationsInv, [VersionsNext]_versionVars PROVE MigrationsInv'
    OBVIOUS
  <2>1. ASSUME NEW v \in Versions, RegisterVersion(v) PROVE MigrationsInv'
    BY <2>1, NetworkRegisters
  <2>2. ASSUME NEW v \in Versions, SetDefaultVersion(v) PROVE MigrationsInv'
    BY <2>2 DEF SetDefaultVersion, MigrationsInv, Network, Registered, NoMigration, MigrationCalls, UnderWay
  <2>3. ASSUME NEW s \in Steps, RegisterMigration(s[1], s[2]) PROVE MigrationsInv'
    BY <2>3, NetworkLeads
  <2>4. ASSUME NEW r \in Incoming, NEW t \in Targets, MigrateRequest(r, t) PROVE MigrationsInv'
    <3>1. ExtractVersion(r) \in Registered /\ t \in Versions
      BY ExtractsRegistered DEF ApiVersionsAssumption
    <3> DEFINE source == ExtractVersion(r)  sent == r[1]
    <3>2. SetsOut("request", FindMigrationPath(source, t), source, sent, t) /\ Stay
      BY <2>4 DEF MigrateRequest
    <3>3. source \in Registered /\ sent \in Versions
      <4>1. r \in Seq(Versions) /\ r # <<>>
        BY DEF ApiVersionsAssumption
      <4>2. r[1] \in Versions
        BY <4>1
      <4> QED
        BY <3>1, <4>2
    <3> HIDE DEF source, sent
    <3> QED
      BY <3>1, <3>2, <3>3, MigrationStarts
  <2>5. ASSUME NEW s \in supported, NEW t \in Targets, MigrateResponse(s, t) PROVE MigrationsInv'
    <3>1. s \in Registered /\ s \in Versions /\ t \in Versions
      BY DEF ApiVersionsAssumption, MigrationsInv, Network
    <3> QED
      BY <2>5, <3>1, MigrationStarts DEF MigrateResponse
  <2>6. CASE RequestMigrates \/ ResponseMigrates \/ MigrationFails
    BY <2>6, MigrationGoesOn
  <2>7. CASE UNCHANGED versionVars
    BY <2>7 DEF versionVars, MigrationsInv, Network, Registered, NoMigration, MigrationCalls, UnderWay
  <2> QED
    BY <2>1, <2>2, <2>3, <2>4, <2>5, <2>6, <2>7 DEF VersionsNext
<1> QED
  BY <1>1, <1>2, PTL DEF VersionsSpec

\* A request or a response goes along registered migrations, by as few of them
\* as there could be when it set out, between the version asked for and the one
\* it was taken for; a request bears the version of the last migration it
\* passed, or the one it was sent with (versioning.py, migrate_request,
\* migrate_response and _find_migration_path).
THEOREM MigrationsTakeTheShortestWay ==
    ASSUME ApiVersionsAssumption
    PROVE  VersionsSpec => [](VersionsTypeOK /\ MigratesByTheShortestWay)
<1>1. MigrationsInv => VersionsTypeOK /\ MigratesByTheShortestWay
  <2> SUFFICES ASSUME MigrationsInv PROVE VersionsTypeOK /\ MigratesByTheShortestWay
    OBVIOUS
  <2>1. VersionsTypeOK
    <3>1. \A v \in Registered : IsInjective(migrations[v]) /\ ToSet(migrations[v]) \subseteq Registered
      BY DEF MigrationsInv, Network, ToSet
    <3>2. {V1, default} \subseteq Registered /\ Registered \subseteq Versions /\ supported = Registered \ Retired
      BY DEF MigrationsInv, Network
    <3>3. migrating # NoMigration =>
            /\ migrating.step \in {"request", "response", "over"}
            /\ {migrating.source, migrating.sent, migrating.version, migrating.target} \subseteq Versions
      BY DEF MigrationsInv, MigrationCalls
    <3> QED
      BY <3>1, <3>2, <3>3 DEF VersionsTypeOK
  <2>2. MigratesByTheShortestWay
    BY DEF MigrationsInv, UnderWay, MigratesByTheShortestWay
  <2> QED
    BY <2>1, <2>2
<1> QED
  BY <1>1, MigrationsInvariant, PTL
=============================================================================

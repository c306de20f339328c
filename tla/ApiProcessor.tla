---------------------------- MODULE ApiProcessor ----------------------------
(***************************************************************************)
(* One API processor with a cache (core/interfaces/api_processor.py), on   *)
(* requests of one key, used by several threads as process_batch uses its  *)
(* own.  A cached response does not end the processing: the API is called  *)
(* all the same, and the cached response stands when that gives up.        *)
(* Every attempt enters and leaves the one client object all share, which  *)
(* replaces its httpx client and closes whichever is there.                *)
(***************************************************************************)
EXTENDS Naturals

CONSTANTS
    Threads,
    Ttl,            \* cache_ttl_seconds
    MaxRetries,     \* api_client.max_retries
    MaxTime

ApiProcessorAssumption == Ttl \in Nat \ {0} /\ MaxRetries \in Nat /\ MaxTime \in Nat

VARIABLES
    now,
    entry,          \* the cached response: when stored, and when first stored
    sweeping,       \* clear_expired_cache has found it expired
    clientOpen,     \* the httpx client in api_client.client is open
    work            \* per thread, its context
apiProcessorVars == <<now, entry, sweeping, clientOpen, work>>

NoEntry == [stamp |-> MaxTime + 1, first |-> MaxTime + 1]
Cached == entry # NoEntry
Young(t) == t < entry.stamp + Ttl

\* success, and a raw_response of the cache: when it was first stored, and
\* whether that was too long ago when it was looked up.
NoWork == [at |-> "off", success |-> FALSE, fromCache |-> FALSE, first |-> 0, late |-> FALSE,
           attempt |-> 0, alone |-> TRUE, cutOff |-> FALSE]
ApiProcessorInit ==
    /\ now = 0 /\ entry = NoEntry
    /\ sweeping = FALSE /\ clientOpen = FALSE
    /\ work = [t \in Threads |-> NoWork]

Active == {t \in Threads : work[t].at # "off"}
WorkBecomes(t, w) == work' = [work EXCEPT ![t] = w]
Ended(w) == [NoWork EXCEPT !.alone = w.alone, !.cutOff = w.cutOff]
KeepsCache == UNCHANGED <<entry, sweeping>>

-----------------------------------------------------------------------------
\* process, up to "cache_key in self._cache".
Look(t) ==
    /\ t \notin Active
    /\ work' = [u \in Threads |->
         IF u = t THEN [NoWork EXCEPT !.at = IF Cached THEN "read" ELSE "enter",
                                      !.alone = Active = {}]
         ELSE [work[u] EXCEPT !.alone = @ /\ u \notin Active]]
    /\ KeepsCache /\ UNCHANGED <<now, clientOpen>>

\* self._cache[cache_key]: a KeyError, and the end, if it was cleared since.
Read(t) ==
    LET w == work[t] IN
    /\ w.at = "read"
    /\ WorkBecomes(t, IF ~Cached THEN Ended(w)
                      ELSE IF Young(now)
                      THEN [w EXCEPT !.at = "enter", !.success = TRUE, !.fromCache = TRUE,
                                     !.first = entry.first, !.late = now >= entry.first + Ttl]
                      ELSE [w EXCEPT !.at = "enter"])
    /\ KeepsCache /\ UNCHANGED <<now, clientOpen>>

EnterOnce(t) ==   \* as if a retry kept the client of the first attempt
    /\ work[t].at = "enter"
    /\ clientOpen' = (clientOpen \/ work[t].attempt = 0)
    /\ WorkBecomes(t, [work[t] EXCEPT !.at = "entered"])
    /\ KeepsCache /\ UNCHANGED now

\* __enter__ of an attempt.  The client it replaces, if another thread is
\* still within, is never closed.
Enter(t) ==
    /\ work[t].at = "enter"
    /\ clientOpen' = TRUE
    /\ WorkBecomes(t, [work[t] EXCEPT !.at = "entered"])
    /\ KeepsCache /\ UNCHANGED now

\* After a failed attempt: another one, or what the cache gave.
FailsOnce(w, again) ==
    IF again /\ w.attempt < MaxRetries
    THEN [w EXCEPT !.at = "enter", !.attempt = @ + 1]
    ELSE IF w.success THEN [w EXCEPT !.at = "finish"] ELSE Ended(w)
Exit == clientOpen' = FALSE

\* The request is sent with the client that is there by now; on a closed
\* one it fails as a server error does.
Ask(t) ==
    LET w == work[t] IN
    /\ w.at = "entered"
    /\ IF clientOpen
       THEN WorkBecomes(t, [w EXCEPT !.at = "asking"]) /\ UNCHANGED clientOpen
       ELSE WorkBecomes(t, FailsOnce([w EXCEPT !.cutOff = TRUE], TRUE)) /\ Exit
    /\ KeepsCache /\ UNCHANGED now

\* The response, then __exit__.  A client closed by another thread in the
\* meantime may fail the request or not.
Answer(t, result) ==
    LET w == work[t] IN
    /\ w.at = "asking"
    /\ WorkBecomes(t, IF result = "ok"
                      THEN [w EXCEPT !.at = "finish", !.success = TRUE,
                                     !.first = IF w.fromCache THEN now ELSE 0]
                      ELSE FailsOnce(w, result = "retryable"))
    /\ Exit
    /\ KeepsCache /\ UNCHANGED now

FinishAlways(t, valid) ==   \* as if from_cache were not looked at
    LET w == work[t] IN
    /\ w.at = "finish"
    /\ WorkBecomes(t, Ended(w))
    /\ entry' = IF valid THEN [stamp |-> now, first |-> IF w.fromCache THEN w.first ELSE now]
                ELSE entry
    /\ UNCHANGED <<now, sweeping, clientOpen>>

\* Post-processing, transformation and validation, which may fail, then
\* _finalize_processing.  What came after a cached response is not stored.
Finish(t, valid) ==
    LET w == work[t] IN
    /\ w.at = "finish"
    /\ WorkBecomes(t, Ended(w))
    /\ entry' = IF valid /\ ~w.fromCache THEN [stamp |-> now, first |-> now] ELSE entry
    /\ UNCHANGED <<now, sweeping, clientOpen>>

ClearEntries == entry' = NoEntry /\ UNCHANGED <<now, sweeping, clientOpen, work>>

\* clear_expired_cache, which finds the expired keys and then deletes them.
FindExpired ==
    /\ ~sweeping /\ Cached /\ ~Young(now)
    /\ sweeping' = TRUE
    /\ UNCHANGED <<now, entry, clientOpen, work>>
DeleteExpired ==
    /\ sweeping
    /\ sweeping' = FALSE /\ entry' = NoEntry
    /\ UNCHANGED <<now, clientOpen, work>>

Tick == now < MaxTime /\ now' = now + 1 /\ KeepsCache /\ UNCHANGED <<clientOpen, work>>

ApiProcessorNext ==
    \/ \E t \in Threads : Look(t) \/ Read(t) \/ Enter(t) \/ Ask(t)
    \/ \E t \in Threads, result \in {"ok", "retryable", "refused"} : Answer(t, result)
    \/ \E t \in Threads, valid \in BOOLEAN : Finish(t, valid)
    \/ ClearEntries \/ FindExpired \/ DeleteExpired \/ Tick
ApiProcessorSpec == ApiProcessorInit /\ [][ApiProcessorNext]_apiProcessorVars

-----------------------------------------------------------------------------
ApiProcessorTypeOK ==
    /\ now \in 0 .. MaxTime
    /\ entry \in [stamp : 0 .. MaxTime + 1, first : 0 .. MaxTime + 1]
    /\ {sweeping, clientOpen} \subseteq BOOLEAN
    /\ work \in [Threads ->
         [at : {"off", "read", "enter", "entered", "asking", "finish"}, success : BOOLEAN,
          fromCache : BOOLEAN, first : 0 .. MaxTime, late : BOOLEAN,
          attempt : 0 .. MaxRetries, alone : BOOLEAN, cutOff : BOOLEAN]]

\* What the cache answers when the API gives up was first stored less than
\* the life time of an entry before it was looked up: however long the API
\* stays down and whatever threads store and clear, no answer of the cache
\* goes into it again with a new time stamp.
FallbackIsFresh == \A t \in Threads : ~work[t].late

\* A processing that no other overlapped never finds the client closed.
UndisturbedAlone == \A t \in Threads : work[t].alone => ~work[t].cutOff
=============================================================================

--------------------------- MODULE GatewayLimits ----------------------------
(***************************************************************************)
(* The rate limiter of the gateway (core/api_integration/rate_limiting.py) *)
(* for one key: the sliding window, the sliding window log and a quota,    *)
(* each over the storage in memory or over Redis.  Awaiting the storage in *)
(* memory never suspends, since its lock is free whenever another          *)
(* coroutine runs: a check over it is one step.  Over Redis every command  *)
(* is a step of its own.                                                   *)
(***************************************************************************)
EXTENDS Naturals, FiniteSets, Sums

CONSTANTS
    Checkers,       \* checks in progress at a time
    Limit, Window,
    LastStamp

GatewayLimitsAssumption ==
    /\ IsFiniteSet(Checkers) /\ Checkers # {}
    /\ {Limit, Window} \subseteq Nat \ {0} /\ LastStamp \in Nat

VARIABLES
    algorithm,
    overRedis,      \* the storage is Redis, else memory
    clock,
    counters,       \* per clock window, its counter
    due,            \* per clock window, when Redis lets its counter expire (0: no such key)
    log,            \* how often each time stamp is kept
    logDue,         \* when Redis lets the log expire (0: not, since a clean-up wrote it)
    checking,       \* per caller, the next command and the local variables
    admitted        \* per tick, the checks begun then that were allowed (history)
gatewayLimitVars ==
    <<algorithm, overRedis, clock, counters, due, log, logDue, checking, admitted>>

Stamps == 0 .. LastStamp
Windows == 0 .. LastStamp \div Window
WindowOf(t) == t \div Window
NoCheck == [step |-> "idle", now |-> 0, count |-> 0]

GatewayLimitsInit ==
    /\ algorithm \in {"sliding_window", "sliding_window_log", "quota"}
    /\ overRedis \in BOOLEAN
    /\ clock = 0
    /\ counters = [w \in Windows |-> 0]
    /\ log = [t \in Stamps |-> 0]
    /\ due = [w \in Windows |-> 0] /\ logDue = 0
    /\ checking = [c \in Checkers |-> NoCheck]
    /\ admitted = [t \in Stamps |-> 0]

-----------------------------------------------------------------------------
(* What the commands of the storages do.                                   *)

\* In Redis every writing gives the key its whole life again: a period of the
\* quota, two windows, or a window and a second for the log.  In memory the
\* life of a counter begins with its first writing, within its window, and ends
\* when no check reads it any more.
Life == IF algorithm = "quota" THEN Window ELSE 2 * Window
Increment(now) ==
    /\ counters' = [counters EXCEPT ![WindowOf(now)] = @ + 1]
    /\ due' = IF overRedis THEN [due EXCEPT ![WindowOf(now)] = clock + Life] ELSE due
    /\ UNCHANGED <<log, logDue>>
AddTimestamp(now) ==
    /\ log' = [log EXCEPT ![now] = @ + 1]
    /\ logDue' = clock + Window + 1
    /\ UNCHANGED <<counters, due>>
InWindow(now) == [t \in Stamps |-> IF t + Window > now THEN log[t] ELSE 0]

Previous(now) == IF WindowOf(now) = 0 THEN 0 ELSE counters[WindowOf(now) - 1]
\* The previous window weighs what is left of it.
Estimate(now, current) ==
    (Previous(now) * (Window - (now % Window)) + current * Window) \div Window

BelowOrAt(count) == count <= Limit   \* as if the comparison were off by one
Below(count) == count < Limit

Allow(now) == admitted' = [admitted EXCEPT ![now] = @ + 1]
Unchanged == UNCHANGED <<algorithm, overRedis, clock>>
Storage == <<counters, due, log, logDue>>

-----------------------------------------------------------------------------
(* A check over the storage in memory.                                     *)

SlidingWindow(now) ==
    IF Below(Estimate(now, counters[WindowOf(now)]))
    THEN Increment(now) /\ Allow(now)
    ELSE UNCHANGED <<Storage, admitted>>

SlidingWindowLog(now) ==
    IF Below(Total(InWindow(now), Stamps))
    THEN log' = [InWindow(now) EXCEPT ![now] = @ + 1] /\ Allow(now)
    ELSE log' = InWindow(now) /\ UNCHANGED admitted

CheckQuota(now) ==
    IF Below(counters[WindowOf(now)])
    THEN Increment(now) /\ Allow(now)
    ELSE UNCHANGED <<Storage, admitted>>

CheckInMemory ==
    /\ ~overRedis
    /\ \/ algorithm = "sliding_window" /\ SlidingWindow(clock)
       \/ algorithm = "sliding_window_log" /\ SlidingWindowLog(clock)
            /\ UNCHANGED <<counters, due, logDue>>
       \/ algorithm = "quota" /\ CheckQuota(clock)
    /\ Unchanged /\ UNCHANGED checking

-----------------------------------------------------------------------------
(* The same over Redis, a command at a time.                               *)

CheckGoes(c, step, now, count) ==
    /\ checking' = [checking EXCEPT ![c] = [step |-> step, now |-> now, count |-> count]]
    /\ Unchanged
CheckEnds(c) == checking' = [checking EXCEPT ![c] = NoCheck] /\ Unchanged

\* The time is taken before the first command is sent.
Begin(c) ==
    /\ overRedis /\ checking[c] = NoCheck
    /\ CheckGoes(c, "first", clock, 0)
    /\ UNCHANGED <<Storage, admitted>>

ReadCounter(c) ==
    /\ checking[c].step = "first" /\ algorithm # "sliding_window_log"
    /\ CheckGoes(c, IF algorithm = "quota" THEN "decide" ELSE "previous",
                 checking[c].now, counters[WindowOf(checking[c].now)])
    /\ UNCHANGED <<Storage, admitted>>

\* The list is deleted and what is kept pushed anew, without a life time.
CleanupExpired(c) ==
    /\ checking[c].step = "first" /\ algorithm = "sliding_window_log"
    /\ log' = InWindow(checking[c].now) /\ logDue' = 0
    /\ CheckGoes(c, "timestamps", checking[c].now, 0)
    /\ UNCHANGED <<counters, due, admitted>>

ReadPrevious(c) ==
    /\ checking[c].step = "previous"
    /\ CheckGoes(c, "decide", checking[c].now, Estimate(checking[c].now, checking[c].count))
    /\ UNCHANGED <<Storage, admitted>>

GetTimestamps(c) ==
    /\ checking[c].step = "timestamps"
    /\ CheckGoes(c, "decide", checking[c].now, Total(log, Stamps))
    /\ UNCHANGED <<Storage, admitted>>

Decide(c) ==
    /\ checking[c].step = "decide"
    /\ LET now == checking[c].now IN
       \/ /\ Below(checking[c].count)
          /\ IF algorithm = "sliding_window_log" THEN AddTimestamp(now) ELSE Increment(now)
          /\ Allow(now)
       \/ ~Below(checking[c].count) /\ UNCHANGED <<Storage, admitted>>
    /\ CheckEnds(c)

\* Keys go at some instant of the second in which they are due.
CounterExpires(w) ==
    /\ due[w] # 0 /\ clock >= due[w]
    /\ counters' = [counters EXCEPT ![w] = 0] /\ due' = [due EXCEPT ![w] = 0]
    /\ Unchanged /\ UNCHANGED <<log, logDue, checking, admitted>>

LogExpires ==
    /\ logDue # 0 /\ clock >= logDue
    /\ log' = [t \in Stamps |-> 0] /\ logDue' = 0
    /\ Unchanged /\ UNCHANGED <<counters, due, checking, admitted>>

StampAdvances ==
    /\ clock < LastStamp
    /\ \A w \in Windows : due[w] # 0 => clock < due[w]
    /\ logDue # 0 => clock < logDue
    /\ clock' = clock + 1
    /\ UNCHANGED <<algorithm, overRedis, Storage, checking, admitted>>

GatewayLimitsNext ==
    \/ CheckInMemory
    \/ \E c \in Checkers : \/ Begin(c) \/ ReadCounter(c) \/ ReadPrevious(c)
                          \/ CleanupExpired(c) \/ GetTimestamps(c) \/ Decide(c)
    \/ \E w \in Windows : CounterExpires(w)
    \/ LogExpires \/ StampAdvances
GatewayLimitsSpec == GatewayLimitsInit /\ [][GatewayLimitsNext]_gatewayLimitVars

-----------------------------------------------------------------------------
GatewayLimitsTypeOK ==
    /\ overRedis \in BOOLEAN /\ clock \in Stamps
    /\ due \in [Windows -> Nat] /\ logDue \in Nat
    /\ counters \in [Windows -> Nat] /\ log \in [Stamps -> Nat] /\ admitted \in [Stamps -> Nat]
    /\ checking \in [Checkers ->
         [step : {"idle", "first", "previous", "timestamps", "decide"}, now : Stamps, count : Nat]]

\* In memory a window gets the limit.  Over Redis a check reads and writes in
\* separate commands: callers that read at the same time all pass, one more for
\* each but the first; and when the window is over and its counter or its log
\* has expired, or another check has cleaned it, each caller whose check of it
\* is still out may pass once more.  A window never gets more than that,
\* although the life of a counter is counted from the last writing, the list of
\* a log is written anew without one, and checks may be as slow as they like.
\* The windows of the log slide, those of the counters are the clock's.
Surplus == IF overRedis THEN 2 * Cardinality(Checkers) - 1 ELSE 0
OvershootBounded ==
    \A start \in Stamps :
        (algorithm = "sliding_window_log" \/ (start % Window) = 0) =>
            Total(admitted, {t \in Stamps : start <= t /\ t < start + Window})
                <= Limit + Surplus
=============================================================================

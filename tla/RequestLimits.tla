--------------------------- MODULE RequestLimits ---------------------------
(***************************************************************************)
(* The limits on the API requests of one client address.  Every worker     *)
(* process decides once, when it starts, whether it counts in Redis, in    *)
(* its own memory, or (when Redis went away between the two pings of the   *)
(* start) not at all.  The Redis middleware counts a request in the        *)
(* current clock minute and hour before it looks at either count; the      *)
(* memory middleware keeps the times of the requests it admitted in the    *)
(* last hour.                                                              *)
(***************************************************************************)
EXTENDS Naturals, FiniteSetsExt, Sums

CONSTANTS
  Dispatchers,             \* worker processes
  PerMinute, PerHour,      \* settings.rl_per_minute, rl_per_hour
  Minute, Hour,            \* their lengths in ticks
  LastTick,                \* bound of the exploration: ticks
  MaxRequests,             \* bound of the exploration: requests in one tick
  MaxRestarts              \* bound of the exploration: restarts

LimitsAssumption ==
  /\ IsFiniteSet(Dispatchers)
  /\ {PerMinute, PerHour, Minute, Hour, LastTick, MaxRequests} \subseteq Nat \ {0}
  /\ Hour % Minute = 0 /\ Hour > Minute
  /\ MaxRestarts \in Nat

VARIABLES
  time,
  mode,          \* how each process limits
  counts,        \* Redis: requests counted in this clock minute and hour
  history,       \* process -> tick -> requests its memory holds
  byRedis, byMemory, \* tick -> requests admitted under either limit
  lifetimes,     \* starts in memory mode, restarts included
  arrived,       \* requests of this tick
  restarts

limitVars ==
  <<time, mode, counts, history, byRedis, byMemory, lifetimes, arrived, restarts>>

Modes == {"redis", "memory", "none"}
Ticks == 0 .. LastTick
None == [t \in Ticks |-> 0]

LimitsTypeOK ==
  /\ time \in Ticks
  /\ mode \in [Dispatchers -> Modes]
  /\ counts \in [minute: Nat, hour: Nat]
  /\ history \in [Dispatchers -> [Ticks -> Nat]]
  /\ {byRedis, byMemory} \subseteq [Ticks -> Nat]
  /\ lifetimes \in Nat
  /\ arrived \in 0 .. MaxRequests
  /\ restarts \in 0 .. MaxRestarts

LimitsInit ==
  /\ time = 0
  /\ mode \in [Dispatchers -> Modes]
  /\ counts = [minute |-> 0, hour |-> 0]
  /\ history = [p \in Dispatchers |-> None]
  /\ byRedis = None /\ byMemory = None
  /\ lifetimes = Cardinality({p \in Dispatchers : mode[p] = "memory"})
  /\ arrived = 0 /\ restarts = 0

Since(length) == {t \in Ticks : t <= time /\ time - t < length}

Arrives == arrived < MaxRequests /\ arrived' = arrived + 1

(* The pipeline: both keys are incremented, then compared, the minute      *)
(* first.  A refused request stays counted.                                *)
RedisDispatch(p) ==
  /\ mode[p] = "redis"
  /\ Arrives
  /\ counts' = [minute |-> counts.minute + 1, hour |-> counts.hour + 1]
  /\ byRedis' = IF counts'.minute > PerMinute \/ counts'.hour > PerHour
                THEN byRedis ELSE [byRedis EXCEPT ![time] = @ + 1]
  /\ UNCHANGED <<time, mode, history, byMemory, lifetimes, restarts>>

(* Redis fails open: the request is let through, counted or not.           *)
RedisLetsThrough(p) ==
  /\ mode[p] = "redis"
  /\ Arrives
  /\ counts' \in {counts, [minute |-> counts.minute + 1, hour |-> counts.hour + 1]}
  /\ UNCHANGED <<time, mode, history, byRedis, byMemory, lifetimes, restarts>>

(* Entries older than an hour go first.                                    *)
KeptForAMinute(p) ==   \* as if the cleaning took the shorter window
  [t \in Ticks |-> IF t \in Since(Minute) THEN history[p][t] ELSE 0]
Kept(p) == [t \in Ticks |-> IF t \in Since(Hour) THEN history[p][t] ELSE 0]

(* Only an admitted request is recorded.                                   *)
MemoryDispatch(p) ==
  LET kept == Kept(p)
      admitted == Total(kept, Since(Minute)) < PerMinute /\ Total(kept, Ticks) < PerHour
  IN  /\ mode[p] = "memory"
      /\ Arrives
      /\ history' = [history EXCEPT ![p] = IF admitted THEN [kept EXCEPT ![time] = @ + 1]
                                                       ELSE kept]
      /\ byMemory' = IF admitted THEN [byMemory EXCEPT ![time] = @ + 1] ELSE byMemory
      /\ UNCHANGED <<time, mode, counts, byRedis, lifetimes, restarts>>

(* A process that was killed starts again, in a mode Redis decides.        *)
LimiterRestarts(p, m) ==
  /\ restarts < MaxRestarts
  /\ restarts' = restarts + 1
  /\ mode' = [mode EXCEPT ![p] = m]
  /\ history' = [history EXCEPT ![p] = None]
  /\ lifetimes' = lifetimes + (IF m = "memory" THEN 1 ELSE 0)
  /\ UNCHANGED <<time, counts, byRedis, byMemory, arrived>>

(* A new clock minute or hour has a new key.                               *)
TickOn ==
  /\ time < LastTick
  /\ time' = time + 1
  /\ arrived' = 0
  /\ counts' = [minute |-> IF time' % Minute = 0 THEN 0 ELSE counts.minute,
                hour |-> IF time' % Hour = 0 THEN 0 ELSE counts.hour]
  /\ UNCHANGED <<mode, history, byRedis, byMemory, lifetimes, restarts>>

LimitsNext ==
  \/ \E p \in Dispatchers : RedisDispatch(p)
  \/ \E p \in Dispatchers : RedisLetsThrough(p)
  \/ \E p \in Dispatchers : MemoryDispatch(p)
  \/ \E p \in Dispatchers, m \in Modes : LimiterRestarts(p, m)
  \/ TickOn

LimitsSpec == LimitsInit /\ [][LimitsNext]_limitVars

-----------------------------------------------------------------------------
(* What one client gets in any stretch of time as long as a minute or an   *)
(* hour, wherever it starts: from the processes that count in Redis, at    *)
(* most twice the limit together while Redis answers, however many they    *)
(* are, because the clock windows do not slide; from the others, the limit *)
(* once for every life of a process that counts in memory, because each    *)
(* counts alone and forgets when it dies.                                  *)
Stretches(length) == {{t \in Ticks : t >= start /\ t < start + length} : start \in Ticks}
AdmissionsBounded ==
  \A window \in {<<Minute, PerMinute>>, <<Hour, PerHour>>} :
    \A T \in Stretches(window[1]) :
      /\ Total(byRedis, T) <= 2 * window[2]
      /\ Total(byMemory, T) <= lifetimes * window[2]
=============================================================================

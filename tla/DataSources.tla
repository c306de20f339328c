---------------------------- MODULE DataSources ----------------------------
(***************************************************************************)
(* The data source manager with its registry, factory and health monitor   *)
(* (core/data_sources).  All of it runs on one event loop: an action is    *)
(* the code up to the next await that may suspend, which is a health       *)
(* check, an event handler, a sleep or a wait for a cancelled task.        *)
(***************************************************************************)
EXTENDS Naturals, FiniteSets

CONSTANTS
    Callers,        \* coroutines that use the manager
    Sources,        \* data sources the plugins offer
    MaxLoops        \* bound of the exploration: background loops alive

ASSUME SourcesAssumption == MaxLoops \in Nat \ {0}

VARIABLES
    started,        \* _is_initialized
    running,        \* background loops alive, of each kind
    owned,          \* the loop the manager remembers is alive
    status,         \* source -> its status in the registry, or "absent"
    monitored,      \* _monitored_sources
    cached,         \* sources with an API client in the factory's cache
    op,             \* per caller, the operation in progress
    revived,        \* sources made active by a validation, not an activation
    raced           \* an initialization overlapped another or a shutdown
sourceVars == <<started, running, owned, status, monitored, cached, op, revived, raced>>

Loops == {"discovery", "health"}
Statuses == {"absent", "registered", "active", "inactive", "error"}
Idle == [step |-> "idle"]

SourcesInit ==
    /\ started = FALSE
    /\ running = [l \in Loops |-> 0] /\ owned = [l \in Loops |-> FALSE]
    /\ status = [s \in Sources |-> "absent"]
    /\ monitored = {} /\ cached = {} /\ revived = {}
    /\ op = [c \in Callers |-> Idle]
    /\ raced = FALSE

Goes(c, o) == op' = [op EXCEPT ![c] = o]
Becomes(s, new) ==
    /\ status' = [status EXCEPT ![s] = new]
    /\ revived' = revived \ {s}
LoopsKept == UNCHANGED <<started, running, owned>>
Doing(steps) == {c \in Callers : op[c].step \in steps}
Starting == Doing({"initializing"})
Stopping == Doing({"stopping", "deactivating"})

-----------------------------------------------------------------------------
(* Initialization and discovery                                            *)

Initialize(c) ==
    /\ op[c] = Idle /\ ~started
    /\ Goes(c, [step |-> "initializing"])
    /\ raced' = (raced \/ Starting \cup Stopping # {})
    /\ UNCHANGED <<started, running, owned, status, monitored, cached, revived>>

\* A registration that cannot create the components is rolled back, so that
\* a source may well stay absent.
RegisterFromPlugin(s) == status[s] = "absent" /\ Becomes(s, "registered")

\* One plugin at a time, with an event in between.
Discover(s) ==
    /\ Starting # {} \/ running["discovery"] > 0
    /\ RegisterFromPlugin(s)
    /\ LoopsKept /\ UNCHANGED <<monitored, cached, op, raced>>

\* Discovery is over: both loops begin.
LoopsBegin ==
    /\ \A l \in Loops : running[l] < MaxLoops
    /\ running' = [l \in Loops |-> running[l] + 1]
    /\ owned' = [l \in Loops |-> TRUE]
    /\ started' = TRUE

\* Every path ends here; the plugin manager may have refused to start.
InitializeEnds(c, success) ==
    /\ op[c].step = "initializing"
    /\ Goes(c, Idle)
    /\ IF success THEN LoopsBegin ELSE LoopsKept
    /\ UNCHANGED <<status, monitored, cached, revived, raced>>

-----------------------------------------------------------------------------
(* Activation                                                              *)

\* create_api_client of a health check, past the cache: it says so in the
\* registry when it created one, and when creating one raised.
ClientChecked == {"active", "error"}

\* create_full_stack, which when it fails half way leaves its client cached.
FullStack(s, built) == cached' \in {cached \cup {s}} \cup (IF built THEN {} ELSE {cached})

\* Up to the first health check, which is made at once.
StartMonitoring(s) ==
    /\ monitored' = monitored \cup {s}
    /\ \E checked \in ClientChecked : Becomes(s, checked)
StopMonitoring(s) == monitored' = monitored \ {s}
ClearCache(s) == cached' = cached \ {s}

\* Configuration, stack, status and monitoring.
Activated(s) ==
    \/ status[s] # "active" /\ FullStack(s, TRUE) /\ StartMonitoring(s)
    \/ status[s] # "active" /\ FullStack(s, FALSE) /\ Becomes(s, "error") /\ UNCHANGED monitored
    \/ status[s] = "active" /\ UNCHANGED <<status, monitored, cached, revived>>

Activate(c, s) ==
    /\ op[c] = Idle /\ status[s] # "absent"
    /\ Activated(s)
    /\ Goes(c, [step |-> "waiting"])
    /\ LoopsKept /\ UNCHANGED raced

\* As if the cached clients stayed.
DeactivatedOnly(s) ==
    IF status[s] = "active"
    THEN StopMonitoring(s) /\ Becomes(s, "inactive") /\ UNCHANGED cached
    ELSE UNCHANGED <<status, monitored, cached, revived>>

\* stop_monitoring never suspends, so that nothing comes between.
Deactivated(s) ==
    IF status[s] = "active"
    THEN StopMonitoring(s) /\ ClearCache(s) /\ Becomes(s, "inactive")
    ELSE UNCHANGED <<status, monitored, cached, revived>>

Deactivate(c, s) ==
    /\ op[c] = Idle /\ status[s] # "absent"
    /\ Deactivated(s)
    /\ Goes(c, [step |-> "waiting"])
    /\ LoopsKept /\ UNCHANGED raced

\* Health checks, event handlers and alert handlers return.
Returns(c) ==
    /\ op[c].step = "waiting"
    /\ Goes(c, Idle)
    /\ LoopsKept /\ UNCHANGED <<status, monitored, cached, revived, raced>>

Reload(c, s) ==
    /\ op[c] = Idle /\ status[s] # "absent"
    /\ Deactivated(s)
    /\ Goes(c, [step |-> "reloading", source |-> s])
    /\ LoopsKept /\ UNCHANGED raced

\* After a second asleep; the source may be gone or active again.
ReloadActivates(c) ==
    /\ op[c].step = "reloading"
    /\ IF status[op[c].source] = "absent"
       THEN UNCHANGED <<status, monitored, cached, revived>>
       ELSE Activated(op[c].source)
    /\ Goes(c, [step |-> "waiting"])
    /\ LoopsKept /\ UNCHANGED raced

\* The health loop goes through a copy of the monitored sources, some of
\* which may not be monitored any more.  It creates a client for an active
\* source; what it finds out beyond the status is left out.
CheckHealth(s) ==
    /\ running["health"] > 0 /\ status[s] = "active"
    /\ status' = [status EXCEPT ![s] = "error"]
    /\ revived' = revived \ {s}
    /\ LoopsKept /\ UNCHANGED <<monitored, cached, op, raced>>

\* validate_data_source creates a client, past the cache, to see if it can.
Validate(s) ==
    /\ status[s] # "absent"
    /\ \E checked \in ClientChecked : status' = [status EXCEPT ![s] = checked]
    /\ revived' = IF status'[s] = "active" /\ status[s] # "active"
                  THEN revived \cup {s} ELSE revived \ {x \in {s} : status'[x] # "active"}
    /\ LoopsKept /\ UNCHANGED <<monitored, cached, op, raced>>

Unregister(s) ==
    /\ status[s] # "absent"
    /\ Becomes(s, "absent")
    /\ LoopsKept /\ UNCHANGED <<monitored, cached, op, raced>>

-----------------------------------------------------------------------------
(* Shutdown: each remembered loop is cancelled and waited for, then every  *)
(* source that is active at that moment is deactivated, one by one.        *)

CancelledAgain(l) ==   \* as if the task were not forgotten
    /\ running' = IF owned[l] THEN [running EXCEPT ![l] = @ - 1] ELSE running
    /\ UNCHANGED owned

Cancelled(l) ==
    /\ running' = IF owned[l] THEN [running EXCEPT ![l] = @ - 1] ELSE running
    /\ owned' = [owned EXCEPT ![l] = FALSE]

Shutdown(c) ==
    /\ op[c] = Idle
    /\ Cancelled("discovery")
    /\ Goes(c, [step |-> "stopping"])
    /\ raced' = (raced \/ Starting # {})
    /\ UNCHANGED <<started, status, monitored, cached, revived>>

ShutdownStopsHealth(c) ==
    /\ op[c].step = "stopping"
    /\ Cancelled("health")
    /\ Goes(c, [step |-> "deactivating", left |-> {s \in Sources : status[s] = "active"}])
    /\ UNCHANGED <<started, status, monitored, cached, revived, raced>>

ShutdownDeactivates(c, s) ==
    /\ op[c].step = "deactivating" /\ s \in op[c].left
    /\ Deactivated(s)
    /\ Goes(c, [op[c] EXCEPT !.left = @ \ {s}])
    /\ LoopsKept /\ UNCHANGED raced

ShutdownEnds(c) ==
    /\ op[c].step = "deactivating" /\ op[c].left = {}
    /\ Goes(c, Idle)
    /\ started' = FALSE
    /\ UNCHANGED <<running, owned, status, monitored, cached, revived, raced>>

SourcesNext ==
    \/ \E c \in Callers :
         \/ Initialize(c) \/ Returns(c) \/ ReloadActivates(c)
         \/ \E success \in BOOLEAN : InitializeEnds(c, success)
         \/ Shutdown(c) \/ ShutdownStopsHealth(c) \/ ShutdownEnds(c)
         \/ \E s \in Sources :
              Activate(c, s) \/ Deactivate(c, s) \/ Reload(c, s) \/ ShutdownDeactivates(c, s)
    \/ \E s \in Sources : Discover(s) \/ CheckHealth(s) \/ Validate(s) \/ Unregister(s)
SourcesSpec == SourcesInit /\ [][SourcesNext]_sourceVars

-----------------------------------------------------------------------------
SourcesTypeOK ==
    /\ started \in BOOLEAN /\ raced \in BOOLEAN
    /\ running \in [Loops -> 0 .. MaxLoops] /\ owned \in [Loops -> BOOLEAN]
    /\ status \in [Sources -> Statuses]
    /\ {monitored, cached, revived} \subseteq SUBSET Sources
    /\ DOMAIN op = Callers

\* However activations, deactivations, reloads, checks and shutdowns
\* interleave, the registry tells what the monitor and the factory hold: an
\* active source is monitored, unless a mere validation made it active, and
\* a deactivated one is neither monitored nor left in the cache.
StatusTellsTheRest ==
    \A s \in Sources :
        /\ status[s] = "active" /\ s \notin revived => s \in monitored
        /\ status[s] = "inactive" => s \notin monitored \cup cached

\* A manager that is shut down, or was never started, runs no background
\* loop, as long as no initialization overlapped another or a shutdown (they
\* leave a loop behind that no shutdown ends).
LoopsEndWithManager ==
    ~started /\ Starting \cup Stopping = {} /\ ~raced =>
        \A l \in Loops : running[l] = 0

\* What the manager says of sources and of loops is what there is.
ManagerInCharge == StatusTellsTheRest /\ LoopsEndWithManager
=============================================================================

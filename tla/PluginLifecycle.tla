--------------------------- MODULE PluginLifecycle ---------------------------
(***************************************************************************)
(* The plugin manager and its registry: plugins are loaded, activated      *)
(* after the plugins they depend on, deactivated, unloaded, reloaded, and  *)
(* deactivated together at shutdown.                                       *)
(*                                                                         *)
(* The operations are coroutines of one asyncio event loop.  They suspend  *)
(* only while a plugin initializes or cleans up, and from one suspension   *)
(* to the next no other task runs.  Nested awaits (an activation awaits    *)
(* those of its dependencies, an unload awaits a deactivation) are frames  *)
(* on the stack of the task; `current' is the task the loop is running, so *)
(* an action below is one frame's code up to its next call or return.      *)
(***************************************************************************)
EXTENDS Integers, Sequences, FiniteSets, SequencesExt

CONSTANTS
    Plugins,     \* plugin names
    Requires,    \* <<p, q>>: p declares q as a dependency
    Optional,    \* <<p, q>>: p declares q as an optional dependency
    Outdated,    \* <<p, q>>: q is older than the version p asks for
    Tasks,       \* the asyncio tasks that use the manager
    Calls,       \* the operations they use
    Faulty,      \* the plugin methods that may fail
    MaxLoads,    \* bound: plugin instances
    NoTask, NoAnswer, NoPlugin

Operations == {"load", "activate", "deactivate", "unload", "reload", "shutdown"}

\* PluginState, the members that are ever assigned.
States == {"discovered", "initializing", "active", "inactive", "error"}

ASSUME PluginLifecycleAssumption ==
    /\ IsFiniteSet(Plugins)
    /\ Requires \subseteq Plugins \X Plugins
    /\ Optional \subseteq Plugins \X Plugins
    /\ Outdated \subseteq Requires \cup Optional
    /\ Calls \subseteq Operations
    /\ Faulty \subseteq {"initialize", "cleanup"}
    /\ MaxLoads \in Nat
    /\ NoTask \notin Tasks

VARIABLES
    instances,   \* plugin objects in order of creation
    registered,  \* name -> the instance registered under it, 0 if none
    stack,       \* task -> its frames, innermost first
    returned,    \* what the call awaited by `current' has just returned
    current,     \* the task the event loop runs, or NoTask
    answer       \* task -> the outcome of its last operation, loads apart

vars == <<instances, registered, stack, returned, current, answer>>

\* A PluginManager coroutine: where it stands, the plugin it works on, the
\* plugin object it fetched, and the names its loop still has to visit.
Frames == [op : Operations, pc : {"enter", "loop", "initialize", "cleanup", "unload"},
           plugin : Plugins \cup {NoPlugin}, id : 0..MaxLoads, rest : Seq(Plugins)]

Instances == [plugin : Plugins, state : States, initialized : BOOLEAN]

TypeOK ==
    /\ instances \in Seq(Instances)
    /\ registered \in [Plugins -> 0..Len(instances)]
    /\ stack \in [Tasks -> Seq(Frames)]
    /\ returned \in {"nothing", "ok", "failed"}
    /\ current \in Tasks \cup {NoTask}
    /\ answer \in [Tasks -> [op : Operations, ok : BOOLEAN] \cup {NoAnswer}]
    /\ \A p \in Plugins : registered[p] # 0 => instances[registered[p]].plugin = p

-----------------------------------------------------------------------------
(* The registry.                                                           *)

Registered(p) == registered[p] # 0
StateOf(p) == instances[registered[p]].state
Active(p) == Registered(p) /\ StateOf(p) = "active"

Needs(p, q) == <<p, q>> \in Requires \cup Optional

\* get_dependents: the registry keeps the reverse map of registered plugins.
Dependents(p) == {q \in Plugins : Registered(q) /\ Needs(q, p)}

\* validate_dependencies.
Missing(p) ==
    {q \in Plugins : \/ <<p, q>> \in Requires /\ ~Registered(q)
                     \/ <<p, q>> \in Outdated /\ Registered(q)}

\* The plugins that _topological_sort visits from p: the least set with p
\* and the registered dependencies of its members.
Reached(p) ==
    {q \in Plugins :
        \A S \in SUBSET Plugins :
            /\ p \in S
            /\ \A x \in S, y \in Plugins : Needs(x, y) /\ Registered(y) => y \in S
            => q \in S}

\* The orders Kahn's algorithm with a queue may produce: a plugin leaves
\* after its dependencies, and first come, first served by the last of them.
\* There is none when the dependencies form a cycle or a required one of
\* them is not registered: the sort raises.
LoadOrders(p) ==
    LET all == Reached(p)
        released(s, i) == {j \in DOMAIN s : Needs(s[i], s[j])}
        before(s, i, j) == \A x \in released(s, i) : \E y \in released(s, j) : x <= y
    IN  IF \E x \in all, q \in Plugins : <<x, q>> \in Requires /\ ~Registered(q)
        THEN {}
        ELSE {s \in SetToSeqs(all) :
                \A i, j \in DOMAIN s :
                    /\ Needs(s[i], s[j]) => j < i
                    /\ i < j => before(s, i, j)}

-----------------------------------------------------------------------------
(* Frames, suspensions and returns.                                        *)

Top(t) == Head(stack[t])
Running(t, op, pc) ==
    current = t /\ stack[t] # <<>> /\ Top(t).op = op /\ Top(t).pc = pc
Resumed(t, pc) == current = NoTask /\ stack[t] # <<>> /\ Top(t).pc = pc

Frame(op, p) == [op |-> op, plugin |-> p, pc |-> "enter", id |-> 0, rest |-> <<>>]

\* The frame goes on, at pc, with what is left of its loop.
Become(t, pc, id, rest) ==
    stack' = [stack EXCEPT ![t] = <<[Top(t) EXCEPT !.pc = pc, !.id = id, !.rest = rest]>> \o Tail(@)]

\* It keeps the event loop.
Goto(t, pc, id, rest) ==
    /\ Become(t, pc, id, rest)
    /\ returned' = "nothing"
    /\ UNCHANGED <<current, answer>>

\* It suspends inside the initialize or the cleanup of instance id.
Suspend(t, pc, id) ==
    /\ Become(t, pc, id, <<>>)
    /\ current' = NoTask
    /\ returned' = "nothing"
    /\ UNCHANGED answer

\* A nested await: the callee runs at once, the frame waits at pc.
Await(t, pc, rest, op, p) ==
    /\ stack' = [stack EXCEPT ![t] = <<Frame(op, p), [Top(t) EXCEPT !.pc = pc, !.rest = rest]>>
                                      \o Tail(@)]
    /\ returned' = "nothing"
    /\ UNCHANGED <<current, answer>>

\* The frame returns to the one below it, or the operation is over.
Return(t, ok) ==
    /\ stack' = [stack EXCEPT ![t] = Tail(@)]
    /\ IF Len(stack[t]) = 1
       THEN /\ answer' = [answer EXCEPT ![t] = [op |-> Top(t).op, ok |-> ok]]
            /\ current' = NoTask
            /\ returned' = "nothing"
       ELSE /\ current' = t
            /\ returned' = IF ok THEN "ok" ELSE "failed"
            /\ UNCHANGED answer

\* update_plugin_state goes by name: it writes to the object registered
\* under the name by now, and does nothing when there is none.
SetState(p, state) ==
    IF Registered(p) THEN [instances EXCEPT ![registered[p]].state = state] ELSE instances

-----------------------------------------------------------------------------
(* Calls.  load_plugin does not suspend, so it is one step; the others     *)
(* begin with a frame.                                                     *)

Idle(t) == current = NoTask /\ stack[t] = <<>>

\* Mutant: the name is bound to the object loaded before this one.
LoadPrevious(t, p) ==
    /\ Idle(t)
    /\ "load" \in Calls
    /\ Len(instances) < MaxLoads
    /\ ~Registered(p)
    /\ instances' = Append(instances, [plugin |-> p, state |-> "discovered", initialized |-> FALSE])
    /\ registered' = [registered EXCEPT ![p] = Len(instances)]
    /\ UNCHANGED <<stack, returned, current, answer>>

\* A file that does not load and a name that is taken change nothing.
Load(t, p) ==
    /\ Idle(t)
    /\ "load" \in Calls
    /\ \/ /\ ~Registered(p)
          /\ Len(instances) < MaxLoads
          /\ instances' = Append(instances, [plugin |-> p, state |-> "discovered", initialized |-> FALSE])
          /\ registered' = [registered EXCEPT ![p] = Len(instances) + 1]
       \/ UNCHANGED <<instances, registered>>
    /\ answer' = [answer EXCEPT ![t] = NoAnswer]
    /\ UNCHANGED <<stack, returned, current>>

Call(t, op, p) ==
    /\ Idle(t)
    /\ op \in Calls
    /\ stack' = [stack EXCEPT ![t] = <<Frame(op, p)>>]
    /\ current' = t
    /\ answer' = [answer EXCEPT ![t] = NoAnswer]
    /\ UNCHANGED <<instances, registered, returned>>

-----------------------------------------------------------------------------
(* activate_plugin.                                                        *)

EnterActivate(t) ==
    LET p == Top(t).plugin
        orders == IF Missing(p) = {} THEN LoadOrders(p) ELSE {}
    IN  /\ Running(t, "activate", "enter")
        /\ \/ /\ ~Registered(p) \/ Active(p)
              /\ Return(t, Active(p))
              /\ UNCHANGED instances
           \/ /\ Registered(p) /\ ~Active(p)
              /\ orders = {}
              /\ instances' = SetState(p, "error")
              /\ Return(t, FALSE)
           \/ /\ Registered(p) /\ ~Active(p)
              /\ instances' = SetState(p, "initializing")
              /\ \E order \in orders : Goto(t, "loop", registered[p], Front(order))
        /\ UNCHANGED registered

\* The next dependency of the loop, activated unless it is active or gone.
VisitDependency(t) ==
    LET rest == Top(t).rest
    IN  /\ Running(t, "activate", "loop")
        /\ returned = "nothing"
        /\ rest # <<>>
        /\ IF Registered(Head(rest)) /\ ~Active(Head(rest))
           THEN Await(t, "loop", Tail(rest), "activate", Head(rest))
           ELSE Goto(t, "loop", Top(t).id, Tail(rest))
        /\ UNCHANGED <<instances, registered>>

DependencyActivated(t) ==
    /\ Running(t, "activate", "loop")
    /\ returned = "ok"
    /\ Goto(t, "loop", Top(t).id, Top(t).rest)
    /\ UNCHANGED <<instances, registered>>

\* Mutant: the failure of a dependency is reported but not recorded.
DependencyFailedSilently(t) ==
    /\ Running(t, "activate", "loop")
    /\ returned = "failed"
    /\ Return(t, FALSE)
    /\ UNCHANGED <<instances, registered>>

DependencyFailed(t) ==
    /\ Running(t, "activate", "loop")
    /\ returned = "failed"
    /\ instances' = SetState(Top(t).plugin, "error")
    /\ Return(t, FALSE)
    /\ UNCHANGED registered

StartInitialize(t) ==
    /\ Running(t, "activate", "loop")
    /\ returned = "nothing"
    /\ Top(t).rest = <<>>
    /\ Suspend(t, "initialize", Top(t).id)
    /\ UNCHANGED <<instances, registered>>

\* Mutant: a failed initialization is tried again, without end.
RetryInitialize(t) ==
    LET done == SetState(Top(t).plugin, "active")
    IN  /\ Resumed(t, "initialize")
        /\ \/ /\ instances' = [done EXCEPT ![Top(t).id].initialized = TRUE]
              /\ Return(t, TRUE)
           \/ /\ "initialize" \in Faulty
              /\ current' = t
              /\ Become(t, "loop", Top(t).id, <<>>)
              /\ UNCHANGED <<instances, returned, answer>>
        /\ UNCHANGED registered

\* The object fetched at the start is initialized; the state is written to
\* whatever is registered under its name.
FinishInitialize(t) ==
    LET done == SetState(Top(t).plugin, "active")
    IN  /\ Resumed(t, "initialize")
        /\ \/ /\ instances' = [done EXCEPT ![Top(t).id].initialized = TRUE]
              /\ Return(t, TRUE)
           \/ /\ "initialize" \in Faulty
              /\ instances' = SetState(Top(t).plugin, "error")
              /\ Return(t, FALSE)
        /\ UNCHANGED registered

-----------------------------------------------------------------------------
(* deactivate_plugin.                                                      *)

\* Mutant: dependents are not looked at.
EnterDeactivateUnchecked(t) ==
    LET p == Top(t).plugin
    IN  /\ Running(t, "deactivate", "enter")
        /\ \/ /\ ~Active(p)
              /\ Return(t, Registered(p))
              /\ UNCHANGED instances
           \/ /\ Active(p)
              /\ instances' = SetState(p, "inactive")
              /\ Suspend(t, "cleanup", registered[p])
        /\ UNCHANGED registered

EnterDeactivate(t) ==
    LET p == Top(t).plugin
        needed == \E q \in Dependents(p) : Active(q)
    IN  /\ Running(t, "deactivate", "enter")
        /\ \/ /\ ~Active(p)
              /\ Return(t, Registered(p))
              /\ UNCHANGED instances
           \/ /\ Active(p) /\ needed
              /\ Return(t, FALSE)
              /\ UNCHANGED instances
           \/ /\ Active(p) /\ ~needed
              /\ instances' = SetState(p, "inactive")
              /\ Suspend(t, "cleanup", registered[p])
        /\ UNCHANGED registered

\* A plugin that fails to clean up stays inactive and keeps its resources.
FinishCleanup(t) ==
    /\ Resumed(t, "cleanup")
    /\ \/ /\ instances' = [instances EXCEPT ![Top(t).id].initialized = FALSE]
          /\ Return(t, TRUE)
       \/ /\ "cleanup" \in Faulty
          /\ Return(t, FALSE)
          /\ UNCHANGED instances
    /\ UNCHANGED registered

-----------------------------------------------------------------------------
(* unload_plugin and reload_plugin.                                        *)

\* Mutant: an active plugin is unloaded as it is.
EnterUnloadActive(t) ==
    /\ \E op \in {"unload", "reload"} : Running(t, op, "enter")
    /\ Become(t, "unload", 0, <<>>)
    /\ returned' = "ok"
    /\ UNCHANGED <<instances, registered, current, answer>>

\* Both deactivate the plugin first if it is active.
EnterUnload(t) ==
    LET p == Top(t).plugin
    IN  /\ \E op \in {"unload", "reload"} : Running(t, op, "enter")
        /\ IF Active(p)
           THEN Await(t, "unload", <<>>, "deactivate", p)
           ELSE /\ Become(t, "unload", 0, <<>>)
                /\ returned' = "ok"
                /\ UNCHANGED <<current, answer>>
        /\ UNCHANGED <<instances, registered>>

\* unregister reads the metadata of a dependent as if it were a dictionary:
\* any registered dependent, active or not, makes it raise and return False.
\* After that, reload calls asyncio.run inside the running loop, which
\* raises before the file is loaded: it always fails.
FinishUnload(t) ==
    LET p == Top(t).plugin
        gone == returned = "ok" /\ Registered(p) /\ Dependents(p) = {}
    IN  /\ \E op \in {"unload", "reload"} : Running(t, op, "unload")
        /\ registered' = IF gone THEN [registered EXCEPT ![p] = 0] ELSE registered
        /\ Return(t, gone /\ Top(t).op = "unload")
        /\ UNCHANGED instances

-----------------------------------------------------------------------------
(* shutdown: the active plugins in order of registration, one by one; what *)
(* each deactivation returns is not looked at.                             *)

EnterShutdown(t) ==
    LET active == {p \in Plugins : Active(p)}
    IN  /\ Running(t, "shutdown", "enter")
        /\ \E order \in SetToSeqs(active) :
             /\ \A i, j \in DOMAIN order : i < j => registered[order[i]] < registered[order[j]]
             /\ Goto(t, "loop", 0, order)
        /\ UNCHANGED <<instances, registered>>

VisitActive(t) ==
    LET rest == Top(t).rest
    IN  /\ Running(t, "shutdown", "loop")
        /\ IF rest = <<>> THEN Return(t, TRUE)
           ELSE Await(t, "loop", Tail(rest), "deactivate", Head(rest))
        /\ UNCHANGED <<instances, registered>>

-----------------------------------------------------------------------------

Init ==
    /\ instances = <<>>
    /\ registered = [p \in Plugins |-> 0]
    /\ stack = [t \in Tasks |-> <<>>]
    /\ returned = "nothing"
    /\ current = NoTask
    /\ answer = [t \in Tasks |-> NoAnswer]

Arrival(t) ==
    \/ \E p \in Plugins :
        \/ Load(t, p)
        \/ \E op \in {"activate", "deactivate", "unload", "reload"} : Call(t, op, p)
    \/ Call(t, "shutdown", NoPlugin)

\* The task runs until it suspends or ends.
Run(t) ==
    \/ EnterActivate(t)
    \/ VisitDependency(t)
    \/ DependencyActivated(t)
    \/ DependencyFailed(t)
    \/ StartInitialize(t)
    \/ EnterDeactivate(t)
    \/ EnterUnload(t)
    \/ FinishUnload(t)
    \/ EnterShutdown(t)
    \/ VisitActive(t)

\* A plugin's initialize or cleanup ends and the task resumes.
Resume(t) == FinishInitialize(t) \/ FinishCleanup(t)

Next == \E t \in Tasks : Arrival(t) \/ Run(t) \/ Resume(t)

\* Plugins' coroutines end, and the loop's ready queue is first in, first
\* out: a task that may resume again and again does resume.
Fairness ==
    /\ WF_vars(\E t \in Tasks : Run(t))
    /\ \A t \in Tasks : SF_vars(Resume(t))

Spec == Init /\ [][Next]_vars /\ Fairness

-----------------------------------------------------------------------------
(* Properties of any number of tasks.                                      *)

\* No plugin is left in INITIALIZING by a failed or overtaken activation:
\* some task is still busy activating a plugin of that name
\* (manager.py:213-258).
InitializingIsAttended ==
    \A p \in Plugins :
        Registered(p) /\ StateOf(p) = "initializing" =>
            \E t \in Tasks : \E i \in DOMAIN stack[t] :
                /\ stack[t][i].op = "activate"
                /\ stack[t][i].plugin = p
                /\ stack[t][i].pc # "enter"

\* Every operation of the manager ends, through nested activations and
\* whatever other tasks do in the meantime, provided plugins' own methods do.
EveryCallAnswered == \A t \in Tasks : stack[t] # <<>> ~> stack[t] = <<>>

-----------------------------------------------------------------------------
(* Properties of a single task.                                            *)

\* A plugin holds resources exactly while it is registered and active, or
\* being cleaned up: nothing unregistered, failed or inactive stays
\* initialized (base.py:179-201).
ResourcesTracked ==
    \A i \in DOMAIN instances :
        instances[i].initialized <=>
            \/ instances[i].state = "active" /\ registered[instances[i].plugin] = i
            \/ \E t \in Tasks : /\ stack[t] # <<>>
                                /\ Top(t).pc = "cleanup"
                                /\ Top(t).id = i

\* Plugins go up after those they require and down before them.
Order == INSTANCE ServiceOrder WITH up <- {p \in Plugins : Active(p)}
RefinesServiceOrder == Order!Spec

-----------------------------------------------------------------------------
(* What the documentation says and the code does not do.                   *)

\* manager.py:223 "Activate dependencies first", manager.py:282 "Check for
\* active dependents": the plugins an active plugin requires are active.
DependenciesHeld ==
    \A p, q \in Plugins : Active(p) /\ <<p, q>> \in Requires => Active(q)

\* manager.py:101 "Deactivate and cleanup all active plugins": when shutdown
\* reports success, no plugin is active.
ShutdownStopsAll ==
    \A t \in Tasks :
        answer[t] # NoAnswer /\ answer[t].op = "shutdown" /\ answer[t].ok =>
            \A p \in Plugins : ~Active(p)
=============================================================================

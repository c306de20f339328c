----------------------------- MODULE MessageBus -----------------------------
(***************************************************************************)
(* The command bus and the query bus (shared/cqrs/bus.py) for one type of  *)
(* messages.  They differ in the cache of the query bus, which answers     *)
(* before any middleware runs and is filled before the last of it does.    *)
(* A message passes the middleware in order, its handler, and the          *)
(* middleware in reverse; any failure sends it to on_error of all of them. *)
(* The loop over before_execute walks the live list, the others a list as  *)
(* long as the live one was when they began; nothing is ever removed.      *)
(***************************************************************************)
EXTENDS Naturals, FiniteSets, SequencesExt

CONSTANTS
    Executors,      \* executions in progress at a time
    Middleware

VARIABLES
    chain,          \* _middleware
    handled,        \* a handler is registered
    caching,        \* this is a query bus and set_cache was called
    inCache,        \* the cache has a result
    exec            \* per caller, the execution
messageBusVars == <<chain, handled, caching, inCache, exec>>

Resting == [step |-> "off", todo |-> <<>>, next |-> 0, opened |-> {}, closed |-> {},
            cut |-> FALSE]
MessageBusInit ==
    /\ chain = <<>> /\ handled = FALSE /\ inCache = FALSE
    /\ caching \in BOOLEAN
    /\ exec = [c \in Executors |-> Resting]

Moves(c, x) == exec' = [exec EXCEPT ![c] = x]
KeepsBus == UNCHANGED <<chain, handled, caching, inCache>>

\* What comes after before_execute of the first i of the list.
Before(x, i) ==
    [x EXCEPT !.step = IF i < Len(chain) THEN "before" ELSE "handler", !.next = i + 1]
\* What comes after, or instead of, a call: the rest of a reversed list.
Rest(x, step, todo) ==
    [x EXCEPT !.step = IF todo = <<>> THEN "off" ELSE step, !.todo = todo]
NotCaught(x) == Rest(x, "on_error", <<>>)   \* as if a failure were only passed on
Raises(x) == Rest(x, "on_error", Reverse(chain))

-----------------------------------------------------------------------------
\* execute, as far as the first suspension.  Without a handler it raises
\* before any middleware is called.
Execute(c) ==
    /\ exec[c].step = "off"
    /\ handled /\ ~inCache
    /\ Moves(c, Before(Resting, 0))
    /\ KeepsBus

\* The read of the cache raises.
CacheFails(c) ==
    /\ exec[c].step = "off"
    /\ handled /\ caching
    /\ Moves(c, Raises(Resting))
    /\ KeepsBus

\* before_execute of the next middleware.
BeforeExecute(c, fails) ==
    LET x == exec[c] IN
    /\ x.step = "before"
    /\ Moves(c, IF fails THEN Raises(x)
                ELSE Before([x EXCEPT !.opened = @ \cup {chain[x.next]}], x.next))
    /\ KeepsBus

\* A result of None is not kept.
Handle(c, outcome) ==
    LET x == exec[c] IN
    /\ x.step = "handler"
    /\ Moves(c, IF outcome = "failure" THEN Raises(x)
                ELSE IF caching /\ outcome = "result" THEN [x EXCEPT !.step = "store"]
                ELSE Rest(x, "after", Reverse(chain)))
    /\ KeepsBus

StoreInCache(c, fails) ==
    LET x == exec[c] IN
    /\ x.step = "store"
    /\ inCache' = (inCache \/ ~fails)
    /\ Moves(c, IF fails THEN Raises(x) ELSE Rest(x, "after", Reverse(chain)))
    /\ UNCHANGED <<chain, handled, caching>>

AfterExecute(c, fails) ==
    LET x == exec[c] IN
    /\ x.step = "after"
    /\ Moves(c, IF fails THEN Raises(x)
                ELSE Rest([x EXCEPT !.closed = @ \cup {Head(x.todo)}], "after", Tail(x.todo)))
    /\ KeepsBus

\* An on_error that raises takes the place of the failure and ends the loop.
OnError(c, fails) ==
    LET x == exec[c] IN
    /\ x.step = "on_error"
    /\ Moves(c, IF fails THEN [x EXCEPT !.step = "off", !.cut = TRUE]
                ELSE Rest([x EXCEPT !.closed = @ \cup {Head(x.todo)}], "on_error", Tail(x.todo)))
    /\ KeepsBus

AppendMiddleware(m) ==
    /\ m \notin ToSet(chain)
    /\ chain' = Append(chain, m)
    /\ UNCHANGED <<handled, caching, inCache, exec>>

RegisterHandler == handled' = TRUE /\ UNCHANGED <<chain, caching, inCache, exec>>
UnregisterHandler == handled' = FALSE /\ UNCHANGED <<chain, caching, inCache, exec>>

\* Five minutes after it was stored.
CacheExpires == inCache /\ inCache' = FALSE /\ UNCHANGED <<chain, handled, caching, exec>>

MessageBusNext ==
    \/ \E c \in Executors : Execute(c) \/ CacheFails(c)
    \/ \E c \in Executors, outcome \in {"result", "nothing", "failure"} : Handle(c, outcome)
    \/ \E c \in Executors, fails \in BOOLEAN :
         \/ BeforeExecute(c, fails) \/ StoreInCache(c, fails)
         \/ AfterExecute(c, fails) \/ OnError(c, fails)
    \/ \E m \in Middleware : AppendMiddleware(m)
    \/ RegisterHandler \/ UnregisterHandler \/ CacheExpires
MessageBusSpec == MessageBusInit /\ [][MessageBusNext]_messageBusVars

-----------------------------------------------------------------------------
MessageBusTypeOK ==
    /\ IsInjective(chain) /\ ToSet(chain) \subseteq Middleware
    /\ {handled, caching, inCache} \subseteq BOOLEAN
    /\ \A c \in Executors :
         /\ exec[c].step \in {"off", "before", "handler", "store", "after", "on_error"}
         /\ exec[c].opened \subseteq Middleware /\ exec[c].closed \subseteq Middleware
         /\ ToSet(exec[c].todo) \subseteq Middleware /\ exec[c].cut \in BOOLEAN

\* Whatever fails and whatever is added meanwhile, a middleware whose
\* before_execute returned gets after_execute or on_error before the
\* execution is over, unless an on_error raised.
MiddlewareClosed ==
    \A c \in Executors : exec[c].step = "off" /\ ~exec[c].cut => exec[c].opened \subseteq exec[c].closed
=============================================================================

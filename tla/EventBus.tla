----------------------------- MODULE EventBus -----------------------------
(***************************************************************************)
(* The event bus for one type of events (shared/events/domain_events.py):  *)
(* a list of handlers, a queue, and the loops that take events off it.     *)
(* Everything runs on one event loop; handlers of one event run            *)
(* concurrently, and anything may happen until all of them are done.       *)
(***************************************************************************)
EXTENDS Naturals, FiniteSets, SequencesExt

CONSTANTS
    Events,         \* events to be published
    Handlers,
    Accepting,      \* handlers whose can_handle accepts the events
    Runners         \* coroutines: processing loops, or publishers who wait

BusAssumption == Accepting \subseteq Handlers /\ IsFiniteSet(Handlers)

VARIABLES
    handlers,       \* the list of the event type, in order of subscription
    queue,          \* _event_queue
    processing,     \* _running
    runner,         \* per coroutine, what it is doing
    published,      \* events put into the queue so far, each once
    recorded,       \* _failed_events: event -> handlers recorded with it
    misreported,    \* events with a failure lost or put down to another handler
    middleware      \* some middleware was added
busVars == <<handlers, queue, processing, runner, published, recorded, misreported, middleware>>

Off == [step |-> "off"]
BusInit ==
    /\ handlers \in {SetToSeq(H) : H \in SUBSET Handlers}
    /\ queue = <<>> /\ published = {} /\ misreported = {}
    /\ processing = FALSE /\ middleware = FALSE
    /\ runner = [r \in Runners |-> Off]
    /\ recorded = [e \in Events |-> {}]

Runs(r, s) == runner' = [runner EXCEPT ![r] = s]
Known == published \cup {e \in Events : \E r \in Runners :
            runner[r].step \in {"before", "handling"} /\ runner[r].event = e}

\* An event being handled: how many handlers accept it, who they are where
\* the whole list does, and whether one was unsubscribed since.
Handling(e, waits) ==
    [step |-> "handling", event |-> e, waits |-> waits, disturbed |-> FALSE,
     asked |-> IF ToSet(handlers) \subseteq Accepting THEN handlers ELSE <<>>,
     tasks |-> Cardinality({i \in DOMAIN handlers : handlers[i] \in Accepting})]
Starts(r, e, waits) ==
    Runs(r, IF middleware /\ handlers # <<>>
            THEN [step |-> "before", event |-> e, waits |-> waits] ELSE Handling(e, waits))
Ends(r) ==
    Runs(r, IF ~runner[r].waits /\ processing THEN [step |-> "waiting"] ELSE Off)

SubscribeFirst(h) ==   \* as if the newest handler were the first
    /\ h \notin ToSet(handlers)
    /\ handlers' = <<h>> \o handlers
    /\ UNCHANGED <<middleware, queue, processing, runner, published, recorded, misreported>>
Subscribe(h) ==
    /\ h \notin ToSet(handlers)
    /\ handlers' = Append(handlers, h)
    /\ UNCHANGED <<middleware, queue, processing, runner, published, recorded, misreported>>

Disturbed(x) == [[x EXCEPT !.disturbed = TRUE] EXCEPT !.asked = <<>>]
Unsubscribe(h) ==
    /\ \E i \in DOMAIN handlers : handlers[i] = h /\ handlers' = RemoveAt(handlers, i)
    /\ runner' = [r \in Runners |-> IF runner[r].step = "handling"
                                    THEN Disturbed(runner[r]) ELSE runner[r]]
    /\ UNCHANGED <<middleware, queue, processing, published, recorded, misreported>>

Publish(e) ==
    /\ e \notin Known /\ recorded[e] = {}
    /\ queue' = Append(queue, e) /\ published' = published \cup {e}
    /\ UNCHANGED <<middleware, handlers, processing, runner, recorded, misreported>>

\* publish(event, wait_for_completion=True) passes the queue by.
PublishAndWait(r, e) ==
    /\ runner[r] = Off /\ e \notin Known /\ recorded[e] = {}
    /\ Starts(r, e, TRUE)
    /\ UNCHANGED <<middleware, handlers, queue, processing, published, recorded, misreported>>

LoopsAlive == {r \in Runners : runner[r].step = "waiting" \/
                 (runner[r].step \in {"before", "handling"} /\ ~runner[r].waits)}
StartProcessing(r) ==
    /\ runner[r] = Off /\ ~processing
    /\ processing' = TRUE
    /\ Runs(r, [step |-> "waiting"])
    /\ UNCHANGED <<middleware, handlers, queue, published, recorded, misreported>>

StopProcessing ==
    /\ processing
    /\ processing' = FALSE
    /\ UNCHANGED <<middleware, handlers, queue, runner, published, recorded, misreported>>

\* The get of a loop answers, processing or not.
TakeEvent(r) ==
    /\ runner[r].step = "waiting" /\ queue # <<>>
    /\ queue' = Tail(queue)
    /\ Starts(r, Head(queue), FALSE)
    /\ UNCHANGED <<middleware, handlers, processing, published, recorded, misreported>>

TimesOutForGood(r) ==   \* as if a second without events ended the loop
    /\ runner[r].step = "waiting" /\ queue = <<>>
    /\ Runs(r, Off)
    /\ UNCHANGED <<middleware, handlers, queue, processing, published, recorded, misreported>>

\* A second without events, after which the loop looks at _running.
TimesOut(r) ==
    /\ runner[r].step = "waiting" /\ queue = <<>> /\ ~processing
    /\ Runs(r, Off)
    /\ UNCHANGED <<middleware, handlers, queue, processing, published, recorded, misreported>>

\* before_handle of the middleware: the event is lost when it raises.
BeforeHandle(r) ==
    /\ runner[r].step = "before"
    /\ Runs(r, Handling(runner[r].event, runner[r].waits)) \/ Ends(r)
    /\ UNCHANGED <<middleware, handlers, queue, processing, published, recorded, misreported>>

AddMiddleware ==
    /\ ~middleware /\ middleware' = TRUE
    /\ UNCHANGED <<handlers, queue, processing, runner, published, recorded, misreported>>

\* Each failure is recorded with the handler found at its index in the list,
\* which is not the list of the accepting ones and may be shorter by now.
Looked(failed) == {i \in failed : i <= Len(handlers)}

\* gather has returned, with an exception at the indices failed.  Where no
\* handler is found the rest goes unrecorded (and a waiting publisher gets
\* the IndexError).
HandlingEnds(r, failed) ==
    LET x == runner[r]
        found == {handlers[i] : i \in Looked(failed)}
    IN  /\ x.step = "handling"
        /\ failed \subseteq 1 .. x.tasks
        /\ recorded' = [recorded EXCEPT ![x.event] = @ \cup found]
        /\ misreported' = misreported \cup
                {e \in {x.event} : /\ ~x.disturbed
                                  /\ \/ Looked(failed) # failed
                                     \/ x.asked # <<>> /\ found # {x.asked[i] : i \in failed}}
        /\ Ends(r)
        /\ UNCHANGED <<middleware, handlers, queue, processing, published>>

ClearFailedEvents ==
    /\ recorded' = [e \in Events |-> {}]
    /\ UNCHANGED <<middleware, handlers, queue, processing, runner, published, misreported>>

BusNext ==
    \/ \E h \in Handlers : Subscribe(h) \/ Unsubscribe(h)
    \/ \E e \in Events : Publish(e)
    \/ \E r \in Runners, e \in Events : PublishAndWait(r, e)
    \/ \E r \in Runners : StartProcessing(r) \/ TakeEvent(r) \/ TimesOut(r) \/ BeforeHandle(r)
    \/ \E r \in Runners, failed \in SUBSET (1 .. Cardinality(Handlers)) : HandlingEnds(r, failed)
    \/ StopProcessing \/ ClearFailedEvents \/ AddMiddleware
BusSpec == BusInit /\ [][BusNext]_busVars

-----------------------------------------------------------------------------
BusTypeOK ==
    /\ handlers \in Seq(Handlers) /\ IsInjective(handlers)
    /\ {ToSet(queue), published, misreported} \subseteq SUBSET Events
    /\ {processing, middleware} \subseteq BOOLEAN
    /\ DOMAIN runner = Runners
    /\ recorded \in [Events -> SUBSET Handlers]

\* Every failure is recorded, and where all the subscribed handlers accept the
\* event it is put down to the handler that failed, although the handlers are
\* looked up in a list that others join meanwhile.  Not so when a handler was
\* unsubscribed while the event was handled (an IndexError or a wrong name),
\* nor, as for the name, when one in the list had not accepted the event.
FailuresRecorded == misreported = {}

\* While the bus says it is running some loop is there to take the events off
\* its queue, however often it is stopped and started, also within the second
\* in which a stopped loop has yet to notice, and whatever the handlers raise.
\* (There may be two loops then, and each handles events on its own.)
QueueAttended == processing => LoopsAlive # {}
=============================================================================

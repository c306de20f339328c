----------------------------- MODULE Container ------------------------------
(***************************************************************************)
(* The dependency container (core/container.py) as the routes use it: the  *)
(* functions of core/dependencies.py are synchronous, so that FastAPI runs *)
(* them in a pool of threads, and all of them resolve from one container.  *)
(* What di_config.py registers are singletons.  Threads may be switched    *)
(* between any two accesses to the container.                              *)
(***************************************************************************)
EXTENDS Naturals, FiniteSets, Sequences, SequencesExt

CONSTANTS
    Pool,           \* the threads
    Services,       \* what the routes ask for
    Bound,          \* the types with a binding
    Needs           \* type -> annotated parameters of its constructor, in order

\* The types need each other in layers: services their repositories, and these
\* the database.
Layered ==
    \E rank \in [DOMAIN Needs -> 0 .. Cardinality(DOMAIN Needs)] :
        \A t \in Bound : \A i \in DOMAIN Needs[t] : rank[Needs[t][i]] < rank[t]

\* A constructor does without the parameters that are not registered, which
\* have a default or are optional.
ContainerAssumption ==
    /\ IsFiniteSet(Pool) /\ IsFiniteSet(DOMAIN Needs)
    /\ Bound \subseteq DOMAIN Needs /\ Services \subseteq DOMAIN Needs
    /\ \A t \in Bound : Needs[t] \in Seq(DOMAIN Needs)
    /\ Layered

VARIABLES
    resolving,      \* _resolution_stack, shared by the threads
    singletons,     \* the types with an entry in _singletons
    created,        \* per type, how many instances were constructed
    frames,         \* per thread, its nested calls of resolve, innermost last
    outcome         \* per thread, how its last request ended
containerVars == <<resolving, singletons, created, frames, outcome>>

Types == DOMAIN Needs
Frame(t) == [type |-> t, at |-> "check", rest |-> <<>>, result |-> "none"]

ContainerInit ==
    /\ resolving = <<>>
    /\ singletons = {}
    /\ created = [t \in Types |-> 0]
    /\ frames = [h \in Pool |-> <<>>]
    /\ outcome = [h \in Pool |-> "none"]

At(h, step) == frames[h] # <<>> /\ Last(frames[h]).at = step
Top(h) == Last(frames[h])
WithTop(h, f) == [frames EXCEPT ![h] = Append(Front(@), f)]

\* A route's dependency asks for a service.
Resolve(h, t) ==
    /\ frames[h] = <<>>
    /\ frames' = [frames EXCEPT ![h] = <<Frame(t)>>]
    /\ outcome' = [outcome EXCEPT ![h] = "none"]
    /\ UNCHANGED <<resolving, singletons, created>>

\* The call on top ends with a result and its caller goes on: a service that
\* is not registered is left out, any other exception passes through.
Returned(h, result) ==
    LET outer == Front(frames[h]) IN
    IF outer = <<>>
    THEN /\ frames' = [frames EXCEPT ![h] = <<>>]
         /\ outcome' = [outcome EXCEPT ![h] = result]
    ELSE /\ frames' = [frames EXCEPT ![h] =
               IF result = "cycle"
               THEN Append(Front(outer), [Last(outer) EXCEPT !.at = "remove", !.result = result])
               ELSE outer]
         /\ UNCHANGED outcome

\* The check comes before the try: a call that fails it removes nothing.
CheckCycle(h) ==
    /\ At(h, "check")
    /\ IF Contains(resolving, Top(h).type)
       THEN Returned(h, "cycle")
       ELSE frames' = WithTop(h, [Top(h) EXCEPT !.at = "push"]) /\ UNCHANGED outcome
    /\ UNCHANGED <<resolving, singletons, created>>

Push(h) ==
    /\ At(h, "push")
    /\ resolving' = Append(resolving, Top(h).type)
    /\ frames' = WithTop(h, [Top(h) EXCEPT !.at = "look_up"])
    /\ UNCHANGED <<singletons, created, outcome>>

LookUp(h) ==
    /\ At(h, "look_up")
    /\ LET t == Top(h).type IN
       frames' = WithTop(h,
           IF t \notin Bound THEN [Top(h) EXCEPT !.at = "remove", !.result = "missing"]
           ELSE IF t \in singletons THEN [Top(h) EXCEPT !.at = "remove", !.result = "ok"]
           ELSE [Top(h) EXCEPT !.at = "create", !.rest = Needs[t]])
    /\ UNCHANGED <<resolving, singletons, created, outcome>>

\* _create_from_class resolves the parameters of the constructor in order.
ResolveNeed(h) ==
    /\ At(h, "create") /\ Top(h).rest # <<>>
    /\ frames' = [frames EXCEPT ![h] =
          Front(@) \o <<[Top(h) EXCEPT !.rest = Tail(@)], Frame(Head(Top(h).rest))>>]
    /\ UNCHANGED <<resolving, singletons, created, outcome>>

Construct(h) ==
    /\ At(h, "create") /\ Top(h).rest = <<>>
    /\ created' = [created EXCEPT ![Top(h).type] = @ + 1]
    /\ frames' = WithTop(h, [Top(h) EXCEPT !.at = "store"])
    /\ UNCHANGED <<resolving, singletons, outcome>>

Store(h) ==
    /\ At(h, "store")
    /\ singletons' = singletons \cup {Top(h).type}
    /\ frames' = WithTop(h, [Top(h) EXCEPT !.at = "remove", !.result = "ok"])
    /\ UNCHANGED <<resolving, created, outcome>>

RemoveTypeIfMade(h) ==   \* as if the removal came after the try
    /\ At(h, "remove")
    /\ resolving' = IF Top(h).result = "ok"
                    THEN RemoveFirst(resolving, Top(h).type) ELSE resolving
    /\ Returned(h, Top(h).result)
    /\ UNCHANGED <<singletons, created>>

\* The finally clause: list.remove takes the first occurrence, whichever
\* thread appended it.
RemoveType(h) ==
    /\ At(h, "remove")
    /\ resolving' = RemoveFirst(resolving, Top(h).type)
    /\ Returned(h, Top(h).result)
    /\ UNCHANGED <<singletons, created>>

ContainerNext ==
    \E h \in Pool :
        \/ \E t \in Services : Resolve(h, t)
        \/ CheckCycle(h) \/ Push(h) \/ LookUp(h) \/ ResolveNeed(h)
        \/ Construct(h) \/ Store(h) \/ RemoveType(h)
ContainerSpec == ContainerInit /\ [][ContainerNext]_containerVars

-----------------------------------------------------------------------------
ContainerTypeOK ==
    /\ resolving \in Seq(Types)
    /\ singletons \subseteq Bound
    /\ \A t \in Types : created[t] \in Nat
    /\ \A h \in Pool : \A i \in DOMAIN frames[h] :
         frames[h][i].at \in {"check", "push", "look_up", "create", "store", "remove"}
    /\ outcome \in [Pool -> {"none", "ok", "missing", "cycle"}]

Occurrences(t) == Cardinality({i \in DOMAIN resolving : resolving[i] = t})
\* The calls, of any thread, that are between Push and RemoveType for type t.
CallsFor(h, t) ==
    {<<h, i>> : i \in {j \in DOMAIN frames[h] :
        frames[h][j].type = t /\ frames[h][j].at \notin {"check", "push"}}}

\* Threads share the stack of types being resolved and so take each other
\* for a cycle, but only while they overlap: however resolutions interleave,
\* fail or are refused, the stack holds a type once for every call that is
\* resolving it, and a request is refused only for a type some other thread
\* is resolving.  A thread constructs a singleton at most once, all together.
ResolutionsKeepTrack ==
    /\ \A t \in Types :
         /\ Occurrences(t) = Cardinality(UNION {CallsFor(h, t) : h \in Pool})
         /\ created[t] <= Cardinality(Pool)
    /\ \A h \in Pool :
         At(h, "check") /\ Contains(resolving, Top(h).type) =>
            \E other \in Pool \ {h} : CallsFor(other, Top(h).type) # {}
=============================================================================
